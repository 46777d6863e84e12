------------------------------- MODULE DinoProofs -------------------------------
(***************************************************************************)
(* The parts of the Dino game beside its control, for every value of the   *)
(* constants: uploads are final, the ground and the clouds stay in place,  *)
(* obstacles vary and keep their order, the score of a crash is kept and   *)
(* the night ends.                                                         *)
(***************************************************************************)
EXTENDS Obstacles, Scenery, Meter, Upload, TLAPS, SequenceTheorems, FiniteSetTheorems,
        NaturalsInduction, WellFoundedInduction

(* A set of naturals that is not empty has a least element. *)
LEMMA LeastOne ==
    ASSUME NEW T \in SUBSET Nat, T # {}
    PROVE  \E n \in T : \A m \in T : n <= m
<1>1. IsWellFoundedOn(OpToRel(<, Nat), Nat)
  BY NatLessThanWellFounded
<1>2. PICK n \in T : \A m \in T : ~(<<m, n>> \in OpToRel(<, Nat))
  BY <1>1, WFMin
<1>3. \A m \in T : ~(m < n)
  BY <1>2 DEF OpToRel
<1> QED BY <1>3

(* A function on 1 .. n is a sequence. *)
LEMMA FunctionIsSeq ==
    ASSUME NEW S, NEW n \in Nat, NEW f \in [1 .. n -> S]
    PROVE  f \in Seq(S) /\ Len(f) = n /\ DOMAIN f = 1 .. n
<1>1. f \in Seq(S)
  BY SeqDef
<1>2. DOMAIN f = 1 .. Len(f) /\ Len(f) \in Nat /\ DOMAIN f = 1 .. n
  BY <1>1, LenProperties
<1> QED BY <1>1, <1>2

(* Products keep an order and a sum. *)
LEMMA MultiplesApart ==
    ASSUME NEW a \in Nat \ {0}, NEW j \in Int, NEW k \in Int, j < k
    PROVE  a * j + a <= a * k
OBVIOUS

LEMMA MultiplesGrow ==
    ASSUME NEW a \in Nat, NEW j \in Int, NEW k \in Int, j <= k
    PROVE  a * j <= a * k /\ a * j \in Int /\ a * k \in Int
OBVIOUS

LEMMA MultiplesAdd ==
    ASSUME NEW a \in Nat, NEW j \in Int
    PROVE  a * (j + 1) = a * j + a /\ a * j \in Int
OBVIOUS

------------------------------------------------------------------------------
(* Uploads. *)

Posts == [game : Nat, score : Nat, stage : Stages]

UploadTypes ==
    /\ score \in Nat /\ ended \in BOOLEAN /\ scoreUploaded \in BOOLEAN
    /\ finals \in Seq(Nat)
    /\ posts \in Seq(Posts)
    /\ leaderboard \subseteq [game : Nat, score : Nat]

(* The window shows the score of the last game; one that has been clicked in
   is the only one that a post is for. *)
WindowKnows ==
    /\ ended => Len(finals) > 0 /\ finals[Len(finals)] = score
    /\ ~ended => ~scoreUploaded
    /\ ended /\ ~scoreUploaded => \A i \in DOMAIN posts : posts[i].game # Len(finals)

(* What is on its way, and what has arrived, is the score of a game over. *)
PostsKnow ==
    /\ \A i \in DOMAIN posts :
          /\ posts[i].game \in 1 .. Len(finals)
          /\ posts[i].score = finals[posts[i].game]
          /\ \A j \in DOMAIN posts : posts[j].game = posts[i].game => i = j
    /\ \A entry \in leaderboard :
          entry.game \in 1 .. Len(finals) /\ entry.score = finals[entry.game]

UploadInv == UploadTypes /\ WindowKnows /\ PostsKnow

(* A step of the chain of promises of one post. *)
LEMMA PostStep ==
    ASSUME UploadInv, NEW i \in DOMAIN posts, NEW st \in Stages, To(i, st),
           UNCHANGED <<score, ended, scoreUploaded, finals>>,
           leaderboard' = leaderboard \/ leaderboard' = leaderboard \cup {Entry(i)}
    PROVE  UploadInv'
<1>1. posts \in Seq(Posts) /\ i \in 1 .. Len(posts) /\ posts[i] \in Posts
  BY ElementOfSeq, LenProperties DEF UploadInv, UploadTypes
<1> DEFINE new == [posts[i] EXCEPT !.stage = st]
<1>2. new \in Posts /\ new.game = posts[i].game /\ new.score = posts[i].score /\ new.stage = st
  BY <1>1 DEF Posts
<1>3. posts' = [posts EXCEPT ![i] = new]
  BY DEF To
<1> HIDE DEF new
<1>4. /\ posts' \in Seq(Posts) /\ Len(posts') = Len(posts)
      /\ DOMAIN posts' = DOMAIN posts /\ DOMAIN posts = 1 .. Len(posts)
      /\ \A j \in DOMAIN posts : posts'[j] = IF j = i THEN new ELSE posts[j]
  BY <1>1, <1>2, <1>3, ExceptSeq, LenProperties
<1>5. \A j \in DOMAIN posts : posts'[j].game = posts[j].game /\ posts'[j].score = posts[j].score
  BY <1>2, <1>4
<1>6. Entry(i) \in [game : Nat, score : Nat]
  BY <1>1 DEF Entry, Posts
<1>7. UploadTypes'
  BY <1>4, <1>6 DEF UploadInv, UploadTypes
<1>8. WindowKnows'
  BY <1>4, <1>5 DEF UploadInv, WindowKnows
<1>9. PostsKnow'
  <2>1. \A j \in DOMAIN posts' :
          /\ posts'[j].game \in 1 .. Len(finals')
          /\ posts'[j].score = finals'[posts'[j].game]
          /\ \A n \in DOMAIN posts' : posts'[n].game = posts'[j].game => j = n
    BY <1>4, <1>5 DEF UploadInv, PostsKnow
  <2>2. \A entry \in leaderboard' :
          entry.game \in 1 .. Len(finals') /\ entry.score = finals'[entry.game]
    BY DEF UploadInv, PostsKnow, Entry
  <2> QED BY <2>1, <2>2 DEF PostsKnow
<1> QED BY <1>7, <1>8, <1>9 DEF UploadInv

LEMMA NextUpload == UploadInv /\ [UploadNext]_uploadVars => UploadInv'
<1> SUFFICES ASSUME UploadInv, [UploadNext]_uploadVars PROVE UploadInv'
  OBVIOUS
<1>0. /\ posts \in Seq(Posts) /\ finals \in Seq(Nat) /\ Len(posts) \in Nat /\ Len(finals) \in Nat
      /\ DOMAIN posts = 1 .. Len(posts) /\ score \in Nat
  BY LenProperties DEF UploadInv, UploadTypes
<1>1. CASE Run
  BY <1>1 DEF Run, UploadInv, UploadTypes, WindowKnows, PostsKnow, Entry
<1>2. CASE UploadGameOver
  <2>1. /\ ended' = TRUE /\ finals' = Append(finals, score) /\ ~ended /\ ~scoreUploaded
        /\ UNCHANGED <<score, scoreUploaded, posts, leaderboard>>
    BY <1>2 DEF UploadGameOver, UploadInv, WindowKnows
  <2>2. /\ finals' \in Seq(Nat) /\ Len(finals') = Len(finals) + 1
        /\ \A n \in 1 .. Len(finals) : finals'[n] = finals[n]
        /\ finals'[Len(finals) + 1] = score
    BY <1>0, <2>1, AppendProperties
  <2>3. UploadTypes'
    BY <2>1, <2>2 DEF UploadInv, UploadTypes
  <2>4. WindowKnows'
    BY <1>0, <2>1, <2>2 DEF UploadInv, WindowKnows, PostsKnow
  <2>5. PostsKnow'
    BY <1>0, <2>1, <2>2 DEF UploadInv, PostsKnow, Entry
  <2> QED BY <2>3, <2>4, <2>5 DEF UploadInv
<1>3. CASE ClickUpload
  <2> DEFINE new == [game |-> Game, score |-> score, stage |-> "key"]
  <2>1. /\ ended /\ ~scoreUploaded /\ scoreUploaded' = TRUE
        /\ posts' = Append(posts, new)
        /\ UNCHANGED <<score, ended, leaderboard, finals>>
    BY <1>3 DEF ClickUpload
  <2>2. Game = Len(finals) /\ Len(finals) > 0 /\ finals[Len(finals)] = score
    BY <1>0, <2>1 DEF Game, UploadInv, WindowKnows
  <2>3. new \in Posts /\ new.game = Len(finals) /\ new.score = score /\ new.stage = "key"
    BY <1>0, <2>2 DEF Posts, Stages
  <2> HIDE DEF new
  <2>4. /\ posts' \in Seq(Posts) /\ Len(posts') = Len(posts) + 1
        /\ \A i \in DOMAIN posts : posts'[i] = posts[i]
        /\ posts'[Len(posts) + 1] = new
        /\ DOMAIN posts' = 1 .. Len(posts) + 1
    BY <1>0, <2>1, <2>3, AppendProperties, LenProperties
  <2>5. UploadTypes'
    BY <2>1, <2>4 DEF UploadInv, UploadTypes
  <2>6. WindowKnows'
    BY <2>1 DEF UploadInv, WindowKnows
  <2>7. \A i \in DOMAIN posts : posts[i].game # Len(finals)
    BY <2>1 DEF UploadInv, WindowKnows
  <2>8. PostsKnow'
    <3>1. ASSUME NEW i \in DOMAIN posts'
          PROVE  /\ posts'[i].game \in 1 .. Len(finals')
                 /\ posts'[i].score = finals'[posts'[i].game]
                 /\ \A j \in DOMAIN posts' : posts'[j].game = posts'[i].game => i = j
      <4>1. CASE i \in DOMAIN posts
        BY <1>0, <2>1, <2>3, <2>4, <2>7, <4>1 DEF UploadInv, PostsKnow, Entry
      <4>2. CASE i = Len(posts) + 1
        BY <1>0, <2>1, <2>2, <2>3, <2>4, <2>7, <4>2
      <4> QED BY <1>0, <2>4, <4>1, <4>2
    <3>2. \A entry \in leaderboard' :
            entry.game \in 1 .. Len(finals') /\ entry.score = finals'[entry.game]
      BY <2>1 DEF UploadInv, PostsKnow
    <3> QED BY <3>1, <3>2 DEF PostsKnow
  <2> QED BY <2>5, <2>6, <2>8 DEF UploadInv
<1>4. CASE UploadRestart
  BY <1>4 DEF UploadRestart, UploadInv, UploadTypes, WindowKnows, PostsKnow, Entry
<1>5. ASSUME NEW i \in DOMAIN posts, KeyArrives(i) PROVE UploadInv'
  BY <1>5, PostStep DEF KeyArrives, Stages
<1>6. ASSUME NEW i \in DOMAIN posts, ServerAnswers(i) PROVE UploadInv'
  BY <1>6, PostStep DEF ServerAnswers, Stages
<1>7. ASSUME NEW i \in DOMAIN posts, ServerRefuses(i) PROVE UploadInv'
  BY <1>7, PostStep DEF ServerRefuses, Stages
<1>8. ASSUME NEW i \in DOMAIN posts, AnswerArrives(i) PROVE UploadInv'
  BY <1>8, PostStep DEF AnswerArrives, Stages
<1>9. ASSUME NEW i \in DOMAIN posts, FetchFails(i) PROVE UploadInv'
  <2>1. leaderboard' = leaderboard \/ leaderboard' = leaderboard \cup {Entry(i)}
    BY <1>9 DEF FetchFails
  <2> QED BY <1>9, <2>1, PostStep DEF FetchFails, Stages
<1>10. CASE UNCHANGED uploadVars
  BY <1>10 DEF uploadVars, UploadInv, UploadTypes, WindowKnows, PostsKnow, Entry
<1> QED BY <1>1, <1>2, <1>3, <1>4, <1>5, <1>6, <1>7, <1>8, <1>9, <1>10 DEF UploadNext

(* Whatever games are begun and over while a chain of promises runs, whatever
   gets lost on its way, and however often it is clicked: every upload is the
   final score of its game, each game's once, and nothing else is ever on the
   leaderboard (popup(), the upload button). *)
THEOREM UploadsStayFinal == UploadSpec => []UploadsAreFinal
<1>1. UploadInit => UploadInv
  <2> SUFFICES ASSUME UploadInit PROVE UploadInv
    OBVIOUS
  <2>1. /\ score = 0 /\ ended = FALSE /\ scoreUploaded = FALSE
        /\ posts = <<>> /\ leaderboard = {} /\ finals = <<>> /\ DOMAIN posts = {}
    BY DEF UploadInit
  <2>2. <<>> \in Seq(Posts) /\ <<>> \in Seq(Nat)
    BY EmptySeq
  <2> QED BY <2>1, <2>2 DEF UploadInv, UploadTypes, WindowKnows, PostsKnow
<1>2. UploadInv => UploadsAreFinal
  <2> SUFFICES ASSUME UploadInv PROVE UploadsAreFinal
    OBVIOUS
  <2>1. Len(finals) \in Nat
    BY LenProperties DEF UploadInv, UploadTypes
  <2> QED BY <2>1 DEF UploadInv, PostsKnow, UploadsAreFinal
<1> QED BY <1>1, <1>2, NextUpload, PTL DEF UploadSpec
------------------------------------------------------------------------------
(* The ground and the clouds. *)

(* What can be seen of a row that has left the canvas up to its k-th cloud. *)
LEMMA InSightIsTail ==
    ASSUME NEW S, NEW row \in Seq(S), NEW k \in 0 .. Len(row),
           \A i \in 1 .. Len(row) : Visible(row[i]) <=> k < i
    PROVE  InSight(row) = SubSeq(row, k + 1, Len(row))
<1> DEFINE D == 0 .. Len(row)
           Step(f) == [i \in D |->
                         IF i = 0 THEN <<>>
                         ELSE IF Visible(row[i]) THEN Append(f[i - 1], row[i]) ELSE f[i - 1]]
           tail == [i \in D |-> SubSeq(row, k + 1, i)]
           f == CHOOSE g : g = Step(g)
<1>0. Len(row) \in Nat /\ Len(row) \in D
  BY LenProperties
<1>1. tail = Step(tail)
  <2>1. ASSUME NEW i \in D, i > k
        PROVE  SubSeq(row, k + 1, i) = Append(SubSeq(row, k + 1, i - 1), row[i])
    <3>1. k + 1 \in 1 .. Len(row) /\ i \in k + 1 .. Len(row) /\ i \in 1 .. Len(row)
      BY <1>0, <2>1
    <3>2. SubSeq(row, k + 1, i) = SubSeq(row, k + 1, i - 1) \o << row[i] >>
      BY <3>1, SubSeqRecursiveSecond
    <3>3. \A j \in k + 1 .. i - 1 : row[j] \in S
      BY <1>0, <2>1, ElementOfSeq
    <3>4. SubSeq(row, k + 1, i - 1) \in Seq(S) /\ row[i] \in S
      BY <1>0, <3>1, <3>3, SubSeqProperties, ElementOfSeq
    <3> QED BY <3>2, <3>4, AppendIsConcat
  <2>2. \A i \in D : i <= k => SubSeq(row, k + 1, i) = <<>>
    BY <1>0, SubSeqEmpty
  <2>3. ASSUME NEW i \in D
        PROVE  tail[i] = Step(tail)[i]
    <3>1. CASE i = 0
      BY <2>2, <3>1
    <3>2. CASE i # 0 /\ i <= k
      <4>1. i - 1 \in D /\ i \in 1 .. Len(row) /\ ~Visible(row[i])
        BY <1>0, <3>2
      <4> QED BY <2>2, <3>2, <4>1
    <3>3. CASE i > k
      <4>1. i - 1 \in D /\ i \in 1 .. Len(row) /\ Visible(row[i]) /\ i # 0
        BY <1>0, <3>3
      <4> QED BY <2>1, <3>3, <4>1
    <3>4. i = 0 \/ (i # 0 /\ i <= k) \/ i > k
      BY <1>0
    <3> HIDE DEF tail, Step
    <3> QED BY <3>1, <3>2, <3>3, <3>4
  <2> HIDE DEF tail
  <2>4. DOMAIN tail = D
    BY DEF tail
  <2>5. tail = [i \in D |-> tail[i]]
    BY DEF tail
  <2> QED BY <2>3, <2>5
<1>2. f = Step(f)
  BY <1>1
<1>3. InSight(row) = f[Len(row)]
  BY DEF InSight
<1> HIDE DEF f
<1>4. \A i \in D : f[i] = tail[i]
  <2> DEFINE Bad == {i \in D : f[i] # tail[i]}
  <2> SUFFICES ASSUME Bad # {} PROVE FALSE
    OBVIOUS
  <2>1. PICK n \in Bad : \A m \in Bad : n <= m
    <3>1. Bad \in SUBSET Nat
      BY <1>0
    <3> QED BY <3>1, LeastOne
  <2>2. n \in D /\ f[n] # tail[n]
    BY <2>1
  <2>3. n # 0 => f[n - 1] = tail[n - 1]
    <3> SUFFICES ASSUME n # 0 PROVE f[n - 1] = tail[n - 1]
      OBVIOUS
    <3>1. n - 1 \in D /\ ~(n <= n - 1)
      BY <1>0, <2>2
    <3>2. n - 1 \notin Bad
      BY <2>1, <3>1
    <3> QED BY <3>1, <3>2
  <2>4. f[n] = Step(f)[n] /\ tail[n] = Step(tail)[n]
    BY <1>1, <1>2
  <2> HIDE DEF tail, Bad
  <2>5. Step(f)[n] = Step(tail)[n]
    BY <2>2, <2>3
  <2> QED BY <2>2, <2>4, <2>5
<1> QED BY <1>0, <1>3, <1>4


Clouds == [xPos : Int, gap : Nat]

(* A row of clouds that keep their gaps. *)
Apart(row) ==
    \A i \in 1 .. Len(row) - 1 : row[i + 1].xPos - row[i].xPos > row[i].gap

SceneryTypes ==
    /\ xPos \in [{1, 2} -> Int]
    /\ clouds \in Seq(Clouds)
    /\ late \in Nat

LEMMA CloudsInOrder ==
    ASSUME NEW row \in Seq(Clouds), Apart(row)
    PROVE  \A i, j \in 1 .. Len(row) : i < j => row[i].xPos < row[j].xPos
<1>0. Len(row) \in Nat /\ \A i \in 1 .. Len(row) : row[i] \in Clouds
  BY LenProperties, ElementOfSeq
<1> SUFFICES ASSUME NEW i \in 1 .. Len(row)
             PROVE  \A j \in 1 .. Len(row) : i < j => row[i].xPos < row[j].xPos
  OBVIOUS
<1> DEFINE Bad == {j \in 1 .. Len(row) : i < j /\ ~(row[i].xPos < row[j].xPos)}
<1> SUFFICES ASSUME Bad # {} PROVE FALSE
  OBVIOUS
<1>1. PICK n \in Bad : \A m \in Bad : n <= m
  <2>1. Bad \in SUBSET Nat
    BY <1>0
  <2> HIDE DEF Bad
  <2> QED BY <2>1, LeastOne
<1>2. n \in 1 .. Len(row) /\ i < n /\ ~(row[i].xPos < row[n].xPos)
  BY <1>1
<1>3. n - 1 \in 1 .. Len(row) - 1 /\ n - 1 \in 1 .. Len(row) /\ (n - 1) + 1 = n /\ ~(n <= n - 1)
  BY <1>0, <1>2
<1>4. row[n].xPos - row[n - 1].xPos > row[n - 1].gap
  BY <1>3 DEF Apart
<1>5. row[n - 1].xPos < row[n].xPos
  <2>1. /\ row[n].xPos \in Int /\ row[n - 1].xPos \in Int /\ row[n - 1].gap \in Nat
    BY <1>0, <1>2, <1>3 DEF Clouds
  <2> QED BY <1>4, <2>1
<1>6. n - 1 \notin Bad
  BY <1>1, <1>3
<1>7. i < n - 1 => row[i].xPos < row[n - 1].xPos
  BY <1>3, <1>6
<1>8. i < n - 1 \/ i = n - 1
  BY <1>0, <1>2
<1>9. /\ row[n].xPos \in Int /\ row[n - 1].xPos \in Int /\ row[i].xPos \in Int
  BY <1>0, <1>2, <1>3 DEF Clouds
<1> QED BY <1>2, <1>5, <1>7, <1>8, <1>9

(* What is left of a row when filter has taken what cannot be seen. *)
LEMMA InSightKeeps ==
    ASSUME NEW row \in Seq(Clouds), Apart(row)
    PROVE  /\ InSight(row) \in Seq(Clouds) /\ Len(InSight(row)) <= Len(row)
           /\ Apart(InSight(row))
           /\ \A i \in 1 .. Len(InSight(row)) : Visible(InSight(row)[i])
<1>0. /\ Len(row) \in Nat /\ \A i \in 1 .. Len(row) : row[i] \in Clouds
      /\ CloudWidth \in Nat
  BY LenProperties, ElementOfSeq, SceneryAssumption
<1>1. PICK k \in 0 .. Len(row) : \A i \in 1 .. Len(row) : Visible(row[i]) <=> k < i
  <2> DEFINE T == {i \in 1 .. Len(row) : Visible(row[i])}
  <2>1. CASE T = {}
    <3>1. \A i \in 1 .. Len(row) : Visible(row[i]) <=> Len(row) < i
      BY <1>0, <2>1
    <3> QED BY <1>0, <3>1
  <2>2. CASE T # {}
    <3>1. T \in SUBSET Nat
      BY <1>0
    <3>2. PICK n \in T : \A m \in T : n <= m
      <4> HIDE DEF T
      <4> QED BY <2>2, <3>1, LeastOne
    <3>3. n \in 1 .. Len(row) /\ Visible(row[n])
      BY <3>2
    <3>4. ASSUME NEW i \in 1 .. Len(row)
          PROVE  Visible(row[i]) <=> n - 1 < i
      <4>1. Visible(row[i]) => n <= i
        BY <3>2
      <4>2. ASSUME n < i PROVE Visible(row[i])
        <5>1. row[n].xPos < row[i].xPos
          BY <3>3, <4>2, CloudsInOrder
        <5>2. row[n].xPos \in Int /\ row[i].xPos \in Int
          BY <1>0, <3>3 DEF Clouds
        <5> QED BY <1>0, <3>3, <5>1, <5>2 DEF Visible
      <4> QED BY <1>0, <3>3, <4>1, <4>2
    <3>5. n - 1 \in 0 .. Len(row)
      BY <1>0, <3>3
    <3> QED BY <3>4, <3>5
  <2> QED BY <2>1, <2>2
<1> DEFINE kept == SubSeq(row, k + 1, Len(row))
<1>2. InSight(row) = kept
  BY <1>1, InSightIsTail
<1>3. /\ kept \in Seq(Clouds) /\ Len(kept) = Len(row) - k
      /\ \A i \in 1 .. Len(row) - k : kept[i] = row[k + i]
  <2>1. \A i \in k + 1 .. Len(row) : row[i] \in Clouds
    BY <1>0
  <2> HIDE DEF kept
  <2>2. /\ kept \in Seq(Clouds)
        /\ Len(kept) = IF k + 1 <= Len(row) THEN Len(row) - (k + 1) + 1 ELSE 0
        /\ \A i \in 1 .. Len(row) - (k + 1) + 1 : kept[i] = row[(k + 1) + i - 1]
    BY <1>0, <2>1, SubSeqProperties DEF kept
  <2>3. \A i \in 1 .. Len(row) - k : (k + 1) + i - 1 = k + i
    BY <1>0
  <2> QED BY <1>0, <2>2, <2>3
<1> HIDE DEF kept
<1>4. \A i \in 1 .. Len(kept) : Visible(kept[i])
  <2> TAKE i \in 1 .. Len(kept)
  <2>1. k + i \in 1 .. Len(row) /\ k < k + i /\ kept[i] = row[k + i]
    BY <1>0, <1>3
  <2> QED BY <1>1, <2>1
<1>5. Apart(kept)
  <2> SUFFICES ASSUME NEW i \in 1 .. Len(kept) - 1
               PROVE  kept[i + 1].xPos - kept[i].xPos > kept[i].gap
    BY DEF Apart
  <2>1. /\ kept[i] = row[k + i] /\ kept[i + 1] = row[(k + i) + 1]
        /\ k + i \in 1 .. Len(row) - 1
    <3>1. i \in 1 .. Len(row) - k /\ i + 1 \in 1 .. Len(row) - k /\ k + (i + 1) = (k + i) + 1
      BY <1>0, <1>3
    <3> QED BY <1>0, <1>3, <3>1
  <2> QED BY <2>1 DEF Apart
<1> QED BY <1>0, <1>2, <1>3, <1>4, <1>5

LEMMA NewCloudIsRight ==
    ASSUME NEW c \in NewClouds
    PROVE  c \in Clouds /\ c.xPos = LineWidth
<1>1. LineWidth \in Int /\ CloudGaps \in SUBSET Nat
  BY SceneryAssumption
<1>2. c \in [xPos : {LineWidth}, gap : CloudGaps]
  BY DEF NewClouds
<1>3. c = [xPos |-> c.xPos, gap |-> c.gap] /\ c.xPos = LineWidth /\ c.gap \in CloudGaps
  BY <1>2
<1>4. c.gap \in Nat /\ c.xPos \in Int
  BY <1>1, <1>3
<1> QED BY <1>3, <1>4 DEF Clouds

(* A row whose clouds have all moved, and one more behind it. *)
LEMMA CloudsStayApart ==
    ASSUME clouds \in Seq(Clouds), CloudsApart, NEW step \in Nat, clouds' \in CloudsAfter(step)
    PROVE  clouds' \in Seq(Clouds) /\ CloudsApart'
<1>0. /\ clouds \in Seq(Clouds) /\ Len(clouds) \in Nat /\ Len(clouds) <= MaxClouds
      /\ DOMAIN clouds = 1 .. Len(clouds) /\ Apart(clouds)
      /\ \A i \in 1 .. Len(clouds) : clouds[i] \in Clouds
  BY LenProperties, ElementOfSeq DEF CloudsApart, Apart
<1>1. /\ LineWidth \in Nat /\ CloudWidth \in Nat \ {0} /\ MaxClouds \in Nat \ {0}
      /\ CloudGaps \in SUBSET Nat
  BY SceneryAssumption
<1>2. ASSUME NEW row \in Seq(Clouds), Apart(row), Len(row) <= MaxClouds,
             clouds' = InSight(row)
      PROVE  clouds' \in Seq(Clouds) /\ CloudsApart'
  <2>1. /\ clouds' \in Seq(Clouds) /\ Len(clouds') <= Len(row) /\ Apart(clouds')
        /\ \A i \in 1 .. Len(clouds') : Visible(clouds'[i])
    BY <1>2, InSightKeeps
  <2>2. Len(clouds') \in Nat /\ DOMAIN clouds' = 1 .. Len(clouds') /\ Len(row) \in Nat
    BY <1>2, <2>1, LenProperties
  <2>3. Len(clouds') <= MaxClouds
    BY <1>1, <1>2, <2>1, <2>2
  <2>4. \A i \in DOMAIN clouds' : i < Len(clouds') =>
           clouds'[i + 1].xPos - clouds'[i].xPos > clouds'[i].gap
    BY <2>1, <2>2 DEF Apart
  <2> QED BY <2>1, <2>2, <2>3, <2>4 DEF CloudsApart, Visible
<1>3. \A c \in NewClouds : c \in Clouds /\ c.xPos = LineWidth
  BY NewCloudIsRight
<1>4. CASE clouds = <<>>
  <2>1. PICK c \in NewClouds : clouds' = <<c>>
    BY <1>4 DEF CloudsAfter
  <2>2. c \in Clouds /\ c.xPos = LineWidth
    BY <1>3
  <2>3. <<c>> \in Seq(Clouds) /\ Len(<<c>>) = 1 /\ <<c>>[1] = c /\ DOMAIN <<c>> = {1}
    BY <2>2
  <2> QED BY <1>1, <2>1, <2>2, <2>3 DEF CloudsApart, Visible
<1>5. CASE clouds # <<>>
  <2> DEFINE moved == [i \in DOMAIN clouds |-> [clouds[i] EXCEPT !.xPos = @ - step]]
  <2>1. \A i \in 1 .. Len(clouds) : /\ [clouds[i] EXCEPT !.xPos = @ - step] \in Clouds
                                    /\ [clouds[i] EXCEPT !.xPos = @ - step].xPos = clouds[i].xPos - step
                                    /\ [clouds[i] EXCEPT !.xPos = @ - step].gap = clouds[i].gap
    BY <1>0 DEF Clouds
  <2>2. moved \in [1 .. Len(clouds) -> Clouds]
    BY <1>0, <2>1
  <2>3. \A i \in 1 .. Len(clouds) : moved[i].xPos = clouds[i].xPos - step /\ moved[i].gap = clouds[i].gap
    BY <1>0, <2>1
  <2>4. \/ clouds' = InSight(moved)
        \/ CloudIsDue(moved) /\ \E c \in NewClouds : clouds' = InSight(Append(moved, c))
    BY <1>5 DEF CloudsAfter
  <2> HIDE DEF moved
  <2>5. moved \in Seq(Clouds) /\ Len(moved) = Len(clouds)
    BY <1>0, <2>2, FunctionIsSeq
  <2>6. Apart(moved)
    <3> SUFFICES ASSUME NEW i \in 1 .. Len(moved) - 1
                 PROVE  moved[i + 1].xPos - moved[i].xPos > moved[i].gap
      BY DEF Apart
    <3>1. i \in 1 .. Len(clouds) /\ i + 1 \in 1 .. Len(clouds) /\ i \in 1 .. Len(clouds) - 1
      BY <1>0, <2>5
    <3>2. clouds[i + 1].xPos - clouds[i].xPos > clouds[i].gap
      BY <1>0, <3>1 DEF Apart
    <3>3. clouds[i + 1].xPos \in Int /\ clouds[i].xPos \in Int /\ clouds[i].gap \in Nat
      BY <1>0, <3>1 DEF Clouds
    <3> QED BY <2>3, <3>1, <3>2, <3>3
  <2>7. CASE clouds' = InSight(moved)
    BY <1>0, <1>2, <2>5, <2>6, <2>7
  <2>8. ASSUME CloudIsDue(moved), NEW c \in NewClouds, clouds' = InSight(Append(moved, c))
        PROVE  clouds' \in Seq(Clouds) /\ CloudsApart'
    <3> DEFINE row == Append(moved, c)
    <3>1. c \in Clouds /\ c.xPos = LineWidth
      BY <1>3
    <3>2. /\ row \in Seq(Clouds) /\ Len(row) = Len(moved) + 1
          /\ \A i \in 1 .. Len(moved) : row[i] = moved[i]
          /\ row[Len(moved) + 1] = c
      BY <2>5, <3>1, AppendProperties
    <3> HIDE DEF row
    <3>3. Len(moved) < MaxClouds /\ LineWidth - moved[Len(moved)].xPos > moved[Len(moved)].gap
      BY <2>8 DEF CloudIsDue, Last
    <3>4. Apart(row)
      <4> SUFFICES ASSUME NEW i \in 1 .. Len(row) - 1
                   PROVE  row[i + 1].xPos - row[i].xPos > row[i].gap
        BY DEF Apart
      <4>1. CASE i = Len(moved)
        <5>1. Len(moved) \in 1 .. Len(moved)
          BY <1>0, <1>5, <2>5, EmptySeq
        <5>2. moved[Len(moved)] \in Clouds
          BY <2>5, <5>1, ElementOfSeq
        <5>3. moved[Len(moved)].xPos \in Int /\ moved[Len(moved)].gap \in Nat
          BY <5>2 DEF Clouds
        <5>4. row[i] = moved[Len(moved)] /\ row[i + 1] = c
          BY <3>2, <4>1, <5>1
        <5> HIDE DEF row
        <5> QED BY <3>1, <3>3, <5>3, <5>4
      <4>2. CASE i < Len(moved)
        <5>1. i \in 1 .. Len(moved) - 1 /\ i \in 1 .. Len(moved) /\ i + 1 \in 1 .. Len(moved)
          BY <1>0, <2>5, <4>2
        <5> QED BY <2>6, <3>2, <5>1 DEF Apart
      <4>3. i = Len(moved) \/ i < Len(moved)
        <5>1. Len(moved) \in Nat /\ Len(row) - 1 = Len(moved)
          BY <1>0, <2>5, <3>2
        <5> QED BY <5>1
      <4> QED BY <4>1, <4>2, <4>3
    <3>5. Len(row) <= MaxClouds
      BY <1>0, <1>1, <2>5, <3>2, <3>3
    <3> QED BY <1>2, <2>8, <3>2, <3>4, <3>5 DEF row
  <2> QED BY <2>4, <2>7, <2>8
<1> QED BY <1>4, <1>5

(* The two pieces of the line follow each other, whatever a frame moves them by. *)
LEMMA LineIsTyped ==
    ASSUME NEW x \in [{1, 2} -> Int], NEW increment \in Nat
    PROVE  LineUpdate(x, increment) \in [{1, 2} -> Int]
<1>1. LineWidth \in Nat
  BY SceneryAssumption
<1>2. ASSUME NEW a \in {1, 2} PROVE LineAfter(x, a, increment) \in [{1, 2} -> Int]
  BY <1>1, <1>2 DEF LineAfter
<1> QED BY <1>2 DEF LineUpdate

(* The two pieces follow each other, and the one further left is at most d
   pixels too far left; if it is the first, by which update() goes while both
   are left of the canvas, by a width less. *)
Within(x, d) ==
    \E i \in {1, 2} :
        /\ x[3 - i] = x[i] + LineWidth /\ x[i] <= 0 /\ -LineWidth - d <= x[i]
        /\ i = 1 => -LineWidth <= x[1] \/ -d <= x[1]

(* Where a frame puts the pieces, by the one that leads. *)
LEMMA LineIsMoved ==
    ASSUME NEW x \in [{1, 2} -> Int], NEW inc \in Nat
    PROVE  LET y == LineUpdate(x, inc)
           IN  /\ x[1] <= 0 /\ x[1] - inc > -LineWidth =>
                     y[1] = x[1] - inc /\ y[2] = x[1] - inc + LineWidth
               /\ x[1] <= 0 /\ x[1] - inc <= -LineWidth =>
                     y[1] = x[1] - inc + 2 * LineWidth /\ y[2] = x[1] - inc + LineWidth
               /\ x[1] > 0 /\ x[2] - inc > -LineWidth =>
                     y[2] = x[2] - inc /\ y[1] = x[2] - inc + LineWidth
               /\ x[1] > 0 /\ x[2] - inc <= -LineWidth =>
                     y[2] = x[2] - inc + 2 * LineWidth /\ y[1] = x[2] - inc + LineWidth
<1>0. LineWidth \in Nat \ {0} /\ x[1] \in Int /\ x[2] \in Int /\ DOMAIN x = {1, 2}
  BY SceneryAssumption
<1>1. CASE x[1] <= 0
  <2>1. LineUpdate(x, inc) = LineAfter(x, 1, inc) /\ ~(x[1] > 0)
    BY <1>0, <1>1 DEF LineUpdate
  <2> QED BY <1>0, <1>1, <2>1 DEF LineAfter
<1>2. CASE x[1] > 0
  <2>1. LineUpdate(x, inc) = LineAfter(x, 2, inc) /\ ~(x[1] <= 0)
    BY <1>0, <1>2 DEF LineUpdate
  <2> QED BY <1>0, <1>2, <2>1 DEF LineAfter
<1> QED BY <1>0, <1>1, <1>2

(* An ordinary frame keeps the line where it is, or brings it a width nearer. *)
LEMMA LineComesBack ==
    ASSUME NEW x \in [{1, 2} -> Int], NEW inc \in 0 .. LineWidth,
           NEW d \in Nat, NEW e \in Nat, d <= e + LineWidth, Within(x, d)
    PROVE  Within(LineUpdate(x, inc), e)
<1> DEFINE y == LineUpdate(x, inc)
<1>0. LineWidth \in Nat \ {0} /\ x[1] \in Int /\ x[2] \in Int /\ inc \in Nat /\ inc <= LineWidth
  BY SceneryAssumption
<1>1. /\ x[1] <= 0 /\ x[1] - inc > -LineWidth =>
            y[1] = x[1] - inc /\ y[2] = x[1] - inc + LineWidth
      /\ x[1] <= 0 /\ x[1] - inc <= -LineWidth =>
            y[1] = x[1] - inc + 2 * LineWidth /\ y[2] = x[1] - inc + LineWidth
      /\ x[1] > 0 /\ x[2] - inc > -LineWidth =>
            y[2] = x[2] - inc /\ y[1] = x[2] - inc + LineWidth
      /\ x[1] > 0 /\ x[2] - inc <= -LineWidth =>
            y[2] = x[2] - inc + 2 * LineWidth /\ y[1] = x[2] - inc + LineWidth
  BY <1>0, LineIsMoved
<1>2. \/ /\ x[2] = x[1] + LineWidth /\ x[1] <= 0
         /\ -LineWidth <= x[1] \/ -d <= x[1]
      \/ /\ x[1] = x[2] + LineWidth /\ x[2] <= 0 /\ -LineWidth - d <= x[2]
  BY DEF Within
<1> HIDE DEF y
<1>3. \/ /\ y[2] = y[1] + LineWidth /\ y[1] <= 0 /\ -LineWidth <= y[1]
      \/ /\ y[1] = y[2] + LineWidth /\ y[2] <= 0 /\ -LineWidth - e <= y[2]
  BY <1>0, <1>1, <1>2
<1>4. \/ /\ y[3 - 1] = y[1] + LineWidth /\ y[1] <= 0 /\ -LineWidth - e <= y[1]
         /\ -LineWidth <= y[1]
      \/ /\ y[3 - 2] = y[2] + LineWidth /\ y[2] <= 0 /\ -LineWidth - e <= y[2]
  <2>1. y[3 - 1] = y[2] /\ y[3 - 2] = y[1]
    OBVIOUS
  <2>2. y[1] \in Int
    BY <1>0, LineIsTyped DEF y
  <2> QED BY <1>0, <1>3, <2>1, <2>2
<1>5. Within(y, e)
  BY <1>4 DEF Within
<1> QED BY <1>5 DEF y

(* A late one brings it no further away than it moves it. *)
LEMMA LineGoesAway ==
    ASSUME NEW x \in [{1, 2} -> Int], NEW inc \in Nat,
           NEW d \in Nat, NEW e \in Nat, d + inc <= e, Within(x, d)
    PROVE  Within(LineUpdate(x, inc), e)
<1> DEFINE y == LineUpdate(x, inc)
<1>0. LineWidth \in Nat \ {0} /\ x[1] \in Int /\ x[2] \in Int
  BY SceneryAssumption
<1>1. /\ x[1] <= 0 /\ x[1] - inc > -LineWidth =>
            y[1] = x[1] - inc /\ y[2] = x[1] - inc + LineWidth
      /\ x[1] <= 0 /\ x[1] - inc <= -LineWidth =>
            y[1] = x[1] - inc + 2 * LineWidth /\ y[2] = x[1] - inc + LineWidth
      /\ x[1] > 0 /\ x[2] - inc > -LineWidth =>
            y[2] = x[2] - inc /\ y[1] = x[2] - inc + LineWidth
      /\ x[1] > 0 /\ x[2] - inc <= -LineWidth =>
            y[2] = x[2] - inc + 2 * LineWidth /\ y[1] = x[2] - inc + LineWidth
  BY <1>0, LineIsMoved
<1>2. \/ /\ x[2] = x[1] + LineWidth /\ x[1] <= 0
         /\ -LineWidth <= x[1] \/ -d <= x[1]
      \/ /\ x[1] = x[2] + LineWidth /\ x[2] <= 0 /\ -LineWidth - d <= x[2]
  BY DEF Within
<1> HIDE DEF y
<1>3. \/ /\ y[2] = y[1] + LineWidth /\ y[1] <= 0
         /\ -LineWidth <= y[1] \/ -e <= y[1]
      \/ /\ y[1] = y[2] + LineWidth /\ y[2] <= 0 /\ -LineWidth - e <= y[2]
  BY <1>0, <1>1, <1>2
<1>4. \/ /\ y[3 - 1] = y[1] + LineWidth /\ y[1] <= 0 /\ -LineWidth - e <= y[1]
         /\ -LineWidth <= y[1] \/ -e <= y[1]
      \/ /\ y[3 - 2] = y[2] + LineWidth /\ y[2] <= 0 /\ -LineWidth - e <= y[2]
  <2>1. y[3 - 1] = y[2] /\ y[3 - 2] = y[1]
    OBVIOUS
  <2>2. y[1] \in Int
    BY <1>0, LineIsTyped DEF y
  <2> QED BY <1>0, <1>3, <2>1, <2>2
<1>5. Within(y, e)
  BY <1>4 DEF Within
<1> QED BY <1>5 DEF y

(* The widths that the line may be off, by the frames that it may be. *)
LineKnows == Within(xPos, LineWidth * late)

SceneryInv == SceneryTypes /\ LineKnows /\ CloudsApart

LEMMA NextScenery == SceneryInv /\ [SceneryNext]_sceneryVars => SceneryInv'
<1> SUFFICES ASSUME SceneryInv, [SceneryNext]_sceneryVars PROVE SceneryInv'
  OBVIOUS
<1>0. /\ LineWidth \in Nat \ {0} /\ xPos \in [{1, 2} -> Int] /\ late \in Nat
      /\ Moves \in SUBSET [line : 0 .. LineWidth, clouds : Nat]
      /\ LateMoves \in SUBSET [line : Nat, clouds : Nat]
  BY SceneryAssumption DEF SceneryInv, SceneryTypes
<1>1. ASSUME NEW move \in [line : Nat, clouds : Nat], SceneryFrame(move)
      PROVE  xPos' \in [{1, 2} -> Int] /\ clouds' \in Seq(Clouds) /\ CloudsApart'
  BY <1>0, <1>1, LineIsTyped, CloudsStayApart DEF SceneryFrame, SceneryInv, SceneryTypes
<1>2. CASE OnTime
  <2>1. PICK move \in Moves : SceneryFrame(move)
    BY <1>2 DEF OnTime
  <2>2. move.line \in 0 .. LineWidth /\ move \in [line : Nat, clouds : Nat]
    BY <1>0
  <2>3. late' \in Nat /\ ((late = 0 /\ late' = 0) \/ late' + 1 = late)
    BY <1>0, <1>2 DEF OnTime
  <2> DEFINE d == LineWidth * late
             e == LineWidth * late'
  <2>4. d \in Nat /\ e \in Nat /\ d <= e + LineWidth
    <3>1. CASE late = 0 /\ late' = 0
      BY <1>0, <3>1
    <3>2. CASE late' + 1 = late
      <4>0. \A n \in Nat : LineWidth * (n + 1) = LineWidth * n + LineWidth /\ LineWidth * n \in Nat
        BY <1>0
      <4>1. LineWidth * (late' + 1) = LineWidth * late' + LineWidth /\ LineWidth * late' \in Nat
        BY <2>3, <4>0
      <4>2. d = e + LineWidth /\ e \in Nat
        <5>1. d = LineWidth * (late' + 1)
          BY <3>2
        <5> QED BY <4>1, <5>1
      <4> HIDE DEF d, e
      <4> QED BY <1>0, <4>2
    <3> QED BY <2>3, <3>1, <3>2
  <2>5. Within(xPos, d)
    BY DEF SceneryInv, LineKnows
  <2> HIDE DEF d, e
  <2>6. Within(LineUpdate(xPos, move.line), e)
    BY <1>0, <2>2, <2>4, <2>5, LineComesBack
  <2>7. LineKnows'
    BY <2>1, <2>6 DEF SceneryFrame, LineKnows, e, Within
  <2> QED BY <1>1, <2>1, <2>2, <2>3, <2>7 DEF SceneryInv, SceneryTypes
<1>3. CASE Late
  <2>1. PICK move \in LateMoves :
            SceneryFrame(move) /\ late' = late + move.line \div LineWidth + 1
    BY <1>3 DEF Late
  <2> DEFINE widths == move.line \div LineWidth
  <2>2. move.line \in Nat /\ move \in [line : Nat, clouds : Nat]
    BY <1>0
  <2>3. widths \in Nat /\ move.line <= LineWidth * (widths + 1)
    <3>1. \A n \in Nat : n \div LineWidth \in Nat /\ n <= LineWidth * (n \div LineWidth + 1)
      BY <1>0
    <3> QED BY <2>2, <3>1
  <2>4. late' = late + (widths + 1)
    BY <1>0, <2>1, <2>3
  <2> HIDE DEF widths
  <2> DEFINE d == LineWidth * late
             e == LineWidth * late'
  <2>5. d \in Nat /\ e \in Nat /\ d + move.line <= e
    <3>1. e = d + LineWidth * (widths + 1)
      BY <1>0, <2>3, <2>4
    <3> HIDE DEF e
    <3>2. d \in Nat /\ LineWidth * (widths + 1) \in Nat
      BY <1>0, <2>3
    <3> HIDE DEF d
    <3> QED BY <2>2, <2>3, <3>1, <3>2
  <2>6. Within(xPos, d)
    BY DEF SceneryInv, LineKnows
  <2> HIDE DEF d, e
  <2>7. Within(LineUpdate(xPos, move.line), e)
    BY <1>0, <2>2, <2>5, <2>6, LineGoesAway
  <2>8. LineKnows'
    BY <2>1, <2>7 DEF SceneryFrame, LineKnows, e, Within
  <2>9. late' \in Nat
    BY <1>0, <2>3, <2>4
  <2> QED BY <1>1, <2>1, <2>2, <2>8, <2>9 DEF SceneryInv, SceneryTypes
<1>4. CASE SceneryRestart
  <2>1. xPos' = <<0, LineWidth>> /\ late' = 0 /\ clouds' = clouds
    BY <1>4 DEF SceneryRestart
  <2>2. <<0, LineWidth>> \in [{1, 2} -> Int] /\ Within(<<0, LineWidth>>, 0)
    BY <1>0 DEF Within
  <2>3. LineKnows'
    BY <1>0, <2>1, <2>2 DEF LineKnows, Within
  <2> QED BY <2>1, <2>2, <2>3 DEF SceneryInv, SceneryTypes, CloudsApart, Visible
<1>5. CASE UNCHANGED sceneryVars
  BY <1>5 DEF sceneryVars, SceneryInv, SceneryTypes, LineKnows, Within, CloudsApart, Visible
<1> QED BY <1>2, <1>3, <1>4, <1>5 DEF SceneryNext

(* The ground covers the canvas and the clouds keep their gaps; what a late frame
   has moved away is back as soon as LineCoversScreen says, however late frames
   follow each other and whatever the widths (HorizonLine.updateXPos). *)
THEOREM SceneryStaysInPlace == ScenerySpec => []SceneryInPlace
<1>1. SceneryInit => SceneryInv
  <2> SUFFICES ASSUME SceneryInit PROVE SceneryInv
    OBVIOUS
  <2>0. LineWidth \in Nat \ {0} /\ MaxClouds \in Nat \ {0} /\ CloudGaps \in SUBSET Nat /\ CloudWidth \in Nat \ {0}
    BY SceneryAssumption
  <2>1. PICK c \in NewClouds : clouds = <<c>>
    BY DEF SceneryInit
  <2>2. c \in Clouds /\ c.xPos = LineWidth
    BY NewCloudIsRight
  <2>3. <<c>> \in Seq(Clouds) /\ Len(<<c>>) = 1 /\ <<c>>[1] = c /\ DOMAIN <<c>> = {1}
    BY <2>2
  <2>4. CloudsApart
    BY <2>0, <2>1, <2>2, <2>3 DEF CloudsApart, Visible
  <2>5. /\ <<0, LineWidth>> \in [{1, 2} -> Int] /\ Within(<<0, LineWidth>>, 0)
        /\ LineWidth * 0 = 0
    BY <2>0 DEF Within
  <2> QED BY <2>1, <2>3, <2>4, <2>5 DEF SceneryInit, SceneryInv, SceneryTypes, LineKnows
<1>2. SceneryInv => SceneryInPlace
  <2> SUFFICES ASSUME SceneryInv PROVE SceneryInPlace
    OBVIOUS
  <2>1. LineWidth \in Nat \ {0} /\ xPos \in [{1, 2} -> Int]
    BY SceneryAssumption DEF SceneryInv, SceneryTypes
  <2>2. ASSUME late = 0 PROVE Covers(xPos)
    <3>1. LineWidth * late = 0
      BY <2>1, <2>2
    <3>2. Within(xPos, 0)
      BY <3>1 DEF SceneryInv, LineKnows
    <3> QED BY <2>1, <3>2 DEF Within, Covers
  <2> QED BY <2>2 DEF SceneryInv, SceneryInPlace, LineCoversScreen
<1> QED BY <1>1, <1>2, NextScenery, PTL DEF ScenerySpec

------------------------------------------------------------------------------
(* The obstacles. *)

Kinds == {"CACTUS_SMALL", "CACTUS_LARGE", "PTERODACTYL"}

ObstacleRecords ==
    [type : Kinds, size : Int, yPos : Int, xPos : Int, gap : Int, speedOffset : Int,
     remove : BOOLEAN, followed : BOOLEAN, born : Int, idle : BOOLEAN]

LEMMA KindsAreTypes == DOMAIN Types = Kinds
  BY DEF Types, Kinds

LEMMA TypesAreTyped ==
    ASSUME NEW type \in Kinds
    PROVE  /\ Types[type].width \in Int /\ Types[type].minGap \in Int
           /\ Types[type].yPos \in SUBSET Int /\ Types[type].speedOffsets \in SUBSET Int
<1>1. CASE type = "CACTUS_SMALL"
  <2>1. /\ Types[type].width = 17 /\ Types[type].minGap = 120
        /\ Types[type].yPos = {105} /\ Types[type].speedOffsets = {0}
    BY <1>1 DEF Types
  <2> QED BY <2>1
<1>2. CASE type = "CACTUS_LARGE"
  <2>1. /\ Types[type].width = 25 /\ Types[type].minGap = 120
        /\ Types[type].yPos = {90} /\ Types[type].speedOffsets = {0}
    BY <1>2 DEF Types
  <2> QED BY <2>1
<1>3. CASE type = "PTERODACTYL"
  <2>1. /\ Types[type].width = 46 /\ Types[type].minGap = 150
        /\ Types[type].yPos = {100, 75, 50} /\ Types[type].speedOffsets = {8, -8}
    BY <1>3 DEF Types
  <2> QED BY <2>1
<1> QED BY <1>1, <1>2, <1>3 DEF Kinds

LEMMA NewObstacleIsTyped ==
    ASSUME speed \in Int, NEW type \in Kinds, NEW v \in Int, NEW o \in NewObstacles(type, v)
    PROVE  o \in ObstacleRecords /\ o.type = type
<1>1. PICK drawn \in Sizes :
         LET size == AllowedSize(type, drawn, v)
             gap == MinGap(type, size, v)
         IN  o \in [type : {type}, size : {size}, yPos : Types[type].yPos,
                    xPos : {Width + Types[type].width},
                    gap : {gap, RoundDiv(gap * 3, 2)},
                    speedOffset : Types[type].speedOffsets,
                    remove : {FALSE}, followed : {FALSE},
                    born : {speed}, idle : {v = 0}]
  BY DEF NewObstacles
<1> DEFINE size == AllowedSize(type, drawn, v)
           gap == MinGap(type, size, v)
<1>2. size \in Int
  BY ObstaclesAssumption DEF AllowedSize
<1>3. /\ Types[type].width \in Int /\ Types[type].minGap \in Int
      /\ Types[type].yPos \in SUBSET Int /\ Types[type].speedOffsets \in SUBSET Int
  BY TypesAreTyped
<1> HIDE DEF size
<1>4. gap \in Int
  BY <1>2, <1>3 DEF MinGap, RoundDiv
<1> HIDE DEF gap
<1>5. RoundDiv(gap * 3, 2) \in Int /\ Width + Types[type].width \in Int
  BY <1>3, <1>4 DEF RoundDiv, Width
<1>6. o \in [type : {type}, size : {size}, yPos : Types[type].yPos,
             xPos : {Width + Types[type].width},
             gap : {gap, RoundDiv(gap * 3, 2)},
             speedOffset : Types[type].speedOffsets,
             remove : {FALSE}, followed : {FALSE},
             born : {speed}, idle : {v = 0}]
  BY <1>1 DEF size, gap
<1> QED BY <1>2, <1>3, <1>4, <1>5, <1>6 DEF ObstacleRecords

LEMMA MovedIsTyped ==
    ASSUME NEW o \in ObstacleRecords, NEW dt \in Int, NEW v \in Int
    PROVE  Moved(o, dt, v) \in ObstacleRecords /\ Moved(o, dt, v).type = o.type
<1> DEFINE x == o.xPos - ((v + o.speedOffset) * 6 * dt) \div 100000
           there == [o EXCEPT !.xPos = x]
           left == ~IsVisible(there)
<1>1. x \in Int
  BY DEF ObstacleRecords
<1> HIDE DEF x
<1>2. there \in ObstacleRecords /\ there.type = o.type
  BY <1>1 DEF ObstacleRecords
<1>3. left \in BOOLEAN
  BY DEF IsVisible
<1>4. Moved(o, dt, v) = IF o.remove THEN o ELSE [there EXCEPT !.remove = left]
  BY DEF Moved, x
<1> HIDE DEF there, left
<1> QED BY <1>2, <1>3, <1>4 DEF ObstacleRecords

(* As many as have left the canvas are taken from the front. *)
LEMMA ForwardIsTail ==
    ASSUME NEW row \in Seq(ObstacleRecords), NEW dt \in Int, NEW v \in Int
    PROVE  LET gone == Cardinality({i \in 1 .. Len(row) : Moved(row[i], dt, v).remove})
           IN  /\ gone \in 0 .. Len(row)
               /\ Forward(row, dt, v) \in Seq(ObstacleRecords)
               /\ Len(Forward(row, dt, v)) = Len(row) - gone
               /\ \A i \in 1 .. Len(row) - gone :
                     Forward(row, dt, v)[i] = Moved(row[gone + i], dt, v)
<1> DEFINE n == Len(row)
           moved == [i \in DOMAIN row |-> Moved(row[i], dt, v)]
           Left == {i \in DOMAIN moved : moved[i].remove}
           gone == Cardinality(Left)
<1>0. n \in Nat /\ DOMAIN row = 1 .. n /\ \A i \in 1 .. n : row[i] \in ObstacleRecords
  BY LenProperties, ElementOfSeq
<1>1. /\ moved \in [1 .. n -> ObstacleRecords]
      /\ \A i \in 1 .. n : moved[i] = Moved(row[i], dt, v)
  BY <1>0, MovedIsTyped
<1>2. Forward(row, dt, v) = SubSeq(moved, gone + 1, Len(moved))
  BY DEF Forward
<1> HIDE DEF moved, n
<1>3. Len(moved) = n /\ DOMAIN moved = 1 .. n
  BY <1>0, <1>1, FunctionIsSeq
<1>4. gone \in 0 .. n
  <2>1. Left \in SUBSET (1 .. n)
    BY <1>3
  <2>2. IsFiniteSet(1 .. n) /\ Cardinality(1 .. n) = n
    <3>1. Cardinality(1 .. n) = IF 1 <= n THEN n - 1 + 1 ELSE 0
      BY <1>0, FS_Interval
    <3> QED BY <1>0, <3>1, FS_Interval
  <2> HIDE DEF Left
  <2>3. IsFiniteSet(Left) /\ Cardinality(Left) <= n
    BY <2>1, <2>2, FS_Subset
  <2>4. Cardinality(Left) \in Nat
    BY <2>3, FS_CardinalityType
  <2> QED BY <1>0, <2>3, <2>4
<1> HIDE DEF gone
<1>5. /\ Forward(row, dt, v) \in Seq(ObstacleRecords)
      /\ Len(Forward(row, dt, v)) = IF gone + 1 <= n THEN n - (gone + 1) + 1 ELSE 0
      /\ \A i \in 1 .. n - (gone + 1) + 1 : Forward(row, dt, v)[i] = moved[(gone + 1) + i - 1]
  <2>1. \A i \in gone + 1 .. n : moved[i] \in ObstacleRecords
    BY <1>0, <1>1, <1>4
  <2>2. gone + 1 \in Int /\ n \in Int
    BY <1>0, <1>4
  <2> DEFINE rest == SubSeq(moved, gone + 1, n)
  <2>3. /\ rest \in Seq(ObstacleRecords)
        /\ Len(rest) = IF gone + 1 <= n THEN n - (gone + 1) + 1 ELSE 0
        /\ \A i \in 1 .. n - (gone + 1) + 1 : rest[i] = moved[(gone + 1) + i - 1]
    BY <2>1, <2>2, SubSeqProperties
  <2>4. Forward(row, dt, v) = rest
    BY <1>2, <1>3
  <2> HIDE DEF rest
  <2> QED BY <2>3, <2>4
<1>6. Len(Forward(row, dt, v)) = n - gone
  BY <1>0, <1>4, <1>5
<1>7. ASSUME NEW i \in 1 .. n - gone
      PROVE  Forward(row, dt, v)[i] = Moved(row[gone + i], dt, v)
  <2>1. i \in 1 .. n - (gone + 1) + 1 /\ (gone + 1) + i - 1 = gone + i /\ gone + i \in 1 .. n
    BY <1>0, <1>4
  <2> QED BY <1>1, <1>5, <2>1
<1>8. gone = Cardinality({i \in 1 .. n : Moved(row[i], dt, v).remove})
  <2>1. Left = {i \in 1 .. n : Moved(row[i], dt, v).remove}
    BY <1>1, <1>3
  <2> HIDE DEF Left
  <2> QED BY <2>1 DEF gone
<1> QED BY <1>4, <1>5, <1>6, <1>7, <1>8 DEF n

(* The history begins with the types of the last two obstacles; after a restart
   it says more than the row. *)
HistoryKnows ==
    /\ Len(history) <= 2
    /\ \A k \in {1, 2} : k <= Len(obstacles) =>
          k <= Len(history) /\ history[k] = obstacles[Len(obstacles) + 1 - k].type

NotThreeEqual(row) ==
    \A i \in 1 .. Len(row) - 2 :
        ~(row[i].type = row[i + 1].type /\ row[i + 1].type = row[i + 2].type)

ObstacleTypes ==
    /\ obstacles \in Seq(ObstacleRecords)
    /\ history \in Seq(Kinds)
    /\ speed \in Speeds /\ quick \in BOOLEAN

ObstaclesInv == ObstacleTypes /\ HistoryKnows /\ NotThreeEqual(obstacles)

LEMMA UpdateKeeps ==
    ASSUME ObstacleTypes, HistoryKnows, NotThreeEqual(obstacles),
           NEW dt \in Int, NEW v \in Int, UpdateObstacles(dt, v)
    PROVE  /\ obstacles' \in Seq(ObstacleRecords) /\ history' \in Seq(Kinds)
           /\ HistoryKnows' /\ NotThreeEqual(obstacles)'
<1> DEFINE row == Forward(obstacles, dt, v)
<1>0. /\ Len(obstacles) \in Nat /\ obstacles \in Seq(ObstacleRecords)
      /\ Len(history) \in Nat /\ history \in Seq(Kinds) /\ speed \in Int
  BY LenProperties, ObstaclesAssumption DEF ObstacleTypes
<1>1. PICK gone \in 0 .. Len(obstacles) :
         /\ Len(row) = Len(obstacles) - gone
         /\ \A i \in 1 .. Len(obstacles) - gone : row[i].type = obstacles[gone + i].type
  <2> DEFINE gone == Cardinality({i \in 1 .. Len(obstacles) : Moved(obstacles[i], dt, v).remove})
  <2>1. /\ gone \in 0 .. Len(obstacles) /\ Len(row) = Len(obstacles) - gone
        /\ \A i \in 1 .. Len(obstacles) - gone : row[i] = Moved(obstacles[gone + i], dt, v)
    BY <1>0, ForwardIsTail
  <2> HIDE DEF gone, row
  <2>2. \A i \in 1 .. Len(obstacles) - gone : obstacles[gone + i] \in ObstacleRecords
    <3>1. \A i \in 1 .. Len(obstacles) - gone : gone + i \in 1 .. Len(obstacles)
      BY <1>0, <2>1
    <3> QED BY <1>0, <3>1, ElementOfSeq
  <2>3. \A i \in 1 .. Len(obstacles) - gone : row[i].type = obstacles[gone + i].type
    BY <2>1, <2>2, MovedIsTyped
  <2> QED BY <2>1, <2>3
<1>2. row \in Seq(ObstacleRecords)
  BY <1>0, ForwardIsTail
<1>3. \/ obstacles' = row /\ history' = history
      \/ \E type \in NextTypes(history, v) : \E o \in NewObstacles(type, v) :
            obstacles' = Followed(row, o) /\ history' = Remember(type, history)
  BY DEF UpdateObstacles
<1> HIDE DEF row
<1>4. NotThreeEqual(row)
  <2> SUFFICES ASSUME NEW i \in 1 .. Len(row) - 2
               PROVE  ~(row[i].type = row[i + 1].type /\ row[i + 1].type = row[i + 2].type)
    BY DEF NotThreeEqual
  <2>1. /\ i \in 1 .. Len(obstacles) - gone
        /\ i + 1 \in 1 .. Len(obstacles) - gone
        /\ i + 2 \in 1 .. Len(obstacles) - gone
        /\ gone + i \in 1 .. Len(obstacles) - 2
        /\ gone + (i + 1) = (gone + i) + 1 /\ gone + (i + 2) = (gone + i) + 2
    BY <1>0, <1>1
  <2>2. /\ row[i].type = obstacles[gone + i].type
        /\ row[i + 1].type = obstacles[(gone + i) + 1].type
        /\ row[i + 2].type = obstacles[(gone + i) + 2].type
    BY <1>1, <2>1
  <2> QED BY <2>1, <2>2 DEF NotThreeEqual
<1>5. \A k \in {1, 2} : k <= Len(row) =>
         k <= Len(history) /\ history[k] = row[Len(row) + 1 - k].type
  <2> SUFFICES ASSUME NEW k \in {1, 2}, k <= Len(row)
               PROVE  k <= Len(history) /\ history[k] = row[Len(row) + 1 - k].type
    OBVIOUS
  <2>1. /\ k <= Len(obstacles)
        /\ Len(row) + 1 - k \in 1 .. Len(obstacles) - gone
        /\ gone + (Len(row) + 1 - k) = Len(obstacles) + 1 - k
    BY <1>0, <1>1
  <2> QED BY <1>1, <2>1 DEF HistoryKnows
<1>6. CASE obstacles' = row /\ history' = history
  BY <1>0, <1>2, <1>4, <1>5, <1>6 DEF HistoryKnows, NotThreeEqual
<1>7. ASSUME NEW type \in NextTypes(history, v), NEW o \in NewObstacles(type, v),
             obstacles' = Followed(row, o), history' = Remember(type, history)
      PROVE  /\ obstacles' \in Seq(ObstacleRecords) /\ history' \in Seq(Kinds)
             /\ HistoryKnows' /\ NotThreeEqual(obstacles)'
  <2> DEFINE n == Len(row)
             marked == [i \in DOMAIN row |->
                          IF i = n THEN [row[i] EXCEPT !.followed = TRUE] ELSE row[i]]
             h == Len(history)
  <2>0. /\ n \in Nat /\ DOMAIN row = 1 .. n /\ \A i \in 1 .. n : row[i] \in ObstacleRecords
        /\ h \in 0 .. 2
    <3>1. n \in Nat /\ DOMAIN row = 1 .. n /\ \A i \in 1 .. n : row[i] \in ObstacleRecords
      BY <1>2, LenProperties, ElementOfSeq
    <3>2. h \in 0 .. 2
      <4>1. h \in Nat /\ h <= 2
        BY <1>0 DEF HistoryKnows
      <4> HIDE DEF h
      <4> QED BY <4>1
    <3> QED BY <3>1, <3>2
  <2>1. type \in Kinds /\ ~Duplicate(type, history)
    BY KindsAreTypes DEF NextTypes
  <2>2. o \in ObstacleRecords /\ o.type = type
    BY <1>0, <2>1, NewObstacleIsTyped
  <2>3. \A i \in 1 .. n :
           LET m == IF i = n THEN [row[i] EXCEPT !.followed = TRUE] ELSE row[i]
           IN  m \in ObstacleRecords /\ m.type = row[i].type
    BY <2>0 DEF ObstacleRecords
  <2>4. marked \in [1 .. n -> ObstacleRecords] /\ \A i \in 1 .. n : marked[i].type = row[i].type
    BY <2>0, <2>3
  <2>5. obstacles' = Append(marked, o)
    BY <1>7 DEF Followed
  <2> HIDE DEF marked
  <2>6. /\ obstacles' \in Seq(ObstacleRecords) /\ Len(obstacles') = n + 1
        /\ \A i \in 1 .. n : obstacles'[i].type = row[i].type
        /\ obstacles'[n + 1].type = type
    <3>1. marked \in Seq(ObstacleRecords) /\ Len(marked) = n
      BY <2>0, <2>4, FunctionIsSeq
    <3> QED BY <2>2, <2>4, <2>5, <3>1, AppendProperties
  <2>7. /\ history' \in Seq(Kinds) /\ Len(history') = (IF h < 2 THEN h + 1 ELSE 2)
        /\ history'[1] = type
        /\ h >= 1 => history'[2] = history[1]
    <3> DEFINE all == <<type>> \o history
               m == IF h < 2 THEN h + 1 ELSE 2
    <3>1. <<type>> \in Seq(Kinds) /\ Len(<<type>>) = 1 /\ <<type>>[1] = type
      BY <2>1
    <3>2. all \in Seq(Kinds) /\ Len(all) = 1 + h /\ all[1] = type
      BY <1>0, <3>1, ConcatProperties
    <3>3. h >= 1 => all[2] = history[1]
      <4> SUFFICES ASSUME h >= 1 PROVE all[2] = history[1]
        OBVIOUS
      <4>1. 2 \in 1 .. Len(<<type>>) + Len(history) /\ ~(2 <= Len(<<type>>)) /\ 2 - Len(<<type>>) = 1
        BY <1>0, <3>1
      <4> HIDE DEF h
      <4> QED BY <1>0, <3>1, <4>1, ConcatProperties
    <3>4. history' = SubSeq(all, 1, m)
      BY <1>7 DEF Remember, MaxDuplication
    <3>5. m \in 1 .. 2 /\ m <= 1 + h
      BY <2>0
    <3> HIDE DEF all, m
    <3>6. \A i \in 1 .. m : all[i] \in Kinds
      BY <2>0, <3>2, <3>5, ElementOfSeq
    <3>7. /\ history' \in Seq(Kinds) /\ Len(history') = (IF 1 <= m THEN m - 1 + 1 ELSE 0)
          /\ \A i \in 1 .. m - 1 + 1 : history'[i] = all[1 + i - 1]
      BY <3>4, <3>5, <3>6, SubSeqProperties
    <3>8. /\ history' \in Seq(Kinds) /\ Len(history') = m
          /\ \A i \in 1 .. m : history'[i] = all[i]
      BY <3>5, <3>7
    <3>9. m = (IF h < 2 THEN h + 1 ELSE 2) /\ h >= 1 => m = 2
      BY <2>0 DEF m
    <3>10. 1 \in 1 .. m
      BY <3>5
    <3> QED BY <2>0, <3>2, <3>3, <3>8, <3>9, <3>10 DEF m
  <2> HIDE DEF h
  <2>8. \A k \in {1, 2} : k <= n => k <= h /\ history[k] = row[n + 1 - k].type
    BY <1>5 DEF h
  <2>9. HistoryKnows'
    <3>1. Len(history') <= 2
      BY <2>0, <2>7
    <3>2. 1 <= Len(history') /\ history'[1] = obstacles'[Len(obstacles') + 1 - 1].type
      BY <2>0, <2>6, <2>7
    <3>3. ASSUME 2 <= Len(obstacles')
          PROVE  2 <= Len(history') /\ history'[2] = obstacles'[Len(obstacles') + 1 - 2].type
      <4>1. 1 <= n /\ n \in 1 .. n /\ Len(obstacles') + 1 - 2 = n /\ n + 1 - 1 = n
        BY <2>0, <2>6, <3>3
      <4>2. 1 <= h /\ history[1] = row[n].type
        BY <2>8, <4>1
      <4> QED BY <2>0, <2>6, <2>7, <4>1, <4>2
    <3> QED BY <3>1, <3>2, <3>3 DEF HistoryKnows
  <2>10. NotThreeEqual(obstacles)'
    <3> SUFFICES ASSUME NEW i \in 1 .. Len(obstacles') - 2,
                        obstacles'[i].type = obstacles'[i + 1].type,
                        obstacles'[i + 1].type = obstacles'[i + 2].type
                 PROVE  FALSE
      BY DEF NotThreeEqual
    <3>1. CASE i <= n - 2
      <4>1. i \in 1 .. n - 2 /\ i \in 1 .. n /\ i + 1 \in 1 .. n /\ i + 2 \in 1 .. n
        BY <2>0, <2>6, <3>1
      <4>2. ~(row[i].type = row[i + 1].type /\ row[i + 1].type = row[i + 2].type)
        BY <1>4, <4>1 DEF NotThreeEqual
      <4> QED BY <2>6, <4>1, <4>2
    <3>2. CASE i > n - 2
      <4>1. /\ i = n - 1 /\ 2 <= n /\ n \in 1 .. n /\ n - 1 \in 1 .. n /\ i + 1 = n /\ i + 2 = n + 1
            /\ n + 1 - 1 = n /\ n + 1 - 2 = n - 1
        <5>1. n \in Nat /\ i \in 1 .. n - 1
          BY <2>0, <2>6
        <5> HIDE DEF n
        <5> QED BY <3>2, <5>1
      <4>2. row[n - 1].type = type /\ row[n].type = type
        BY <2>6, <4>1
      <4>3. history[1] = type /\ history[2] = type /\ h = 2
        BY <2>0, <2>8, <4>1, <4>2
      <4>4. Duplicate(type, history)
        BY <4>3 DEF Duplicate, MaxDuplication, h
      <4> QED BY <2>1, <4>4
    <3> QED BY <2>0, <2>6, <3>1, <3>2
  <2> QED BY <2>6, <2>7, <2>9, <2>10
<1> QED BY <1>3, <1>6, <1>7

(* Two of three obstacles that are not alike make two types. *)
LEMMA TwoTypes ==
    ASSUME NEW row \in Seq(ObstacleRecords), NotThreeEqual(row), NEW i \in 1 .. Len(row) - 2
    PROVE  Cardinality({row[j].type : j \in i .. i + 2}) > 1
<1> DEFINE T == {row[j].type : j \in i .. i + 2}
<1>0. Len(row) \in Nat /\ i \in i .. i + 2 /\ i + 1 \in i .. i + 2 /\ i + 2 \in i .. i + 2
  BY LenProperties
<1>1. T \in SUBSET Kinds
  <2>1. \A j \in i .. i + 2 : row[j] \in ObstacleRecords
    BY <1>0, ElementOfSeq
  <2> QED BY <2>1 DEF ObstacleRecords
<1>2. PICK a \in T, b \in T : a # b
  <2>1. ~(row[i].type = row[i + 1].type /\ row[i + 1].type = row[i + 2].type)
    BY DEF NotThreeEqual
  <2>2. row[i].type \in T /\ row[i + 1].type \in T /\ row[i + 2].type \in T
    BY <1>0
  <2> HIDE DEF T
  <2> QED BY <2>1, <2>2
<1> HIDE DEF T
<1>3. IsFiniteSet(Kinds)
  <2>1. IsFiniteSet({}) /\ IsFiniteSet({"CACTUS_SMALL"}) /\ IsFiniteSet({"CACTUS_SMALL", "CACTUS_LARGE"})
    <3>1. IsFiniteSet({"CACTUS_SMALL"})
      BY FS_Singleton
    <3>2. IsFiniteSet({"CACTUS_SMALL"} \cup {"CACTUS_LARGE"})
      BY <3>1, FS_AddElement
    <3>3. {"CACTUS_SMALL"} \cup {"CACTUS_LARGE"} = {"CACTUS_SMALL", "CACTUS_LARGE"}
      OBVIOUS
    <3> QED BY <3>1, <3>2, <3>3, FS_EmptySet
  <2>2. IsFiniteSet({"CACTUS_SMALL", "CACTUS_LARGE"} \cup {"PTERODACTYL"})
    BY <2>1, FS_AddElement
  <2>3. {"CACTUS_SMALL", "CACTUS_LARGE"} \cup {"PTERODACTYL"} = Kinds
    BY DEF Kinds
  <2> QED BY <2>2, <2>3
<1>4. IsFiniteSet(T) /\ Cardinality(T) \in Nat
  <2>1. IsFiniteSet(T)
    BY <1>1, <1>3, FS_Subset
  <2> QED BY <2>1, FS_CardinalityType
<1> DEFINE one == {a}
           two == one \cup {b}
<1>5. IsFiniteSet(one) /\ Cardinality(one) = 1 /\ b \notin one /\ two \in SUBSET T
  BY <1>2, FS_Singleton
<1> HIDE DEF one
<1>6. Cardinality(two) = Cardinality(one) + 1
  BY <1>5, FS_AddElement
<1>7. Cardinality(two) <= Cardinality(T)
  BY <1>4, <1>5, FS_Subset
<1> HIDE DEF two
<1>8. Cardinality(T) > 1
  BY <1>4, <1>5, <1>6, <1>7
<1> QED BY <1>8 DEF T

LEMMA NextObstacles == ObstaclesInv /\ [ObstaclesNext]_obstacleVars => ObstaclesInv'
<1> SUFFICES ASSUME ObstaclesInv, [ObstaclesNext]_obstacleVars PROVE ObstaclesInv'
  OBVIOUS
<1>0. /\ ObstacleTypes /\ HistoryKnows /\ NotThreeEqual(obstacles)
      /\ 0 \in Int /\ speed \in Speeds /\ quick \in BOOLEAN /\ Speeds \in SUBSET Int
  BY ObstaclesAssumption DEF ObstaclesInv, ObstacleTypes
<1>1. CASE ObstaclesFrame
  <2>1. PICK dt \in FrameTimes :
           /\ UpdateObstacles(dt, speed)
           /\ quick' = (quick \/ (dt > 0 /\ dt < Steady)) /\ speed' = speed
    BY <1>1 DEF ObstaclesFrame
  <2>2. dt \in Int /\ speed \in Int
    BY <1>0, ObstaclesAssumption
  <2>3. quick' \in BOOLEAN
    BY <1>0, <2>1
  <2>4. /\ obstacles' \in Seq(ObstacleRecords) /\ history' \in Seq(Kinds)
        /\ HistoryKnows' /\ NotThreeEqual(obstacles)'
    BY <1>0, <2>1, <2>2, UpdateKeeps
  <2> QED BY <1>0, <2>1, <2>3, <2>4 DEF ObstaclesInv, ObstacleTypes
<1>2. CASE ObstaclesResize
  BY <1>0, <1>2, UpdateKeeps DEF ObstaclesResize, ObstaclesInv, ObstacleTypes
<1>3. CASE Accelerate
  BY <1>0, <1>3 DEF Accelerate, ObstaclesInv, ObstacleTypes, HistoryKnows, NotThreeEqual
<1>4. CASE ObstaclesRestart
  <2>1. /\ obstacles' = <<>> /\ history' = history /\ Len(<<>>) = 0
        /\ speed' \in Speeds /\ quick' \in BOOLEAN
    BY <1>4, ObstaclesAssumption DEF ObstaclesRestart, FirstSpeed
  <2>2. <<>> \in Seq(ObstacleRecords)
    BY EmptySeq
  <2> QED BY <1>0, <2>1, <2>2 DEF ObstaclesInv, ObstacleTypes, HistoryKnows, NotThreeEqual
<1>5. CASE UNCHANGED obstacleVars
  BY <1>0, <1>5 DEF obstacleVars, ObstaclesInv, ObstacleTypes, HistoryKnows, NotThreeEqual
<1> QED BY <1>1, <1>2, <1>3, <1>4, <1>5 DEF ObstaclesNext

LEMMA InitObstacles == ObstaclesInit => ObstaclesInv
<1> SUFFICES ASSUME ObstaclesInit PROVE ObstaclesInv
  OBVIOUS
<1>1. /\ obstacles = <<>> /\ history = <<>> /\ Len(<<>>) = 0
      /\ speed \in Speeds /\ quick \in BOOLEAN
  BY ObstaclesAssumption DEF ObstaclesInit, FirstSpeed
<1>2. <<>> \in Seq(ObstacleRecords) /\ <<>> \in Seq(Kinds)
  BY EmptySeq
<1> QED BY <1>1, <1>2 DEF ObstaclesInv, ObstacleTypes, HistoryKnows, NotThreeEqual

(* No draw of types makes three obstacles of a row alike, a restart between them
   or not (duplicateObstacleCheck). *)
THEOREM ObstaclesVary == ObstaclesSpec => []NoThreeAlike
<1>1. ObstaclesInit => ObstaclesInv
  BY InitObstacles
<1>2. ObstaclesInv => NoThreeAlike
  BY TwoTypes DEF ObstaclesInv, ObstacleTypes, NoThreeAlike
<1> QED BY <1>1, <1>2, NextObstacles, PTL DEF ObstaclesSpec

------------------------------------------------------------------------------
(* The order of the obstacles. *)

(* Where an obstacle ends, the room between two of them that follow each other,
   and what a frame moves one by. *)
Reach(o) == o.xPos + ObstacleWidth(o)
Free(a, b) == b.xPos - Reach(a) - (IF a.idle THEN 0 ELSE 94)
Shift(off, dt, v) == ((v + off) * 6 * dt) \div 100000

(* The room that is enough for what comes behind, which may be faster. *)
Spaced(a, b) ==
    /\ b.speedOffset <= a.speedOffset => Free(a, b) >= 0
    /\ a.speedOffset = 0 /\ b.speedOffset = 8 => 3 * Free(a, b) >= Reach(a)
    /\ a.speedOffset = -8 /\ b.speedOffset # -8 => Free(a, b) >= Reach(a)

(* Only a pterodactyl has a speed of its own, and one is made at some speed.
   The game is not much faster than when an obstacle of it was made, and one
   that a resize made is of the start of the game. *)
Known(o, now) ==
    /\ o.speedOffset \in {-8, 0, 8} /\ ObstacleWidth(o) > 0
    /\ o.gap >= IF o.idle THEN 72 ELSE 174
    /\ o.speedOffset # 0 => ~o.idle /\ o.gap >= 481 /\ now >= 85
    /\ o.born <= now /\ now <= o.born + 10
    /\ ~o.idle /\ o.born >= 75 => o.gap >= 200
    /\ o.idle => o.born <= 70

(* A row of obstacles on the canvas, each with the room it needs. *)
RowKnows(row, now) ==
    /\ \A i \in 1 .. Len(row) : Known(row[i], now) /\ Reach(row[i]) > 0 /\ ~row[i].remove
    /\ \A i \in 1 .. Len(row) - 1 : Spaced(row[i], row[i + 1])

(* Behind the last obstacle there is room for no other yet. *)
Waits(o) == o.followed \/ Reach(o) + o.gap >= Width
LastWaits(row) == Len(row) > 0 => Waits(row[Len(row)])

(* Three frames of a fast one are no more than four of a cactus, and a slow one
   is at least half as fast, in whole pixels. *)
LEMMA Floors ==
    ASSUME NEW p \in Int, NEW q \in Int, q >= 3534, p >= 85 * q
    PROVE  /\ (p - 8 * q) \div 100000 <= p \div 100000
           /\ p \div 100000 <= (p + 8 * q) \div 100000
           /\ 3 * ((p + 8 * q) \div 100000) <= 4 * (p \div 100000)
           /\ (p + 8 * q) \div 100000 <= 2 * ((p - 8 * q) \div 100000)
<1> DEFINE x == p \div 100000
           y == (p + 8 * q) \div 100000
           z == (p - 8 * q) \div 100000
<1>1. x \in Int /\ 100000 * x <= p /\ p <= 100000 * x + 99999
  OBVIOUS
<1>2. y \in Int /\ 100000 * y <= p + 8 * q /\ p + 8 * q <= 100000 * y + 99999
  OBVIOUS
<1>3. z \in Int /\ 100000 * z <= p - 8 * q /\ p - 8 * q <= 100000 * z + 99999
  OBVIOUS
<1> HIDE DEF x, y, z
<1>4. z <= x /\ x <= y
  BY <1>1, <1>2, <1>3
<1>5. 3 * y <= 4 * x
  <2>1. x >= 3
    BY <1>1
  <2>2. 85 * y <= 93 * x + 92
    BY <1>1, <1>2
  <2>3. CASE x <= 5
    <3>1. x \in {3, 4, 5}
      BY <1>1, <2>1, <2>3
    <3> QED BY <1>2, <2>2, <3>1
  <2>4. CASE x > 5
    BY <1>1, <1>2, <2>2, <2>4
  <2> QED BY <1>1, <2>3, <2>4
<1>6. y <= 2 * z
  BY <1>2, <1>3
<1> QED BY <1>4, <1>5, <1>6 DEF x, y, z

(* The same of what a frame moves. *)
LEMMA ShiftBounds ==
    ASSUME NEW dt \in Int, NEW v \in Int, dt >= Steady, v >= 85
    PROVE  /\ Shift(-8, dt, v) \in Int /\ Shift(0, dt, v) \in Int /\ Shift(8, dt, v) \in Int
           /\ Shift(-8, dt, v) <= Shift(0, dt, v) /\ Shift(0, dt, v) <= Shift(8, dt, v)
           /\ 3 * Shift(8, dt, v) <= 4 * Shift(0, dt, v)
           /\ Shift(8, dt, v) <= 2 * Shift(-8, dt, v)
<1> DEFINE q == 6 * dt
           p == q * v
<1>1. q \in Nat /\ q >= 3534
  BY DEF Steady
<1>2. (v + 8) * 6 * dt = p + 8 * q /\ (v + -8) * 6 * dt = p - 8 * q /\ (v + 0) * 6 * dt = p
  OBVIOUS
<1> HIDE DEF q
<1>3. q * 85 <= p /\ p \in Int
  BY <1>1, MultiplesGrow
<1> HIDE DEF p
<1> QED BY <1>1, <1>2, <1>3, Floors DEF Shift

(* What Obstacle.update changes. *)
LEMMA MovedIs ==
    ASSUME NEW o \in ObstacleRecords, ~o.remove, NEW dt \in Int, NEW v \in Int
    PROVE  LET m == Moved(o, dt, v)
           IN  /\ m.xPos = o.xPos - Shift(o.speedOffset, dt, v) /\ m.gap = o.gap
               /\ m.speedOffset = o.speedOffset /\ m.idle = o.idle
               /\ m.followed = o.followed /\ m.born = o.born
               /\ ObstacleWidth(m) = ObstacleWidth(o)
               /\ m.remove <=> ~(Reach(m) > 0)
<1> DEFINE x == o.xPos - ((v + o.speedOffset) * 6 * dt) \div 100000
           there == [o EXCEPT !.xPos = x]
           m == [there EXCEPT !.remove = ~IsVisible(there)]
<1>1. Moved(o, dt, v) = m /\ x = o.xPos - Shift(o.speedOffset, dt, v)
  BY DEF Moved, Shift
<1> HIDE DEF x
<1>2. /\ there.xPos = x /\ there.gap = o.gap /\ there.speedOffset = o.speedOffset
      /\ there.idle = o.idle /\ there.followed = o.followed /\ there.born = o.born
      /\ there.type = o.type /\ there.size = o.size /\ "remove" \in DOMAIN there
      /\ "xPos" \in DOMAIN there
  BY DEF ObstacleRecords
<1> HIDE DEF there
<1>3. /\ m.xPos = x /\ m.gap = o.gap /\ m.speedOffset = o.speedOffset
      /\ m.idle = o.idle /\ m.followed = o.followed /\ m.born = o.born
      /\ m.type = o.type /\ m.size = o.size
      /\ m.remove = ~IsVisible(there)
  BY <1>2
<1>4. IsVisible(there) <=> Reach(m) > 0
  BY <1>2, <1>3 DEF IsVisible, Reach, ObstacleWidth
<1> HIDE DEF m
<1> QED BY <1>1, <1>3, <1>4 DEF ObstacleWidth

(* A frame, at the speed of the game, or a redraw, at none. *)
Instant(dt, v, now) == (dt = 0 /\ v \in {0, now}) \/ (dt >= Steady /\ v = now)

(* A frame keeps two neighbours apart, and takes the second only with the first. *)
LEMMA SpacedKeeps ==
    ASSUME NEW a \in ObstacleRecords, NEW b \in ObstacleRecords,
           NEW dt \in Int, NEW v \in Int, NEW now \in Int, Instant(dt, v, now),
           Known(a, now), Known(b, now), ~a.remove, ~b.remove,
           Spaced(a, b)
    PROVE  /\ Spaced(Moved(a, dt, v), Moved(b, dt, v))
           /\ Moved(b, dt, v).remove => Moved(a, dt, v).remove
<1> DEFINE m == Moved(a, dt, v)
           n == Moved(b, dt, v)
           s == Shift(a.speedOffset, dt, v)
           t == Shift(b.speedOffset, dt, v)
           room == Free(a, b)
           wide == IF a.idle THEN 0 ELSE 94
<1>1. /\ m.xPos = a.xPos - s /\ m.speedOffset = a.speedOffset /\ m.idle = a.idle
      /\ ObstacleWidth(m) = ObstacleWidth(a) /\ (m.remove <=> ~(Reach(m) > 0))
  BY MovedIs
<1>2. /\ n.xPos = b.xPos - t /\ n.speedOffset = b.speedOffset
      /\ ObstacleWidth(n) = ObstacleWidth(b) /\ (n.remove <=> ~(Reach(n) > 0))
  BY MovedIs
<1> HIDE DEF m, n
<1>3. /\ a.speedOffset \in {-8, 0, 8} /\ b.speedOffset \in {-8, 0, 8}
      /\ ObstacleWidth(b) > 0 /\ a.xPos \in Int /\ b.xPos \in Int
      /\ wide \in Int /\ wide >= 0
  BY DEF Known, ObstacleRecords
<1>4. ObstacleWidth(a) \in Int /\ ObstacleWidth(b) \in Int
  BY TypesAreTyped DEF ObstacleWidth, ObstacleRecords
<1>5. /\ s \in Int /\ t \in Int
      /\ b.speedOffset <= a.speedOffset => t <= s
      /\ a.speedOffset = 0 /\ b.speedOffset = 8 => 3 * t <= 4 * s
      /\ a.speedOffset = -8 /\ b.speedOffset # -8 => t <= 2 * s
  <2>1. CASE dt = 0
    <3>1. \A off \in {-8, 0, 8} : Shift(off, dt, v) = 0
      BY <2>1 DEF Shift
    <3> QED BY <3>1, <1>3
  <2>2. CASE dt >= Steady /\ v = now /\ v >= 85
    <3> HIDE DEF s, t
    <3>1. s \in {Shift(-8, dt, v), Shift(0, dt, v), Shift(8, dt, v)}
          /\ t \in {Shift(-8, dt, v), Shift(0, dt, v), Shift(8, dt, v)}
      BY <1>3 DEF s, t
    <3>2. /\ Shift(-8, dt, v) \in Int /\ Shift(0, dt, v) \in Int /\ Shift(8, dt, v) \in Int
          /\ Shift(-8, dt, v) <= Shift(0, dt, v) /\ Shift(0, dt, v) <= Shift(8, dt, v)
          /\ 3 * Shift(8, dt, v) <= 4 * Shift(0, dt, v)
          /\ Shift(8, dt, v) <= 2 * Shift(-8, dt, v)
      BY <2>2, ShiftBounds
    <3>3. /\ a.speedOffset = -8 => s = Shift(-8, dt, v)
          /\ a.speedOffset = 0 => s = Shift(0, dt, v)
          /\ a.speedOffset = 8 => s = Shift(8, dt, v)
          /\ b.speedOffset = -8 => t = Shift(-8, dt, v)
          /\ b.speedOffset = 0 => t = Shift(0, dt, v)
          /\ b.speedOffset = 8 => t = Shift(8, dt, v)
      BY DEF s, t
    <3> QED BY <1>3, <3>1, <3>2, <3>3
  <2>3. CASE dt >= Steady /\ v = now /\ v < 85
    <3>1. a.speedOffset = 0 /\ b.speedOffset = 0
      BY <2>3 DEF Known
    <3>2. Shift(0, dt, v) \in Int
      BY DEF Shift
    <3> QED BY <3>1, <3>2
  <2> QED BY <2>1, <2>2, <2>3 DEF Instant
<1> HIDE DEF s, t, wide
<1>6. room \in Int /\ room = b.xPos - Reach(a) - wide /\ Reach(a) \in Int
      /\ Reach(b) = b.xPos + ObstacleWidth(b)
  BY <1>3, <1>4 DEF Free, Reach, wide
<1>7. Free(m, n) = room + s - t /\ Reach(m) = Reach(a) - s /\ Reach(n) = Reach(b) - t
  BY <1>1, <1>2, <1>3, <1>4, <1>5 DEF Free, Reach
<1> HIDE DEF room
<1>8. /\ b.speedOffset <= a.speedOffset => room >= 0
      /\ a.speedOffset = 0 /\ b.speedOffset = 8 => 3 * room >= Reach(a)
      /\ a.speedOffset = -8 /\ b.speedOffset # -8 => room >= Reach(a)
  BY DEF Spaced, room
<1>9. /\ b.speedOffset <= a.speedOffset => Free(m, n) >= 0
      /\ a.speedOffset = 0 /\ b.speedOffset = 8 => 3 * Free(m, n) >= Reach(m)
      /\ a.speedOffset = -8 /\ b.speedOffset # -8 => Free(m, n) >= Reach(m)
  BY <1>5, <1>6, <1>7, <1>8
<1>10. Spaced(m, n)
  BY <1>1, <1>2, <1>9 DEF Spaced
<1>11. Reach(m) > 0 => Reach(n) > 0
  <2>1. Free(m, n) = n.xPos - Reach(m) - wide /\ Reach(n) = n.xPos + ObstacleWidth(b)
        /\ n.xPos \in Int /\ Reach(m) \in Int
    BY <1>1, <1>2, <1>3, <1>4, <1>5, <1>6, <1>7 DEF Free, Reach, wide
  <2>2. CASE b.speedOffset <= a.speedOffset
    BY <1>3, <1>4, <1>9, <2>1, <2>2
  <2>3. CASE a.speedOffset = 0 /\ b.speedOffset = 8
    BY <1>3, <1>4, <1>9, <2>1, <2>3
  <2>4. CASE a.speedOffset = -8 /\ b.speedOffset # -8
    BY <1>3, <1>4, <1>9, <2>1, <2>4
  <2> QED BY <1>3, <2>2, <2>3, <2>4
<1> QED BY <1>1, <1>2, <1>10, <1>11 DEF m, n

(* A set that holds the predecessor of each of its members is a prefix. *)
LEMMA PrefixIs ==
    ASSUME NEW n \in Nat, NEW G \in SUBSET (1 .. n),
           \A i \in 1 .. n - 1 : i + 1 \in G => i \in G
    PROVE  \A i \in 1 .. n : i \in G <=> i <= Cardinality(G)
<1> DEFINE Rest == (1 .. n + 1) \ G
<1>1. PICK k \in Rest : \A m \in Rest : k <= m
  <2>1. Rest \in SUBSET Nat /\ n + 1 \in Rest
    OBVIOUS
  <2> HIDE DEF Rest
  <2> QED BY <2>1, LeastOne
<1>2. k \in 1 .. n + 1 /\ k \notin G /\ \A m \in 1 .. k - 1 : m \in G
  <2>1. k \in 1 .. n + 1 /\ k \notin G
    BY <1>1
  <2>2. ASSUME NEW m \in 1 .. k - 1 PROVE m \in G
    <3>1. m \in 1 .. n + 1 /\ ~(k <= m)
      BY <2>1
    <3> QED BY <1>1, <3>1
  <2> QED BY <2>1, <2>2
<1>3. ASSUME NEW j \in G PROVE j < k
  <2> DEFINE Beyond == {m \in G : m > k}
  <2> SUFFICES ASSUME ~(j < k) PROVE FALSE
    OBVIOUS
  <2>1. j \in Beyond
    BY <1>2
  <2>2. Beyond \in SUBSET Nat
    <3>1. \A m \in G : m \in Nat
      OBVIOUS
    <3> QED BY <3>1
  <2>3. PICK l \in Beyond : \A m \in Beyond : l <= m
    <3> HIDE DEF Beyond
    <3> QED BY <2>1, <2>2, LeastOne
  <2>4. l \in G /\ l > k /\ l \in 1 .. n /\ l - 1 \in 1 .. n - 1 /\ (l - 1) + 1 = l
    BY <1>2, <2>3
  <2>5. l - 1 \in G
    BY <2>4
  <2>6. l - 1 > k
    BY <1>2, <2>4, <2>5
  <2>7. l - 1 \in Beyond
    BY <2>5, <2>6
  <2> QED BY <2>3, <2>4, <2>7
<1>4. G = 1 .. k - 1
  <2>1. \A m \in G : m \in Int /\ 1 <= m
    OBVIOUS
  <2>2. \A m \in G : m \in 1 .. k - 1
    BY <1>2, <1>3, <2>1
  <2> QED BY <1>2, <2>2
<1>5. Cardinality(G) = k - 1
  <2>1. Cardinality(1 .. k - 1) = IF 1 <= k - 1 THEN k - 1 - 1 + 1 ELSE 0
    BY <1>2, FS_Interval
  <2> QED BY <1>2, <1>4, <2>1
<1> QED BY <1>2, <1>4, <1>5

(* What a frame leaves of a row it knows, all that left the canvas gone. *)
LEMMA ForwardKnows ==
    ASSUME NEW row \in Seq(ObstacleRecords), NEW dt \in Int, NEW v \in Int,
           NEW now \in Int, Instant(dt, v, now), RowKnows(row, now)
    PROVE  RowKnows(Forward(row, dt, v), now)
<1> DEFINE n == Len(row)
           G == {i \in 1 .. n : Moved(row[i], dt, v).remove}
           gone == Cardinality(G)
           rest == Forward(row, dt, v)
<1>0. n \in Nat /\ \A i \in 1 .. n : row[i] \in ObstacleRecords
  BY LenProperties, ElementOfSeq
<1>1. /\ gone \in 0 .. n /\ Len(rest) = n - gone
      /\ \A i \in 1 .. n - gone : rest[i] = Moved(row[gone + i], dt, v)
  BY ForwardIsTail
<1>2. /\ \A i \in 1 .. n : Known(row[i], now) /\ ~row[i].remove
      /\ \A i \in 1 .. n - 1 : Spaced(row[i], row[i + 1])
  BY DEF RowKnows
<1> HIDE DEF n
<1>3. ASSUME NEW i \in 1 .. n - 1
      PROVE  /\ Spaced(Moved(row[i], dt, v), Moved(row[i + 1], dt, v))
             /\ i + 1 \in G => i \in G
  <2>1. i \in 1 .. n /\ i + 1 \in 1 .. n
    BY <1>0
  <2> DEFINE a == row[i]
             b == row[i + 1]
  <2>2. /\ a \in ObstacleRecords /\ b \in ObstacleRecords
        /\ Known(a, now) /\ Known(b, now) /\ ~a.remove /\ ~b.remove /\ Spaced(a, b)
    BY <1>0, <1>2, <2>1
  <2> HIDE DEF a, b
  <2>3. /\ Spaced(Moved(a, dt, v), Moved(b, dt, v))
        /\ Moved(b, dt, v).remove => Moved(a, dt, v).remove
    BY <2>2, SpacedKeeps
  <2> QED BY <2>1, <2>3 DEF a, b
<1>4. \A i \in 1 .. n : i \in G <=> i <= gone
  <2>1. G \in SUBSET (1 .. n) /\ \A i \in 1 .. n - 1 : i + 1 \in G => i \in G
    BY <1>3
  <2> HIDE DEF G
  <2> QED BY <1>0, <2>1, PrefixIs
<1> HIDE DEF gone, rest
<1>5. ASSUME NEW i \in 1 .. n - gone
      PROVE  Known(rest[i], now) /\ Reach(rest[i]) > 0 /\ ~rest[i].remove
  <2> DEFINE o == row[gone + i]
             m == Moved(o, dt, v)
  <2>1. gone + i \in 1 .. n /\ ~(gone + i <= gone)
    BY <1>0, <1>1
  <2>2. rest[i] = m
    BY <1>1
  <2>3. ~m.remove
    BY <1>4, <2>1
  <2>4. o \in ObstacleRecords /\ Known(o, now) /\ ~o.remove
    BY <1>0, <1>2, <2>1
  <2> HIDE DEF o
  <2>5. /\ m.gap = o.gap /\ m.speedOffset = o.speedOffset /\ m.idle = o.idle
        /\ m.born = o.born
        /\ ObstacleWidth(m) = ObstacleWidth(o) /\ (m.remove <=> ~(Reach(m) > 0))
    BY <2>4, MovedIs
  <2> HIDE DEF m
  <2> QED BY <2>2, <2>3, <2>4, <2>5 DEF Known
<1>6. ASSUME NEW i \in 1 .. n - gone - 1
      PROVE  Spaced(rest[i], rest[i + 1])
  <2>1. /\ gone + i \in 1 .. n - 1 /\ i \in 1 .. n - gone /\ i + 1 \in 1 .. n - gone
        /\ gone + (i + 1) = (gone + i) + 1
    BY <1>0, <1>1
  <2>2. rest[i] = Moved(row[gone + i], dt, v) /\ rest[i + 1] = Moved(row[(gone + i) + 1], dt, v)
    BY <1>1, <2>1
  <2> QED BY <1>3, <2>1, <2>2
<1> QED BY <1>1, <1>5, <1>6 DEF RowKnows, rest

(* The gap that a new obstacle keeps for the next one. *)
LEMMA NewObstacleIs ==
    ASSUME speed \in 60 .. 130, NEW v \in {0, speed}, v = 0 => speed <= 70,
           NEW type \in Kinds, v >= Types[type].minSpeed, NEW o \in NewObstacles(type, v)
    PROVE  /\ o \in ObstacleRecords
           /\ Known(o, speed) /\ ~o.remove
           /\ o.xPos >= 617 /\ (o.speedOffset # 0 => o.xPos = 646)
<1>1. o \in ObstacleRecords /\ v \in Int
  BY NewObstacleIsTyped
<1>2. PICK drawn \in Sizes :
         LET size == AllowedSize(type, drawn, v)
             gap == MinGap(type, size, v)
         IN  o \in [type : {type}, size : {size}, yPos : Types[type].yPos,
                    xPos : {Width + Types[type].width},
                    gap : {gap, RoundDiv(gap * 3, 2)},
                    speedOffset : Types[type].speedOffsets,
                    remove : {FALSE}, followed : {FALSE},
                    born : {speed}, idle : {v = 0}]
  BY DEF NewObstacles
<1> DEFINE size == AllowedSize(type, drawn, v)
           gap == MinGap(type, size, v)
<1>3. /\ o.type = type /\ o.size = size /\ o.xPos = Width + Types[type].width
      /\ o.gap \in {gap, RoundDiv(gap * 3, 2)} /\ o.speedOffset \in Types[type].speedOffsets
      /\ o.remove = FALSE /\ o.born = speed /\ (o.idle <=> v = 0)
  BY <1>2
<1>4. size \in {1, 2, 3} /\ (Types[type].multipleSpeed > v => size = 1)
  <2>1. drawn \in {1, 2, 3}
    BY ObstaclesAssumption
  <2> QED BY <2>1 DEF AllowedSize
<1>5. gap = (Types[type].width * size * v + Types[type].minGap * 6 + 5) \div 10
  <2>1. 10 \div 2 = 5
    OBVIOUS
  <2> HIDE DEF size
  <2> QED BY <2>1 DEF MinGap, RoundDiv
<1>6. ASSUME gap \in Int, gap >= 0
      PROVE  o.gap \in Int /\ o.gap >= gap
  <2> HIDE DEF gap
  <2>1. RoundDiv(gap * 3, 2) = (gap * 3 + 1) \div 2
    <3>1. 2 \div 2 = 1
      OBVIOUS
    <3> QED BY <3>1 DEF RoundDiv
  <2>2. (gap * 3 + 1) \div 2 \in Int /\ (gap * 3 + 1) \div 2 >= gap
    BY <1>6
  <2> QED BY <1>3, <1>6, <2>1, <2>2
<1>7. ObstacleWidth(o) = Types[type].width * size
  BY <1>3 DEF ObstacleWidth
<1> HIDE DEF size, gap
<1>8. CASE type = "CACTUS_SMALL"
  <2>1. /\ Types[type].width = 17 /\ Types[type].minGap = 120 /\ Types[type].speedOffsets = {0}
    BY <1>8 DEF Types
  <2>2. /\ gap \in Int /\ gap >= IF v = 0 THEN 72 ELSE 174
        /\ v >= 75 => gap >= 200
    BY <1>1, <1>4, <1>5, <2>1
  <2>3. o.speedOffset = 0 /\ ObstacleWidth(o) > 0 /\ o.xPos = 617
    BY <1>3, <1>4, <1>7, <2>1 DEF Width
  <2>4. /\ o.gap >= IF o.idle THEN 72 ELSE 174
        /\ ~o.idle /\ o.born >= 75 => o.gap >= 200
    BY <1>3, <1>6, <2>2
  <2> QED BY <1>1, <1>3, <2>3, <2>4 DEF Known
<1>9. CASE type = "CACTUS_LARGE"
  <2>1. /\ Types[type].width = 25 /\ Types[type].minGap = 120 /\ Types[type].speedOffsets = {0}
    BY <1>9 DEF Types
  <2>2. /\ gap \in Int /\ gap >= IF v = 0 THEN 72 ELSE 174
        /\ v >= 75 => gap >= 200
    BY <1>1, <1>4, <1>5, <2>1
  <2>3. o.speedOffset = 0 /\ ObstacleWidth(o) > 0 /\ o.xPos = 625
    BY <1>3, <1>4, <1>7, <2>1 DEF Width
  <2>4. /\ o.gap >= IF o.idle THEN 72 ELSE 174
        /\ ~o.idle /\ o.born >= 75 => o.gap >= 200
    BY <1>3, <1>6, <2>2
  <2> QED BY <1>1, <1>3, <2>3, <2>4 DEF Known
<1>10. CASE type = "PTERODACTYL"
  <2>1. /\ Types[type].width = 46 /\ Types[type].minGap = 150 /\ Types[type].speedOffsets = {8, -8}
        /\ Types[type].minSpeed = 85 /\ Types[type].multipleSpeed = 9990
    BY <1>10 DEF Types
  <2>2. v >= 85 /\ v = speed /\ size = 1
    BY <1>4, <2>1
  <2>3. gap \in Int /\ gap >= 481
    BY <1>5, <2>1, <2>2
  <2>4. o.speedOffset \in {-8, 8} /\ ObstacleWidth(o) > 0 /\ o.xPos = 646 /\ ~o.idle
    <3>1. o.speedOffset \in {-8, 8}
      BY <1>3, <2>1
    <3>2. ObstacleWidth(o) = 46
      BY <1>7, <2>1, <2>2
    <3>3. ~(v = 0)
      BY <2>2
    <3> QED BY <1>3, <2>1, <3>1, <3>2, <3>3 DEF Width
  <2>5. o.gap \in Int /\ o.gap >= 481
    BY <1>3, <1>6, <2>3
  <2> QED BY <1>1, <1>3, <2>2, <2>4, <2>5 DEF Known
<1> QED BY <1>8, <1>9, <1>10 DEF Kinds

(* One more obstacle behind the last that has left its gap. *)
LEMMA NewIsSpaced ==
    ASSUME NEW a \in ObstacleRecords, NEW o \in ObstacleRecords, NEW now \in Int,
           Known(a, now), Known(o, now),
           Reach(a) + a.gap < Width,
           o.xPos >= 617, o.speedOffset # 0 => o.xPos = 646
    PROVE  Spaced(a, o)
<1>1. /\ a.speedOffset \in {-8, 0, 8} /\ o.speedOffset \in {-8, 0, 8}
      /\ o.xPos \in Int /\ a.xPos \in Int /\ a.gap \in Int
  BY DEF Known, ObstacleRecords
<1>2. ObstacleWidth(a) \in Int
  BY TypesAreTyped DEF ObstacleWidth, ObstacleRecords
<1>3. Reach(a) \in Int
  BY <1>1, <1>2 DEF Reach
<1> DEFINE wide == IF a.idle THEN 0 ELSE 94
<1>4. /\ wide \in {0, 94} /\ (a.idle <=> wide = 0)
      /\ Free(a, o) = o.xPos - Reach(a) - wide
  BY DEF Free
<1>5. /\ a.idle => a.gap >= 72
      /\ ~a.idle => a.gap >= 174
      /\ a.speedOffset # 0 => ~a.idle /\ a.gap >= 481
  BY DEF Known
<1> HIDE DEF wide
<1>6. o.speedOffset <= a.speedOffset => Free(a, o) >= 0
  BY <1>1, <1>3, <1>4, <1>5 DEF Width
<1>7. a.speedOffset = 0 /\ o.speedOffset = 8 => 3 * Free(a, o) >= Reach(a)
  <2> SUFFICES ASSUME o.speedOffset = 8 PROVE 3 * Free(a, o) >= Reach(a)
    OBVIOUS
  <2>1. o.xPos = 646 /\ ~a.idle /\ a.gap >= 200
    <3>1. now >= 85 /\ now <= a.born + 10 /\ a.born \in Int
      BY DEF Known, ObstacleRecords
    <3> QED BY <3>1 DEF Known
  <2> QED BY <1>1, <1>3, <1>4, <2>1 DEF Width
<1>8. a.speedOffset = -8 /\ o.speedOffset # -8 => Free(a, o) >= Reach(a)
  BY <1>1, <1>3, <1>4, <1>5 DEF Width
<1> QED BY <1>6, <1>7, <1>8 DEF Spaced

(* The row with one more obstacle. *)
LEMMA FollowedKnows ==
    ASSUME NEW row \in Seq(ObstacleRecords), NEW now \in Int, RowKnows(row, now),
           NextIsDue(row), NEW o \in ObstacleRecords, Known(o, now), ~o.remove,
           o.xPos >= 617, o.speedOffset # 0 => o.xPos = 646
    PROVE  RowKnows(Followed(row, o), now) /\ LastWaits(Followed(row, o))
           /\ Followed(row, o) # <<>>
<1> DEFINE n == Len(row)
           marked == [i \in DOMAIN row |->
                        IF i = n THEN [row[i] EXCEPT !.followed = TRUE] ELSE row[i]]
           new == Followed(row, o)
<1>0. n \in Nat /\ DOMAIN row = 1 .. n /\ \A i \in 1 .. n : row[i] \in ObstacleRecords
  BY LenProperties, ElementOfSeq
<1>1. ASSUME NEW i \in 1 .. n
      PROVE  LET m == IF i = n THEN [row[i] EXCEPT !.followed = TRUE] ELSE row[i]
             IN  /\ m \in ObstacleRecords /\ m.xPos = row[i].xPos /\ m.gap = row[i].gap
                 /\ m.type = row[i].type /\ m.size = row[i].size
                 /\ m.speedOffset = row[i].speedOffset /\ m.idle = row[i].idle
                 /\ m.born = row[i].born
                 /\ m.remove = row[i].remove
  <2> DEFINE r == row[i]
             m == [r EXCEPT !.followed = TRUE]
  <2>1. r \in ObstacleRecords
    BY <1>0
  <2> HIDE DEF r
  <2>2. /\ m \in ObstacleRecords /\ m.xPos = r.xPos /\ m.gap = r.gap
        /\ m.type = r.type /\ m.size = r.size
        /\ m.speedOffset = r.speedOffset /\ m.idle = r.idle /\ m.remove = r.remove
        /\ m.born = r.born
    BY <2>1 DEF ObstacleRecords
  <2> HIDE DEF m
  <2>3. (IF i = n THEN m ELSE r) \in {m, r}
    OBVIOUS
  <2> QED BY <2>1, <2>2, <2>3 DEF m, r
<1>2. /\ marked \in [1 .. n -> ObstacleRecords]
      /\ \A i \in 1 .. n :
            /\ marked[i].xPos = row[i].xPos /\ marked[i].gap = row[i].gap
            /\ marked[i].type = row[i].type /\ marked[i].size = row[i].size
            /\ marked[i].speedOffset = row[i].speedOffset /\ marked[i].idle = row[i].idle
            /\ marked[i].remove = row[i].remove /\ marked[i].born = row[i].born
  BY <1>0, <1>1
<1>3. new = Append(marked, o)
  BY DEF Followed
<1> HIDE DEF marked, new
<1>4. /\ Len(new) = n + 1 /\ new[n + 1] = o
      /\ \A i \in 1 .. n : new[i] = marked[i] /\ new[i] \in ObstacleRecords
  <2>1. marked \in Seq(ObstacleRecords) /\ Len(marked) = n
    BY <1>0, <1>2, FunctionIsSeq
  <2> QED BY <1>2, <1>3, <2>1, AppendProperties
<1>5. \A i \in 1 .. n : ObstacleWidth(new[i]) = ObstacleWidth(row[i]) /\ Reach(new[i]) = Reach(row[i])
  BY <1>2, <1>4 DEF ObstacleWidth, Reach
<1>6. ASSUME NEW i \in 1 .. n
      PROVE  Known(new[i], now) /\ Reach(new[i]) > 0 /\ ~new[i].remove
  <2> DEFINE a == new[i]
             b == row[i]
  <2>1. /\ a.gap = b.gap /\ a.speedOffset = b.speedOffset /\ a.idle = b.idle
        /\ a.born = b.born /\ a.remove = b.remove
        /\ ObstacleWidth(a) = ObstacleWidth(b) /\ Reach(a) = Reach(b)
    BY <1>2, <1>4, <1>5
  <2>2. Known(b, now) /\ Reach(b) > 0 /\ ~b.remove
    BY DEF RowKnows
  <2> HIDE DEF a, b
  <2>3. Known(a, now)
    BY <2>1, <2>2 DEF Known
  <2> QED BY <2>1, <2>2, <2>3 DEF a
<1>7. Reach(o) > 0 /\ Waits(o)
  <2>1. ObstacleWidth(o) \in Int /\ ObstacleWidth(o) > 0 /\ o.xPos \in Int
    BY TypesAreTyped DEF ObstacleWidth, ObstacleRecords, Known
  <2>2. o.gap \in Int /\ o.gap >= 72
    BY DEF Known, ObstacleRecords
  <2> QED BY <2>1, <2>2 DEF Reach, Waits, Width
<1>8. ASSUME NEW i \in 1 .. n
      PROVE  Spaced(new[i], new[i + 1])
  <2>1. CASE i = n
    <3>1. Reach(row[n]) + row[n].gap < Width
      BY <1>0, <2>1 DEF NextIsDue, Reach
    <3>2. Reach(new[n]) + new[n].gap < Width /\ Known(new[n], now) /\ new[n] \in ObstacleRecords
      BY <1>2, <1>4, <1>5, <1>6, <2>1, <3>1
    <3> HIDE DEF n
    <3>3. Spaced(new[n], o)
      BY <3>2, NewIsSpaced
    <3> QED BY <1>4, <2>1, <3>3
  <2>2. CASE i # n
    <3>1. i \in 1 .. n - 1 /\ i + 1 \in 1 .. n
      <4> HIDE DEF n
      <4> QED BY <1>0, <2>2
    <3>2. Spaced(row[i], row[i + 1])
      BY <3>1 DEF RowKnows
    <3>3. Free(new[i], new[i + 1]) = Free(row[i], row[i + 1])
      BY <1>2, <1>4, <1>5, <3>1 DEF Free
    <3> QED BY <1>2, <1>4, <1>5, <3>1, <3>2, <3>3 DEF Spaced
  <2> QED BY <2>1, <2>2
<1>9. \A i \in 1 .. n + 1 : Known(new[i], now) /\ Reach(new[i]) > 0 /\ ~new[i].remove
  BY <1>0, <1>4, <1>6, <1>7
<1>10. \A i \in 1 .. Len(new) - 1 : Spaced(new[i], new[i + 1])
  BY <1>0, <1>4, <1>8
<1>11. LastWaits(new) /\ new # <<>>
  BY <1>0, <1>4, <1>7 DEF LastWaits
<1> QED BY <1>4, <1>9, <1>10, <1>11 DEF RowKnows, new

(* A resize makes an obstacle only at the start of a game, when there is none. *)
RowInv ==
    /\ ObstaclesInv
    /\ ~quick => /\ RowKnows(obstacles, speed) /\ LastWaits(obstacles)
                 /\ obstacles = <<>> => speed <= FirstSpeed + Growth

LEMMA ObstacleNumbers ==
    ASSUME NEW o \in ObstacleRecords
    PROVE  /\ ObstacleWidth(o) \in Int /\ Reach(o) \in Int
           /\ o.xPos \in Int /\ o.gap \in Int /\ o.born \in Int
<1>1. /\ o.type \in Kinds /\ o.size \in Int /\ o.xPos \in Int /\ o.gap \in Int
      /\ o.born \in Int
  BY DEF ObstacleRecords
<1>2. Types[o.type].width \in Int
  BY <1>1, TypesAreTyped
<1> QED BY <1>1, <1>2 DEF ObstacleWidth, Reach

(* Of a row whose last obstacle waits the redraw asks for no other. *)
LEMMA RedrawWaits ==
    ASSUME NEW row \in Seq(ObstacleRecords), NEW now \in Int, RowKnows(row, now),
           LastWaits(row), NextIsDue(Forward(row, 0, 0))
    PROVE  row = <<>>
<1> DEFINE n == Len(row)
           gone == Cardinality({i \in 1 .. n : Moved(row[i], 0, 0).remove})
           rest == Forward(row, 0, 0)
<1> SUFFICES ASSUME row # <<>> PROVE FALSE
  OBVIOUS
<1>0. n \in Nat /\ n > 0 /\ \A i \in 1 .. n : row[i] \in ObstacleRecords
  BY LenProperties, ElementOfSeq, EmptySeq
<1>1. /\ Len(rest) = n - gone
      /\ \A i \in 1 .. n - gone : rest[i] = Moved(row[gone + i], 0, 0)
  BY ForwardIsTail
<1>1a. rest \in Seq(ObstacleRecords)
  <2>1. 0 \in Int
    OBVIOUS
  <2> QED BY <2>1, ForwardIsTail
<1>2. ASSUME NEW i \in 1 .. n
      PROVE  LET m == Moved(row[i], 0, 0)
             IN  /\ ~m.remove /\ m.xPos = row[i].xPos /\ m.gap = row[i].gap
                 /\ m.followed = row[i].followed /\ Reach(m) = Reach(row[i])
  <2> DEFINE o == row[i]
             m == Moved(o, 0, 0)
  <2>1. o \in ObstacleRecords /\ Known(o, now) /\ Reach(o) > 0 /\ ~o.remove
    BY <1>0 DEF RowKnows
  <2> HIDE DEF o
  <2>2. Shift(o.speedOffset, 0, 0) = 0
    BY <2>1 DEF Shift, Known
  <2>3. /\ m.xPos = o.xPos - Shift(o.speedOffset, 0, 0) /\ m.gap = o.gap
        /\ m.followed = o.followed /\ ObstacleWidth(m) = ObstacleWidth(o)
        /\ (m.remove <=> ~(Reach(m) > 0))
    <3>1. 0 \in Int
      OBVIOUS
    <3> QED BY <2>1, <3>1, MovedIs
  <2>5. o.xPos \in Int
    BY <2>1, ObstacleNumbers
  <2> HIDE DEF m
  <2>4. m.xPos = o.xPos /\ Reach(m) = Reach(o) /\ ~m.remove
    BY <2>1, <2>2, <2>3, <2>5 DEF Reach
  <2> QED BY <2>3, <2>4 DEF m, o
<1>3. gone = 0
  <2>1. {i \in 1 .. n : Moved(row[i], 0, 0).remove} = {}
    BY <1>2
  <2> QED BY <2>1, FS_EmptySet
<1> HIDE DEF n, gone, rest
<1>4. Len(rest) = n /\ n \in DOMAIN rest /\ rest[n] = Moved(row[n], 0, 0) /\ n \in 1 .. n
  <2>1. Len(rest) = n /\ n \in 1 .. n - gone /\ gone + n = n
    BY <1>0, <1>1, <1>3
  <2>3. DOMAIN rest = 1 .. Len(rest)
    BY <1>1a, LenProperties
  <2> QED BY <1>1, <2>1, <2>3
<1>5. ~rest[n].followed /\ Reach(rest[n]) + rest[n].gap < Width
  BY <1>4 DEF NextIsDue, Reach, rest
<1>6. ~Waits(row[n])
  <2>1. Reach(row[n]) \in Int /\ row[n].gap \in Int
    <3>1. row[n] \in ObstacleRecords
      BY <1>0, <1>4
    <3> QED BY <3>1, ObstacleNumbers
  <2>2. ~row[n].followed /\ Reach(row[n]) + row[n].gap < Width
    BY <1>2, <1>4, <1>5
  <2>3. Width \in Int
    BY DEF Width
  <2> QED BY <2>1, <2>2, <2>3 DEF Waits
<1> QED BY <1>0, <1>6 DEF LastWaits, n

LEMMA UpdateKnowsRow ==
    ASSUME ObstacleTypes, RowKnows(obstacles, speed), LastWaits(obstacles),
           obstacles = <<>> => speed <= FirstSpeed + Growth, UNCHANGED speed,
           NEW dt \in Int, NEW v \in Int, Instant(dt, v, speed), v = 0 => dt = 0,
           UpdateObstacles(dt, v)
    PROVE  RowKnows(obstacles', speed') /\ LastWaits(obstacles') /\ obstacles' # <<>>
<1> DEFINE row == Forward(obstacles, dt, v)
<1>1. obstacles \in Seq(ObstacleRecords) /\ speed \in Int /\ speed \in 60 .. 130
  BY ObstaclesAssumption DEF ObstacleTypes
<1>2. row \in Seq(ObstacleRecords) /\ RowKnows(row, speed)
  BY <1>1, ForwardIsTail, ForwardKnows
<1>3. \/ ~NextIsDue(row) /\ obstacles' = row
      \/ /\ NextIsDue(row)
         /\ \E type \in NextTypes(history, v) : \E o \in NewObstacles(type, v) :
               obstacles' = Followed(row, o)
  BY DEF UpdateObstacles
<1>4. NextIsDue(row) /\ v = 0 => speed <= 70
  BY <1>1, RedrawWaits DEF FirstSpeed, Growth
<1> HIDE DEF row
<1>5. CASE ~NextIsDue(row) /\ obstacles' = row
  <2>1. PICK i \in DOMAIN row :
           /\ i = Len(row)
           /\ ~(/\ ~row[i].followed /\ IsVisible(row[i])
                /\ row[i].xPos + ObstacleWidth(row[i]) + row[i].gap < Width)
    BY <1>5 DEF NextIsDue
  <2>2. Len(row) \in Nat /\ DOMAIN row = 1 .. Len(row) /\ row[i] \in ObstacleRecords
    BY <1>2, <2>1, LenProperties, ElementOfSeq
  <2>3. IsVisible(row[i])
    BY <1>2, <2>2, <2>1 DEF RowKnows, IsVisible, Reach
  <2>4. Reach(row[i]) \in Int /\ row[i].gap \in Int
    BY <2>2, ObstacleNumbers
  <2>5. row[i].followed \/ ~(Reach(row[i]) + row[i].gap < Width)
    BY <2>1, <2>3 DEF Reach
  <2>6. Waits(row[i])
    BY <2>4, <2>5 DEF Waits, Width
  <2>7. row # <<>>
    BY <2>1
  <2> QED BY <1>2, <1>5, <2>1, <2>6, <2>7 DEF LastWaits
<1>6. ASSUME NextIsDue(row), NEW type \in NextTypes(history, v),
             NEW o \in NewObstacles(type, v), obstacles' = Followed(row, o)
      PROVE  RowKnows(obstacles', speed') /\ LastWaits(obstacles') /\ obstacles' # <<>>
  <2>1. /\ o \in ObstacleRecords /\ Known(o, speed) /\ ~o.remove
        /\ o.xPos >= 617 /\ (o.speedOffset # 0 => o.xPos = 646)
    <3>1. type \in Kinds /\ v >= Types[type].minSpeed
      BY KindsAreTypes DEF NextTypes
    <3>2. v \in {0, speed}
      BY DEF Instant
    <3> QED BY <1>1, <1>4, <1>6, <3>1, <3>2, NewObstacleIs
  <2>2. /\ RowKnows(Followed(row, o), speed) /\ LastWaits(Followed(row, o))
        /\ Followed(row, o) # <<>>
    BY <1>1, <1>2, <1>6, <2>1, FollowedKnows
  <2> QED BY <1>6, <2>2
<1> QED BY <1>3, <1>5, <1>6

(* The row has room for the different speeds in every step. *)
LEMMA NextRow == RowInv /\ [ObstaclesNext]_obstacleVars => RowInv'
<1> SUFFICES ASSUME RowInv, [ObstaclesNext]_obstacleVars PROVE RowInv'
  OBVIOUS
<1>0. /\ ObstaclesInv' /\ ObstacleTypes /\ quick \in BOOLEAN
      /\ speed \in Int /\ speed >= 60 /\ \A dt \in FrameTimes : dt \in Nat
      /\ FirstSpeed = 60 /\ Growth = 10
  BY NextObstacles, ObstaclesAssumption
     DEF RowInv, ObstaclesInv, ObstacleTypes, FirstSpeed, Growth
<1>1. CASE ObstaclesFrame
  <2>1. PICK dt \in FrameTimes :
           /\ UpdateObstacles(dt, speed)
           /\ quick' = (quick \/ (dt > 0 /\ dt < Steady)) /\ speed' = speed
    BY <1>1 DEF ObstaclesFrame
  <2>2. ASSUME ~quick'
        PROVE  RowKnows(obstacles', speed') /\ LastWaits(obstacles') /\ obstacles' # <<>>
    <3>1. /\ RowKnows(obstacles, speed) /\ LastWaits(obstacles)
          /\ obstacles = <<>> => speed <= FirstSpeed + Growth
      BY <2>1, <2>2 DEF RowInv
    <3>2. Instant(dt, speed, speed) /\ dt \in Int /\ ~(speed = 0)
      <4>1. ~(dt > 0 /\ dt < Steady)
        BY <2>1, <2>2, Zenon
      <4> QED BY <1>0, <4>1 DEF Instant, Steady
    <3> QED BY <1>0, <2>1, <3>1, <3>2, UpdateKnowsRow
  <2> QED BY <1>0, <2>2 DEF RowInv
<1>2. CASE ObstaclesResize
  <2>1. Instant(0, 0, speed) /\ 0 \in Int
    BY DEF Instant
  <2>2. UpdateObstacles(0, 0) /\ speed' = speed /\ quick' = quick
    BY <1>2 DEF ObstaclesResize
  <2>3. ASSUME ~quick'
        PROVE  RowKnows(obstacles', speed') /\ LastWaits(obstacles') /\ obstacles' # <<>>
    BY <1>0, <2>1, <2>2, <2>3, UpdateKnowsRow DEF RowInv
  <2> QED BY <1>0, <2>3 DEF RowInv
<1>3. CASE Accelerate
  <2>1. /\ obstacles' = obstacles /\ quick' = quick /\ speed' \in Int /\ speed' > speed
        /\ \A i \in DOMAIN obstacles : speed' - obstacles[i].born <= Growth
        /\ obstacles = <<>> => speed' - FirstSpeed <= Growth
    BY <1>3, ObstaclesAssumption DEF Accelerate
  <2>2. ASSUME ~quick PROVE RowKnows(obstacles, speed')
    <3>1. RowKnows(obstacles, speed)
      BY <2>2 DEF RowInv
    <3>2. /\ DOMAIN obstacles = 1 .. Len(obstacles)
          /\ \A i \in 1 .. Len(obstacles) : obstacles[i] \in ObstacleRecords
      BY <1>0, LenProperties, ElementOfSeq DEF ObstacleTypes
    <3>3. ASSUME NEW i \in 1 .. Len(obstacles) PROVE Known(obstacles[i], speed')
      <4> DEFINE o == obstacles[i]
      <4>1. o \in ObstacleRecords /\ Known(o, speed) /\ speed' - o.born <= 10
        BY <1>0, <2>1, <3>1, <3>2 DEF RowKnows
      <4> HIDE DEF o
      <4>2. o.born \in Int
        BY <4>1 DEF ObstacleRecords
      <4>3. o.born <= speed' /\ speed' <= o.born + 10 /\ (speed >= 85 => speed' >= 85)
        BY <1>0, <2>1, <4>1, <4>2 DEF Known
      <4>4. Known(o, speed')
        BY <4>1, <4>3 DEF Known
      <4> QED BY <4>4 DEF o
    <3> QED BY <3>1, <3>3 DEF RowKnows
  <2>3. ASSUME obstacles = <<>> PROVE speed' <= FirstSpeed + Growth
    <3>1. speed' - FirstSpeed <= Growth
      BY <2>1, <2>3, Zenon
    <3>2. speed' \in Int
      BY <2>1
    <3>3. \A v \in Int : v - FirstSpeed <= Growth => v <= FirstSpeed + Growth
      BY DEF FirstSpeed, Growth
    <3> QED BY <3>1, <3>2, <3>3, Zenon
  <2> QED BY <1>0, <2>1, <2>2, <2>3 DEF RowInv
<1>4. CASE ObstaclesRestart
  BY <1>0, <1>4 DEF ObstaclesRestart, RowKnows, LastWaits, RowInv
<1>5. CASE UNCHANGED obstacleVars
  BY <1>0, <1>5 DEF obstacleVars, RowKnows, LastWaits, RowInv
<1> QED BY <1>1, <1>2, <1>3, <1>4, <1>5 DEF ObstaclesNext

(* Nothing is overtaken on its way through the canvas, what leaves it is taken
   away, and the first obstacle hides no other from the collision check, though
   pterodactyls move at speeds of their own, the frames have any lengths that the
   code can be called with (but for games with one shorter than Steady) and a
   resize may make the first obstacle (updateObstacles, update). *)
THEOREM RowStaysInPlace == ObstaclesSpec => []RowInPlace
<1>1. ObstaclesInit => RowInv
  <2>1. ObstaclesInit => ObstaclesInv
    BY InitObstacles
  <2>2. FirstSpeed <= FirstSpeed + Growth
    BY DEF FirstSpeed, Growth
  <2> QED BY <2>1, <2>2 DEF ObstaclesInit, RowKnows, LastWaits, RowInv
<1>2. RowInv /\ [ObstaclesNext]_obstacleVars => RowInv'
  BY NextRow
<1>3. RowInv => RowInPlace
  <2> SUFFICES ASSUME RowInv, ~quick PROVE RowInOrder /\ OnlyFirstIsNear
    BY DEF RowInPlace
  <2> DEFINE n == Len(obstacles)
  <2>0. /\ n \in Nat /\ DOMAIN obstacles = 1 .. n
        /\ \A i \in 1 .. n : obstacles[i] \in ObstacleRecords
    BY LenProperties, ElementOfSeq DEF RowInv, ObstaclesInv, ObstacleTypes
  <2>1. /\ \A i \in 1 .. n : /\ Known(obstacles[i], speed)
                             /\ Reach(obstacles[i]) > 0 /\ ~obstacles[i].remove
        /\ \A i \in 1 .. n - 1 : Spaced(obstacles[i], obstacles[i + 1])
    BY DEF RowInv, RowKnows
  <2> HIDE DEF n
  <2>2. ASSUME NEW i \in 1 .. n - 1
        PROVE  /\ Reach(obstacles[i]) <= obstacles[i + 1].xPos
               /\ ~obstacles[i].idle => obstacles[i + 1].xPos >= 94
    <3> DEFINE a == obstacles[i]
               b == obstacles[i + 1]
    <3>1. /\ a \in ObstacleRecords /\ b \in ObstacleRecords /\ Known(a, speed)
          /\ Known(b, speed) /\ Reach(a) > 0 /\ Spaced(a, b)
      BY <2>0, <2>1
    <3> HIDE DEF a, b
    <3>2. ObstacleWidth(a) \in Int
      BY <3>1, TypesAreTyped DEF ObstacleWidth, ObstacleRecords
    <3>3. Reach(a) \in Int /\ b.xPos \in Int
      BY <3>1, <3>2 DEF Reach, ObstacleRecords
    <3>4. a.speedOffset \in {-8, 0, 8} /\ b.speedOffset \in {-8, 0, 8}
      BY <3>1 DEF Known
    <3>5. Free(a, b) = b.xPos - Reach(a) - (IF a.idle THEN 0 ELSE 94) /\ Free(a, b) \in Int
      BY <3>3 DEF Free
    <3>6. Free(a, b) >= 0
      BY <3>1, <3>3, <3>4, <3>5 DEF Spaced
    <3>7. Reach(a) <= b.xPos /\ (~a.idle => b.xPos >= 94)
      BY <3>1, <3>3, <3>5, <3>6
    <3> QED BY <3>7 DEF a, b
  <2>3. RowInOrder
    <3> SUFFICES ASSUME NEW i \in DOMAIN obstacles
                 PROVE  /\ IsVisible(obstacles[i]) /\ ~obstacles[i].remove
                        /\ i < n => Reach(obstacles[i]) <= obstacles[i + 1].xPos
      BY DEF RowInOrder, Reach, n
    <3>1. i < n => i \in 1 .. n - 1
      BY <2>0
    <3> QED BY <2>0, <2>1, <2>2, <3>1 DEF IsVisible, Reach
  <2>4. OnlyFirstIsNear
    <3> SUFFICES ASSUME NEW i \in 2 .. n
                 PROVE  obstacles[i].xPos >= 50 + 44 \/ \E j \in 1 .. i - 1 : obstacles[j].idle
      BY DEF OnlyFirstIsNear, n
    <3>1. i - 1 \in 1 .. n - 1 /\ (i - 1) + 1 = i /\ i - 1 \in 1 .. i - 1
      BY <2>0
    <3> QED BY <2>2, <3>1
  <2> QED BY <2>3, <2>4
<1> QED BY <1>1, <1>2, <1>3, PTL DEF ObstaclesSpec

------------------------------------------------------------------------------
(* The score and the night. *)

LEMMA DivMod ==
    ASSUME NEW x \in Nat, NEW n \in Nat \ {0}
    PROVE  x = n * (x \div n) + (x % n) /\ x \div n \in Nat /\ x % n \in 0 .. n - 1
<1>1. x % n = x - n * (x \div n) /\ x \div n \in Nat /\ x % n \in 0 .. n - 1
  OBVIOUS
<1> DEFINE d == x \div n
           r == x % n
           y == n * d
<1>2. r = x - y /\ d \in Nat /\ r \in 0 .. n - 1 /\ y \in Int
  <2>1. d \in Nat
    BY <1>1
  <2>2. y \in Int
    <3> HIDE DEF d
    <3> QED BY <2>1
  <2> QED BY <1>1, <2>1, <2>2
<1>3. x = y + r
  <2> HIDE DEF d, r, y
  <2> QED BY <1>2
<1> QED BY <1>1, <1>3

LEMMA ModUnique ==
    ASSUME NEW m \in Nat \ {0}, NEW x \in Nat, NEW q \in Nat, NEW r \in 0 .. m - 1,
           x = m * q + r
    PROVE  x % m = r
<1> DEFINE d == x \div m
<1>1. x = m * d + (x % m) /\ d \in Nat /\ x % m \in 0 .. m - 1
  BY DivMod
<1> HIDE DEF d
<1>2. CASE d < q
  BY <1>1, <1>2, MultiplesApart
<1>3. CASE q < d
  BY <1>1, <1>3, MultiplesApart
<1>4. CASE q = d
  BY <1>1, <1>4
<1> QED BY <1>1, <1>2, <1>3, <1>4

(* Counting the phases of the moon. *)
LEMMA PhaseGrows ==
    ASSUME NEW m \in Nat \ {0}, NEW n \in Nat \ {0}
    PROVE  (((n - 1) % m) + 1) % m = n % m
<1> DEFINE q == (n - 1) \div m
           r == (n - 1) % m
<1>1. n = m * q + r + 1 /\ q \in Nat /\ r \in 0 .. m - 1
  <2>1. n - 1 \in Nat
    OBVIOUS
  <2>2. n - 1 = m * q + r /\ q \in Nat /\ r \in 0 .. m - 1
    BY <2>1, DivMod
  <2> HIDE DEF q, r
  <2> QED BY <2>2
<1> HIDE DEF q, r
<1>2. CASE r + 1 < m
  <2>1. n % m = r + 1
    BY <1>1, <1>2, ModUnique
  <2>2. (r + 1) % m = r + 1
    BY <1>1, <1>2
  <2> QED BY <2>1, <2>2 DEF r
<1>3. CASE r + 1 = m
  <2>1. n = m * (q + 1) + 0
    BY <1>1, <1>3
  <2>2. n % m = 0
    BY <2>1, <1>1, ModUnique
  <2>3. m % m = 0
    BY ModUnique, m = m * 1 + 0
  <2> QED BY <2>2, <2>3, <1>3 DEF r
<1> QED BY <1>1, <1>2, <1>3

(* The next multiple of a number is that number away. *)
LEMMA NextMultiple ==
    ASSUME NEW a \in Nat \ {0}, NEW x \in Nat, NEW y \in Nat,
           x % a = 0, y % a = 0, x < y
    PROVE  x + a <= y
<1> DEFINE j == x \div a
           k == y \div a
<1>1. x = a * j /\ j \in Nat
  <2>1. x = a * j + (x % a) /\ j \in Nat
    BY DivMod
  <2> HIDE DEF j
  <2> QED BY <2>1
<1>2. y = a * k /\ k \in Nat
  <2>1. y = a * k + (y % a) /\ k \in Nat
    BY DivMod
  <2> HIDE DEF k
  <2> QED BY <2>1
<1> HIDE DEF j, k
<1>3. j < k
  BY <1>1, <1>2, MultiplesGrow
<1> QED BY <1>1, <1>2, <1>3, MultiplesApart

------------------------------------------------------------------------------

LEMMA ScoreIs ==
    ASSUME NEW px \in Nat
    PROVE  /\ Score(px) \in Nat
           /\ 40 * Score(px) <= px + 20 /\ px + 20 < 40 * Score(px) + 40
BY DEF Score, RoundDiv

LEMMA ScoreGrows ==
    ASSUME NEW a \in Nat, NEW b \in Nat, a <= b
    PROVE  Score(a) <= Score(b)
BY ScoreIs

LEMMA ScoreWithin ==
    ASSUME NEW a \in Nat, NEW b \in Nat, NEW m \in Nat, b <= a + 40 * (m - 1)
    PROVE  Score(b) < Score(a) + m
BY ScoreIs

LEMMA ScoreLeaves ==
    ASSUME NEW a \in Nat, NEW b \in Nat, b >= a + 40
    PROVE  Score(b) > Score(a)
BY ScoreIs

(* Between two multiples there is none. *)
LEMMA NoMultiple ==
    ASSUME NEW a \in Nat, NEW b \in Nat, NEW m \in Nat \ {0}, Score(a) % m = 0,
           b >= a + 40, b <= a + 40 * (m - 1)
    PROVE  Score(b) % m # 0
<1>1. Score(a) \in Nat /\ Score(b) \in Nat /\ Score(a) < Score(b) /\ Score(b) < Score(a) + m
  BY ScoreIs, ScoreWithin, ScoreLeaves
<1> QED BY <1>1, NextMultiple

Caps == MaxRun + FramePx - 1
UnitCounts == {MaxDistanceUnits, MaxDistanceUnits + 1}

LEMMA NumbersAreNat ==
    /\ FrameMs \in Nat \ {0} /\ FramePx \in Nat \ {0} /\ MaxRun \in Nat \ {0}
    /\ MaxDistanceUnits \in Nat \ {0} /\ AchievementDistance \in Nat \ {0}
    /\ FlashDuration \in Nat \ {0} /\ FlashIterations \in Nat \ {0}
    /\ InvertDistance \in Nat \ {0} /\ InvertFadeDuration \in Nat \ {0}
    /\ FadeSteps \in Nat \ {0} /\ Phases \in Nat \ {0} /\ Caps \in Nat
BY MeterAssumption DEF Caps

LEMMA FramesAreNat ==
    /\ RoundFrames \in Nat \ {0} /\ NightFrames \in Nat \ {0}
    /\ \A j \in Nat : FrameMs * j <= FlashDuration * 2 => j <= RoundFrames - 1
    /\ \A j \in Nat : FrameMs * j <= InvertFadeDuration => j <= NightFrames - 1
    /\ \A j \in Nat : FrameMs * j > InvertFadeDuration => j >= NightFrames
<1>1. ASSUME NEW d \in Nat, NEW j \in Nat
      PROVE  /\ d \div FrameMs \in Nat
             /\ FrameMs * j <= d => j <= d \div FrameMs
             /\ FrameMs * j > d => j > d \div FrameMs
  <2> DEFINE q == d \div FrameMs
             r == d % FrameMs
  <2>1. d = FrameMs * q + r /\ q \in Nat /\ r \in 0 .. FrameMs - 1
    BY DivMod, NumbersAreNat
  <2> HIDE DEF q, r
  <2>2. FrameMs * j \in Nat /\ FrameMs * q \in Nat /\ FrameMs \in Nat \ {0}
    BY <2>1, NumbersAreNat
  <2>3. FrameMs * j <= d => j <= q
    <3> SUFFICES ASSUME q < j PROVE FrameMs * j > d
      BY <2>1, <2>2
    <3>1. FrameMs * q + FrameMs <= FrameMs * j
      BY <2>1, NumbersAreNat, MultiplesApart
    <3> QED BY <3>1, <2>1, <2>2
  <2>4. FrameMs * j > d => j > q
    <3> SUFFICES ASSUME j <= q PROVE FrameMs * j <= d
      BY <2>1, <2>2
    <3>1. FrameMs * j <= FrameMs * q
      BY <2>1, NumbersAreNat, MultiplesGrow
    <3> QED BY <3>1, <2>1, <2>2
  <2> QED BY <2>1, <2>3, <2>4 DEF q
<1>2. FlashDuration * 2 \in Nat /\ InvertFadeDuration \in Nat
  BY NumbersAreNat
<1> QED BY <1>1, <1>2 DEF RoundFrames, NightFrames

(* Runs whose score the digits can show, with the one they may grow by. *)
Runs == {px \in Nat : Score(px) <= MaxScore(MaxDistanceUnits + 1)}

Brings == {0, FramePx} \cup {lag.px : lag \in LateFrames}

LEMMA LateFramesAre == \A lag \in LateFrames : lag.ms \in Nat /\ lag.px \in Nat
BY MeterAssumption

LEMMA RunsGoOn ==
    /\ Brings \subseteq Nat /\ 0 \in Runs
    /\ \A old \in Runs, px \in Brings : (IF old < MaxRun THEN old + px ELSE old) \in Runs
<1>1. Brings \subseteq Nat
  BY LateFramesAre, NumbersAreNat DEF Brings
<1>2. MaxScore(MaxDistanceUnits + 1) \in Nat
  BY ScoreNumbers DEF MaxScore
<1>3. 0 \in Runs
  <2>1. Score(0) = 0
    BY DEF Score, RoundDiv
  <2> QED BY <2>1, <1>2 DEF Runs
<1>4. ASSUME NEW old \in Runs, NEW px \in Brings, old < MaxRun
      PROVE  old + px \in Runs
  <2>1. old \in Nat /\ px \in Nat /\ MaxRun \in Nat
    BY <1>1, NumbersAreNat DEF Runs
  <2>2. CASE px = 0
    BY <2>1, <2>2
  <2>3. CASE px # 0
    <3>1. Score(MaxRun + px) <= MaxScore(MaxDistanceUnits + 1)
      BY <2>3, ScoreNumbers DEF Brings
    <3>2. old + px \in Nat /\ MaxRun + px \in Nat /\ old + px <= MaxRun + px
      BY <2>1, <1>4
    <3>3. Score(old + px) <= Score(MaxRun + px)
          /\ Score(old + px) \in Nat /\ Score(MaxRun + px) \in Nat
      BY <3>2, ScoreGrows, ScoreIs
    <3>4. Score(old + px) <= MaxScore(MaxDistanceUnits + 1)
      BY <3>1, <3>3, <1>2
    <3> QED BY <3>2, <3>4 DEF Runs
  <2> QED BY <2>2, <2>3
<1> QED BY <1>1, <1>3, <1>4

LEMMA UnitsFit ==
    /\ \A px \in Runs : px \in Nat /\ Score(px) <= MaxScore(MaxDistanceUnits + 1)
    /\ \A units \in UnitCounts :
          /\ MaxScore(units) \in Nat
          /\ \A points \in 0 .. MaxScore(units) : Shown(points, units) = points
    /\ MaxScore(MaxDistanceUnits) <= MaxScore(MaxDistanceUnits + 1)
    /\ \A points \in Nat, units \in UnitCounts : Shown(points, units) \in Nat
<1>1. \A px \in Runs : px \in Nat /\ Score(px) <= MaxScore(MaxDistanceUnits + 1)
  BY DEF Runs
<1>2. ASSUME NEW units \in UnitCounts
      PROVE  10^units \in Nat \ {0}
  BY ScoreNumbers DEF UnitCounts
<1>3. ASSUME NEW units \in UnitCounts
      PROVE  /\ MaxScore(units) \in Nat
             /\ \A points \in 0 .. MaxScore(units) : Shown(points, units) = points
             /\ \A points \in Nat : Shown(points, units) \in Nat
  <2> DEFINE tens == 10^units
  <2>1. tens \in Nat \ {0}
    BY <1>2
  <2>2. MaxScore(units) = tens - 1 /\ \A points : Shown(points, units) = points % tens
    BY DEF MaxScore, Shown
  <2> HIDE DEF tens
  <2> QED BY <2>1, <2>2
<1>4. MaxScore(MaxDistanceUnits) <= MaxScore(MaxDistanceUnits + 1)
  BY ScoreNumbers DEF MaxScore
<1> QED BY <1>1, <1>3, <1>4

------------------------------------------------------------------------------

Meters == [units : UnitCounts, shown : Nat, highScore : Nat, acheivement : BOOLEAN,
           flashTimer : Nat, flashIterations : 0 .. FlashIterations + 1]

(* The digits have been flashing for no more frames than the flashes counted
   and the timer say, since a score that flashes. *)
FlashingSince(m, px, start, frames) ==
    /\ Score(start) % AchievementDistance = 0 /\ Score(start) <= MaxScore(m.units)
    /\ m.flashTimer = FrameMs * frames
    /\ px <= start + FramePx * (m.flashIterations * RoundFrames + frames)

(* The greatest score fits the digits. *)
HighestKnown(m, highest, doubt) ==
    /\ m \in Meters /\ Score(highest) <= MaxScore(m.units)
    /\ ~doubt => m.highScore = Shown(Score(highest), m.units)

(* The score px does, and a flash is over before it could need another one. *)
RunKnown(m, px) ==
    /\ Score(px) <= MaxScore(m.units)
    /\ m.acheivement => \E start \in 0 .. px, frames \in 0 .. RoundFrames - 1 :
                           FlashingSince(m, px, start, frames)

(* What a frame brings at most. *)
Brought(dt) == IF dt = 0 THEN 0 ELSE FramePx

LEMMA FlashFits ==
    ASSUME NEW m \in Meters, NEW px \in Runs, NEW start \in 0 .. px,
           Score(start) % AchievementDistance = 0, Score(start) <= MaxScore(m.units),
           px <= start + FramePx * ((FlashIterations + 2) * RoundFrames)
    PROVE  Score(px) <= MaxScore(m.units)
<1>1. start \in Nat /\ px \in Nat /\ AchievementDistance \in Nat \ {0}
  BY UnitsFit, NumbersAreNat
<1>2. CASE m.units = MaxDistanceUnits + 1
  BY <1>2, UnitsFit
<1>3. CASE m.units = MaxDistanceUnits
  <2> DEFINE tens == 10^MaxDistanceUnits
             far == FramePx * ((FlashIterations + 2) * RoundFrames)
  <2>1. tens \in Nat \ {0} /\ tens % AchievementDistance = 0 /\ MaxScore(m.units) = tens - 1
    BY <1>3, ScoreNumbers DEF MaxScore
  <2>2. far \in Nat /\ far <= 40 * (AchievementDistance - 1) /\ px <= start + far
    <3>1. FlashIterations + 2 \in Nat /\ RoundFrames \in Nat
      BY NumbersAreNat, FramesAreNat
    <3>2. (FlashIterations + 2) * RoundFrames \in Nat
      BY <3>1
    <3>3. far \in Nat
      BY <3>2, NumbersAreNat
    <3> QED BY <3>3, ScoreNumbers
  <2> HIDE DEF tens, far
  <2>3. Score(start) \in Nat /\ Score(px) \in Nat
    BY <1>1, ScoreIs
  <2>4. Score(start) + AchievementDistance <= tens
    BY <2>1, <2>3, <1>1, NextMultiple
  <2>5. Score(px) < Score(start) + AchievementDistance
    BY <2>2, <1>1, ScoreWithin
  <2> QED BY <2>1, <2>3, <2>4, <2>5, <1>1
<1> QED BY <1>2, <1>3 DEF Meters, UnitCounts

LEMMA CountedKnows ==
    ASSUME NEW m \in Meters, NEW px \in Runs, NEW highest \in Runs
    PROVE  /\ Counted(m, Score(px)) \in Meters
           /\ RunKnown(Counted(m, Score(px)), px)
           /\ Counted(m, Score(px)).shown = Shown(Score(px), Counted(m, Score(px)).units)
           /\ \A doubt \in BOOLEAN : HighestKnown(m, highest, doubt) =>
                 HighestKnown(Counted(m, Score(px)), highest, doubt)
<1> DEFINE points == Score(px)
           n == Counted(m, points)
           units == IF points > MaxScore(m.units) /\ m.units = MaxDistanceUnits
                    THEN m.units + 1 ELSE m.units
           reached == points > 0 /\ points % AchievementDistance = 0
<1>1. points \in Nat /\ Score(highest) \in Nat /\ px \in Nat
  <2>1. px \in Nat /\ highest \in Nat
    BY UnitsFit
  <2> QED BY <2>1, ScoreIs
<1>2. m \in Meters /\ m.units \in UnitCounts
  BY DEF Meters
<1>3. n = [m EXCEPT !.units = units, !.shown = Shown(points, units), !.acheivement = reached,
                    !.flashTimer = IF reached THEN 0 ELSE @]
  BY DEF Counted
<1>4. /\ units \in UnitCounts /\ points <= MaxScore(units)
      /\ Score(highest) <= MaxScore(m.units) =>
            /\ Score(highest) <= MaxScore(units)
            /\ Shown(Score(highest), units) = Shown(Score(highest), m.units)
  <2>1. MaxScore(MaxDistanceUnits) \in Nat /\ MaxScore(MaxDistanceUnits + 1) \in Nat
        /\ MaxScore(MaxDistanceUnits) <= MaxScore(MaxDistanceUnits + 1)
        /\ points <= MaxScore(MaxDistanceUnits + 1)
    BY UnitsFit DEF UnitCounts
  <2>2. CASE m.units = MaxDistanceUnits /\ points > MaxScore(m.units)
    <3>1. units = MaxDistanceUnits + 1
      BY <2>2
    <3> HIDE DEF units, points
    <3>2. ASSUME Score(highest) <= MaxScore(m.units)
          PROVE  Score(highest) \in 0 .. MaxScore(MaxDistanceUnits)
                 /\ Score(highest) \in 0 .. MaxScore(MaxDistanceUnits + 1)
      BY <3>2, <1>1, <2>1, <2>2
    <3>3. ASSUME Score(highest) <= MaxScore(m.units)
          PROVE  Shown(Score(highest), MaxDistanceUnits) = Score(highest)
                 /\ Shown(Score(highest), MaxDistanceUnits + 1) = Score(highest)
      BY <3>2, <3>3, UnitsFit DEF UnitCounts
    <3> QED BY <3>1, <3>2, <3>3, <2>1, <2>2 DEF UnitCounts
  <2>3. CASE m.units = MaxDistanceUnits + 1
    <3>1. units = m.units
      BY <2>3, NumbersAreNat
    <3> HIDE DEF units, points
    <3> QED BY <3>1, <2>1, <2>3, <1>2
  <2>4. CASE m.units = MaxDistanceUnits /\ ~(points > MaxScore(m.units))
    <3>1. units = m.units
      BY <2>4
    <3> HIDE DEF units, points
    <3> QED BY <3>1, <2>1, <2>4, <1>1, <1>2
  <2> QED BY <2>2, <2>3, <2>4, <1>2 DEF UnitCounts
<1>5. Shown(points, units) \in Nat
  BY <1>1, <1>4, UnitsFit
<1>6. reached \in BOOLEAN
  OBVIOUS
<1> HIDE DEF points, units, reached
<1>8. n \in Meters /\ n.units = units /\ n.shown = Shown(points, units)
      /\ n.highScore = m.highScore /\ n.acheivement = reached
      /\ (reached => n.flashTimer = 0) /\ n.flashIterations = m.flashIterations
  <2> DEFINE flashTimer == IF reached THEN 0 ELSE m.flashTimer
  <2>1. flashTimer \in Nat /\ m.highScore \in Nat
        /\ m.flashIterations \in 0 .. FlashIterations + 1
    BY <1>2 DEF Meters
  <2>2. n = [m EXCEPT !.units = units, !.shown = Shown(points, units),
                      !.acheivement = reached, !.flashTimer = flashTimer]
    BY <1>3
  <2>3. reached => flashTimer = 0
    OBVIOUS
  <2> HIDE DEF flashTimer, n
  <2> QED BY <2>1, <2>2, <2>3, <1>2, <1>4, <1>5, <1>6 DEF Meters
<1> HIDE DEF n
<1>9. ASSUME reached
      PROVE  FlashingSince(n, px, px, 0)
  <2>1. FrameMs * 0 = 0
    BY NumbersAreNat
  <2>2. points % AchievementDistance = 0
    BY <1>9 DEF reached
  <2>3. n.flashIterations * RoundFrames + 0 \in Nat
    <3>1. n.flashIterations \in Nat /\ RoundFrames \in Nat
      BY <1>8, FramesAreNat, NumbersAreNat DEF Meters
    <3> QED BY <3>1
  <2>4. FramePx * (n.flashIterations * RoundFrames + 0) \in Nat
    BY <2>3, NumbersAreNat
  <2> QED BY <2>1, <2>2, <2>4, <1>1, <1>4, <1>8, <1>9 DEF FlashingSince, points
<1>10. px \in 0 .. px /\ 0 \in 0 .. RoundFrames - 1
  BY <1>1, FramesAreNat
<1>11. RunKnown(n, px)
  BY <1>4, <1>8, <1>9, <1>10 DEF RunKnown, points
<1>12. ASSUME NEW doubt \in BOOLEAN, HighestKnown(m, highest, doubt)
       PROVE  HighestKnown(n, highest, doubt)
  BY <1>4, <1>8, <1>12 DEF HighestKnown
<1> QED BY <1>8, <1>11, <1>12 DEF n, points

(* The flashing leaves the digits alone. *)
LEMMA FlashedIs ==
    ASSUME NEW m \in Meters, NEW dt \in Nat
    PROVE  /\ Flashed(m, dt) \in Meters
           /\ Flashed(m, dt).units = m.units /\ Flashed(m, dt).shown = m.shown
           /\ Flashed(m, dt).highScore = m.highScore
<1> DEFINE n == Flashed(m, dt)
           it == m.flashIterations
<1>1. /\ m.units \in UnitCounts /\ m.flashTimer \in Nat /\ it \in 0 .. FlashIterations + 1
      /\ m.shown \in Nat /\ m.highScore \in Nat /\ m.acheivement \in BOOLEAN
      /\ FlashIterations \in Nat
  BY NumbersAreNat DEF Meters
<1>2. CASE it > FlashIterations
  <2>1. n = [m EXCEPT !.acheivement = FALSE, !.flashIterations = 0, !.flashTimer = 0]
    BY <1>2 DEF Flashed
  <2>2. 0 \in 0 .. FlashIterations + 1 /\ FALSE \in BOOLEAN /\ 0 \in Nat
    BY <1>1
  <2> HIDE DEF n
  <2>3. n \in Meters /\ n.units = m.units /\ n.shown = m.shown /\ n.highScore = m.highScore
    BY <2>1, <2>2, <1>1 DEF Meters
  <2> QED BY <2>3 DEF n
<1>3. CASE ~(it > FlashIterations) /\ m.flashTimer + dt > FlashDuration * 2
  <2>1. n = [m EXCEPT !.flashTimer = 0, !.flashIterations = it + 1]
    BY <1>3 DEF Flashed
  <2>2. it + 1 \in 0 .. FlashIterations + 1
    BY <1>1, <1>3
  <2> HIDE DEF n
  <2>3. n \in Meters /\ n.units = m.units /\ n.shown = m.shown /\ n.highScore = m.highScore
    BY <2>1, <2>2, <1>1 DEF Meters
  <2> QED BY <2>3 DEF n
<1>4. CASE ~(it > FlashIterations) /\ ~(m.flashTimer + dt > FlashDuration * 2)
  <2>1. n = [m EXCEPT !.flashTimer = m.flashTimer + dt]
    BY <1>4 DEF Flashed
  <2>2. m.flashTimer + dt \in Nat
    BY <1>1
  <2> HIDE DEF n
  <2>3. n \in Meters /\ n.units = m.units /\ n.shown = m.shown /\ n.highScore = m.highScore
    BY <2>1, <2>2, <1>1 DEF Meters
  <2> QED BY <2>3 DEF n
<1> QED BY <1>2, <1>3, <1>4

LEMMA FlashedKnows ==
    ASSUME NEW m \in Meters, NEW old \in Runs, NEW px \in Runs,
           NEW dt \in {0, FrameMs}, old <= px, px <= old + Brought(dt), m.acheivement,
           RunKnown(m, old)
    PROVE  RunKnown(Flashed(m, dt), px)
<1> DEFINE n == Flashed(m, dt)
<1>1. m \in Meters /\ m.units \in UnitCounts /\ m.flashTimer \in Nat
      /\ m.flashIterations \in 0 .. FlashIterations + 1
      /\ m.shown \in Nat /\ m.highScore \in Nat /\ m.acheivement \in BOOLEAN
  BY DEF Meters
<1>2. PICK start \in 0 .. old, frames \in 0 .. RoundFrames - 1 :
         FlashingSince(m, old, start, frames)
  BY DEF RunKnown
<1>3. /\ dt \in Nat /\ old \in Nat /\ px \in Nat /\ start \in Nat /\ frames \in Nat
      /\ FlashIterations \in Nat /\ RoundFrames \in Nat \ {0} /\ FramePx \in Nat
      /\ m.flashIterations \in Nat /\ frames <= RoundFrames - 1
      /\ FlashDuration * 2 \in Nat /\ FrameMs \in Nat \ {0}
  BY <1>1, UnitsFit, NumbersAreNat, FramesAreNat
<1> DEFINE it == m.flashIterations
           done == it * RoundFrames
           all == (FlashIterations + 2) * RoundFrames
<1>4. /\ done \in Nat /\ all \in Nat /\ done + RoundFrames = (it + 1) * RoundFrames
      /\ done + RoundFrames <= all
  <2>1. RoundFrames * it = done /\ RoundFrames * (it + 1) = (it + 1) * RoundFrames
        /\ RoundFrames * (FlashIterations + 2) = all
    BY <1>3
  <2>2. RoundFrames * (it + 1) = RoundFrames * it + RoundFrames
    BY <1>3, MultiplesAdd
  <2>3. RoundFrames * (it + 1) <= RoundFrames * (FlashIterations + 2)
    BY <1>1, <1>3, MultiplesGrow
  <2>4. done \in Nat /\ all \in Nat
    BY <1>3
  <2> QED BY <2>1, <2>2, <2>3, <2>4
<1> HIDE DEF done, all
<1>5. /\ FramePx * (done + frames) \in Int /\ FramePx * (done + frames + 1) \in Int
      /\ FramePx * (done + RoundFrames) \in Int /\ FramePx * all \in Int
      /\ FramePx * (done + frames + 1) = FramePx * (done + frames) + FramePx
      /\ FramePx * (done + frames + 1) <= FramePx * (done + RoundFrames)
      /\ FramePx * (done + RoundFrames) <= FramePx * all
  <2>1. done + frames \in Int /\ done + frames + 1 \in Int /\ done + RoundFrames \in Int
        /\ all \in Int /\ done + frames + 1 <= done + RoundFrames
    BY <1>3, <1>4
  <2>2. FramePx * (done + frames + 1) = FramePx * (done + frames) + FramePx
        /\ FramePx * (done + frames) \in Int
    BY <2>1, <1>3, MultiplesAdd
  <2>3. FramePx * (done + frames + 1) <= FramePx * (done + RoundFrames)
        /\ FramePx * (done + RoundFrames) <= FramePx * all
        /\ FramePx * (done + RoundFrames) \in Int /\ FramePx * all \in Int
        /\ FramePx * (done + frames + 1) \in Int
    BY <2>1, <1>3, <1>4, MultiplesGrow
  <2> QED BY <2>2, <2>3
<1>6. /\ old <= start + FramePx * (done + frames)
      /\ m.flashTimer = FrameMs * frames
      /\ Score(start) % AchievementDistance = 0 /\ Score(start) <= MaxScore(m.units)
  BY <1>2 DEF FlashingSince, done
<1>7. px <= start + FramePx * (done + frames + 1)
      /\ (dt = 0 => px <= start + FramePx * (done + frames))
  BY <1>3, <1>5, <1>6 DEF Brought
<1>8. Score(px) <= MaxScore(m.units)
  <2>1. px <= start + FramePx * all
    BY <1>3, <1>5, <1>7
  <2>2. start \in 0 .. px
    BY <1>3
  <2> QED BY <2>1, <2>2, <1>1, <1>6, FlashFits DEF all
<1>9. CASE it > FlashIterations
  <2>1. n = [m EXCEPT !.acheivement = FALSE, !.flashIterations = 0, !.flashTimer = 0]
    BY <1>9 DEF Flashed
  <2>2. n \in Meters /\ n.units = m.units /\ n.shown = m.shown /\ n.highScore = m.highScore
        /\ n.acheivement = FALSE
    <3>1. 0 \in 0 .. FlashIterations + 1 /\ FALSE \in BOOLEAN /\ 0 \in Nat
      BY <1>3
    <3> HIDE DEF n
    <3> QED BY <2>1, <3>1, <1>1 DEF Meters
  <2> QED BY <2>2, <1>1, <1>8 DEF RunKnown
<1>10. CASE ~(it > FlashIterations) /\ m.flashTimer + dt > FlashDuration * 2
  <2>1. n = [m EXCEPT !.flashTimer = 0, !.flashIterations = @ + 1]
    BY <1>10 DEF Flashed
  <2>2. it + 1 \in 0 .. FlashIterations + 1
    BY <1>10, <1>1, <1>3
  <2>3. n \in Meters /\ n.units = m.units /\ n.shown = m.shown /\ n.highScore = m.highScore
        /\ n.flashTimer = 0 /\ n.flashIterations = it + 1
    <3> HIDE DEF n
    <3> QED BY <2>1, <2>2, <1>1 DEF Meters
  <2>4. FlashingSince(n, px, start, 0)
    <3>1. (it + 1) * RoundFrames + 0 = done + RoundFrames
      <4>1. done + RoundFrames \in Int
        BY <1>3, <1>4
      <4> QED BY <4>1, <1>4
    <3>2. px <= start + FramePx * (done + RoundFrames)
      BY <1>3, <1>5, <1>7
    <3>3. FrameMs * 0 = 0
      BY <1>3
    <3> QED BY <3>1, <3>2, <3>3, <2>3, <1>6 DEF FlashingSince
  <2>5. start \in 0 .. px /\ 0 \in 0 .. RoundFrames - 1
    BY <1>3
  <2> QED BY <2>3, <2>4, <2>5, <1>1, <1>8 DEF RunKnown
<1>11. CASE ~(it > FlashIterations) /\ ~(m.flashTimer + dt > FlashDuration * 2)
  <2>1. n = [m EXCEPT !.flashTimer = m.flashTimer + dt]
    BY <1>11 DEF Flashed
  <2>2. n \in Meters /\ n.units = m.units /\ n.shown = m.shown /\ n.highScore = m.highScore
        /\ n.flashTimer = m.flashTimer + dt /\ n.flashIterations = it
    <3>1. n = [m EXCEPT !.flashTimer = m.flashTimer + dt, !.flashIterations = it]
      BY <2>1, <1>1 DEF Meters
    <3>2. m.flashTimer + dt \in Nat
      BY <1>1, <1>3
    <3> HIDE DEF n
    <3> QED BY <3>1, <3>2, <1>1 DEF Meters
  <2>3. CASE dt = 0
    <3>1. n.flashTimer = FrameMs * frames
      BY <2>2, <2>3, <1>1, <1>6
    <3>2. FlashingSince(n, px, start, frames)
      BY <3>1, <2>2, <2>3, <1>6, <1>7 DEF FlashingSince, done
    <3>3. start \in 0 .. px
      BY <1>3
    <3> QED BY <3>2, <3>3, <2>2, <1>1, <1>8 DEF RunKnown
  <2>4. CASE dt = FrameMs
    <3>1. n.flashTimer = FrameMs * (frames + 1)
      BY <2>2, <2>4, <1>3, <1>6, MultiplesAdd
    <3>2. frames + 1 \in 0 .. RoundFrames - 1
      <4>1. FrameMs * (frames + 1) <= FlashDuration * 2
        BY <3>1, <2>2, <1>11, <1>1, <1>3
      <4>2. frames + 1 <= RoundFrames - 1
        BY <4>1, <1>3, FramesAreNat
      <4> QED BY <4>2, <1>3
    <3>3. done + (frames + 1) = done + frames + 1
      BY <1>3, <1>4
    <3>4. FlashingSince(n, px, start, frames + 1)
      BY <3>1, <3>3, <2>2, <1>6, <1>7 DEF FlashingSince, done
    <3>5. start \in 0 .. px
      BY <1>3
    <3> QED BY <3>2, <3>4, <3>5, <2>2, <1>1, <1>8 DEF RunKnown
  <2> QED BY <2>3, <2>4
<1> QED BY <1>9, <1>10, <1>11

(* A frame that brings anything keeps the high score, *)
LEMMA UpdateKeepsBest ==
    ASSUME NEW m \in Meters, NEW px \in Runs, NEW dt \in Nat
    PROVE  /\ MeterUpdate(m, dt, px) \in Meters
           /\ \A highest \in Runs, doubt \in BOOLEAN : HighestKnown(m, highest, doubt) =>
                 HighestKnown(MeterUpdate(m, dt, px), highest, doubt)
<1>1. CASE m.acheivement
  BY <1>1, FlashedIs DEF MeterUpdate, HighestKnown
<1>2. CASE ~m.acheivement
  BY <1>2, CountedKnows DEF MeterUpdate
<1> QED BY <1>1, <1>2

(* and one that brings no more than a frame does the score of the run. *)
LEMMA UpdateKnows ==
    ASSUME NEW m \in Meters, NEW old \in Runs, NEW px \in Runs,
           NEW dt \in {0, FrameMs}, old <= px, px <= old + Brought(dt), RunKnown(m, old)
    PROVE  RunKnown(MeterUpdate(m, dt, px), px)
<1>1. CASE m.acheivement
  BY <1>1, FlashedKnows DEF MeterUpdate
<1>2. CASE ~m.acheivement
  BY <1>2, CountedKnows DEF MeterUpdate
<1> QED BY <1>1, <1>2

(* A meter that does not flash. *)
LEMMA QuietIs ==
    ASSUME NEW m \in Meters
    PROVE  LET quiet == [m EXCEPT !.acheivement = FALSE]
           IN  /\ quiet \in Meters /\ quiet.acheivement = FALSE
               /\ quiet.units = m.units /\ quiet.highScore = m.highScore
BY DEF Meters

(* The meter of a run that is lost. *)
LEMMA LostKnows ==
    ASSUME NEW m \in Meters, NEW px \in Runs, RunKnown(m, px)
    PROVE  RunKnown(m, 0)
<1>1. 0 <= px /\ px \in Nat /\ 0 \in Nat
  BY UnitsFit
<1>2. Score(0) <= MaxScore(m.units)
  <2>1. MaxScore(m.units) \in Nat
    BY UnitsFit DEF Meters
  <2>2. Score(0) <= Score(px) /\ Score(0) \in Nat /\ Score(px) \in Nat
    BY <1>1, ScoreGrows, ScoreIs
  <2> QED BY <2>1, <2>2 DEF RunKnown
<1>3. ASSUME m.acheivement
      PROVE  \E start \in 0 .. 0, frames \in 0 .. RoundFrames - 1 :
                FlashingSince(m, 0, start, frames)
  <2>1. PICK start \in 0 .. px, frames \in 0 .. RoundFrames - 1 :
           FlashingSince(m, px, start, frames)
    BY <1>3 DEF RunKnown
  <2>2. Score(0) % AchievementDistance = 0
    <3>1. Score(0) = 0
      BY DEF Score, RoundDiv
    <3> QED BY <3>1, NumbersAreNat
  <2>3. FramePx * (m.flashIterations * RoundFrames + frames) \in Nat
    <3>1. m.flashIterations \in Nat /\ RoundFrames \in Nat /\ frames \in Nat
      BY FramesAreNat, NumbersAreNat DEF Meters
    <3>2. m.flashIterations * RoundFrames \in Nat
      BY <3>1
    <3>3. m.flashIterations * RoundFrames + frames \in Nat
      BY <3>1, <3>2
    <3> QED BY <3>3, NumbersAreNat
  <2>4. FlashingSince(m, 0, 0, frames)
    BY <2>1, <2>2, <2>3, <1>2 DEF FlashingSince
  <2> QED BY <2>4
<1> QED BY <1>2, <1>3 DEF RunKnown

(* In a game that a late frame has interrupted the score may have outgrown the
   digits, until it is over. *)
ScoreInv ==
    /\ run \in Runs /\ best \in Runs /\ highestScore = best
    /\ over \in BOOLEAN /\ interrupted \in BOOLEAN /\ doubtful \in BOOLEAN
    /\ HighestKnown(meter, best, doubtful)
    /\ ~interrupted \/ over => RunKnown(meter, run)
    /\ over => ~playing /\ meter.shown = Shown(Score(run), meter.units)

LEMMA InitScore == MeterInit => ScoreInv
<1> SUFFICES ASSUME MeterInit PROVE ScoreInv
  OBVIOUS
<1>1. run = 0 /\ best = 0 /\ highestScore = 0 /\ over = FALSE /\ meter = NewMeter
      /\ interrupted = FALSE /\ doubtful = FALSE
  BY DEF MeterInit
<1>2. Score(0) = 0
  BY DEF Score, RoundDiv
<1>3. 0 \in Runs /\ MaxDistanceUnits \in UnitCounts /\ 0 \in 0 .. FlashIterations + 1
  BY RunsGoOn, NumbersAreNat DEF UnitCounts
<1>4. MaxScore(MaxDistanceUnits) \in Nat
  BY <1>3, UnitsFit
<1>5. Shown(0, MaxDistanceUnits) = 0
  BY <1>3, <1>4, UnitsFit
<1>6. NewMeter \in Meters
  BY <1>3 DEF NewMeter, Meters
<1>7. NewMeter.units = MaxDistanceUnits /\ NewMeter.highScore = 0
      /\ NewMeter.acheivement = FALSE
  BY DEF NewMeter
<1>8. HighestKnown(NewMeter, 0, FALSE) /\ RunKnown(NewMeter, 0)
  BY <1>2, <1>4, <1>5, <1>6, <1>7 DEF HighestKnown, RunKnown
<1> QED BY <1>1, <1>3, <1>8 DEF ScoreInv

(* A frame that a game goes on after. *)
LEMMA GoesOnKnows ==
    ASSUME ScoreInv, ~over, NEW dt \in Nat, NEW px \in Brings, GoesOn(dt, px),
           \/ interrupted'
           \/ interrupted' = interrupted /\ ((dt = 0 /\ px = 0) \/ (dt = FrameMs /\ px = FramePx)),
           interrupted' \in BOOLEAN
    PROVE  ScoreInv'
<1> DEFINE new == IF run < MaxRun THEN run + px ELSE run
<1>1. /\ run \in Runs /\ best \in Runs /\ highestScore = best /\ over = FALSE
      /\ interrupted \in BOOLEAN /\ doubtful \in BOOLEAN
      /\ HighestKnown(meter, best, doubtful) /\ meter \in Meters
      /\ ~interrupted => RunKnown(meter, run)
  BY DEF ScoreInv, HighestKnown
<1>2. /\ run' = new /\ meter' = MeterUpdate(meter, dt, new)
      /\ over' = over /\ highestScore' = highestScore /\ best' = best /\ doubtful' = doubtful
  BY DEF GoesOn, Scored
<1>3. new \in Runs
  BY <1>1, RunsGoOn
<1>4. HighestKnown(meter', best, doubtful)
  <2> HIDE DEF new
  <2> QED BY <1>1, <1>2, <1>3, UpdateKeepsBest
<1>5. ASSUME ~interrupted'
      PROVE  RunKnown(meter', new)
  <2>1. ~interrupted /\ ((dt = 0 /\ px = 0) \/ (dt = FrameMs /\ px = FramePx))
    BY <1>5
  <2>2. run \in Nat /\ FramePx \in Nat /\ FrameMs \in Nat \ {0}
    BY <1>1, UnitsFit, NumbersAreNat
  <2>3. dt \in {0, FrameMs} /\ run <= new /\ new <= run + Brought(dt)
    BY <2>1, <2>2 DEF Brought
  <2> HIDE DEF new
  <2> QED BY <2>1, <2>3, <1>1, <1>2, <1>3, UpdateKnows
<1> HIDE DEF new
<1> QED BY <1>1, <1>2, <1>3, <1>4, <1>5 DEF ScoreInv

(* A frame that ends in a collision. *)
LEMMA CrashKnows ==
    ASSUME ScoreInv, NEW dt \in Nat, Crashes(dt), interrupted' \in BOOLEAN
    PROVE  ScoreInv'
<1> DEFINE quiet == [meter EXCEPT !.acheivement = FALSE]
           highScore == Shown(Score(run), meter.units)
           marked == [quiet EXCEPT !.highScore = highScore]
           m == MeterOver(meter, run)
           highest == IF run > best THEN run ELSE best
           doubt == IF run > best THEN interrupted ELSE doubtful
<1>1. /\ run \in Runs /\ best \in Runs /\ highestScore = best
      /\ interrupted \in BOOLEAN /\ doubtful \in BOOLEAN
      /\ HighestKnown(meter, best, doubtful) /\ meter \in Meters
      /\ ~interrupted => RunKnown(meter, run)
  BY DEF ScoreInv, HighestKnown
<1>2. /\ run' = run /\ over' = TRUE /\ playing' = FALSE /\ highestScore' = highest /\ best' = highest
      /\ doubtful' = doubt /\ meter' = MeterUpdate(m, dt, run)
  BY <1>1 DEF Crashes, Scored, Highest
<1>3. quiet \in Meters /\ quiet.acheivement = FALSE
      /\ quiet.units = meter.units /\ quiet.highScore = meter.highScore
  BY <1>1, QuietIs
<1>4. meter.units \in UnitCounts /\ run \in Nat
  BY <1>1, UnitsFit DEF Meters
<1>5. highScore \in Nat
  BY <1>4, UnitsFit, ScoreIs
<1> HIDE DEF highScore, quiet
<1>6. marked \in Meters /\ marked.acheivement = FALSE
      /\ marked.units = meter.units /\ marked.highScore = highScore
  BY <1>3, <1>5 DEF Meters
<1> HIDE DEF marked
<1>7. m = IF run > best THEN marked ELSE quiet
  BY <1>1 DEF MeterOver, marked, quiet, highScore
<1>8. m \in Meters /\ m.acheivement = FALSE
  BY <1>3, <1>6, <1>7
<1> HIDE DEF m
<1>9. meter' = Counted(m, Score(run))
  BY <1>2, <1>8 DEF MeterUpdate
<1>10. highest \in Runs /\ doubt \in BOOLEAN
  BY <1>1
<1> HIDE DEF highest, doubt
<1>11. /\ RunKnown(meter', run) /\ meter' \in Meters
       /\ meter'.shown = Shown(Score(run), meter'.units)
       /\ HighestKnown(m, highest, doubt) => HighestKnown(meter', highest, doubt)
  BY <1>1, <1>8, <1>9, <1>10, CountedKnows
<1>12. HighestKnown(meter', highest, doubt)
  <2>1. CASE ~(run > best)
    <3>1. HighestKnown(m, highest, doubt)
      BY <2>1, <1>1, <1>3, <1>7 DEF HighestKnown, highest, doubt
    <3> QED BY <3>1, <1>11
  <2>2. CASE run > best /\ ~interrupted
    <3>1. HighestKnown(m, highest, doubt)
      BY <2>2, <1>1, <1>6, <1>7 DEF HighestKnown, RunKnown, highest, doubt, highScore
    <3> QED BY <3>1, <1>11
  <2>3. CASE run > best /\ interrupted
    BY <2>3, <1>11 DEF HighestKnown, RunKnown, highest, doubt
  <2> QED BY <2>1, <2>2, <2>3
<1> QED BY <1>1, <1>2, <1>10, <1>11, <1>12 DEF ScoreInv

(* The score keeps up in every step. *)
LEMMA NextScore == ScoreInv /\ [MeterNext]_meterVars => ScoreInv'
<1> SUFFICES ASSUME ScoreInv, [MeterNext]_meterVars PROVE ScoreInv'
  OBVIOUS
<1>1. /\ run \in Runs /\ best \in Runs /\ highestScore = best /\ over \in BOOLEAN
      /\ interrupted \in BOOLEAN /\ doubtful \in BOOLEAN /\ run \in Nat
      /\ HighestKnown(meter, best, doubtful) /\ meter \in Meters
      /\ (~interrupted \/ over => RunKnown(meter, run))
      /\ (over => ~playing /\ meter.shown = Shown(Score(run), meter.units))
  BY UnitsFit DEF ScoreInv, HighestKnown
<1>2. /\ Brought(0) = 0 /\ 0 \in Nat /\ FrameMs \in Nat /\ 0 \in Brings /\ FramePx \in Brings
      /\ 0 \in Runs /\ 0 \in {0, FrameMs}
  BY NumbersAreNat, RunsGoOn DEF Brought, Brings
<1>3. ASSUME NEW passed \in BOOLEAN, MeterFrame(passed)
      PROVE  ScoreInv'
  <2>1. interrupted' = interrupted /\ ~over
        /\ IF passed THEN GoesOn(FrameMs, FramePx) ELSE GoesOn(0, 0)
    BY <1>1, <1>3 DEF MeterFrame
  <2>2. CASE passed
    BY <2>1, <2>2, <1>1, <1>2, GoesOnKnows
  <2>3. CASE ~passed
    BY <2>1, <2>3, <1>1, <1>2, GoesOnKnows
  <2> QED BY <2>2, <2>3
<1>4. ASSUME NEW passed \in BOOLEAN, MeterGameOver(passed)
      PROVE  ScoreInv'
  <2> DEFINE dt == IF passed THEN FrameMs ELSE 0
  <2>1. interrupted' = interrupted /\ Crashes(dt) /\ dt \in Nat
    BY <1>2, <1>4 DEF MeterGameOver
  <2> HIDE DEF dt
  <2> QED BY <2>1, <1>1, CrashKnows
<1>5. ASSUME MeterLeave
      PROVE  ScoreInv'
  BY <1>1, <1>5 DEF ScoreInv, MeterLeave, HighestKnown, RunKnown, FlashingSince
<1>6. ASSUME MeterReturn
      PROVE  ScoreInv'
  <2>1. ~over /\ interrupted' = interrupted /\ (GoesOn(0, 0) \/ Crashes(0))
    BY <1>6 DEF MeterReturn
  <2> QED BY <2>1, <1>1, <1>2, GoesOnKnows, CrashKnows
<1>7. ASSUME MeterKey
      PROVE  ScoreInv'
  <2>1. PICK lag \in LateFrames : GoesOn(lag.ms, lag.px) \/ Crashes(lag.ms)
    BY <1>7 DEF MeterKey
  <2>2. ~over /\ interrupted' = TRUE
    BY <1>7 DEF MeterKey
  <2>3. lag.ms \in Nat /\ lag.px \in Brings
    BY LateFramesAre DEF Brings
  <2> QED BY <2>1, <2>2, <2>3, GoesOnKnows, CrashKnows
<1>8. ASSUME MeterResize
      PROVE  ScoreInv'
  <2>1. /\ playing' = FALSE /\ meter' = MeterUpdate(meter, 0, run) /\ interrupted' = TRUE /\ doubtful' = doubtful
        /\ run' = run /\ over' = over /\ highestScore' = highestScore /\ best' = best
    BY <1>8 DEF MeterResize
  <2>2. HighestKnown(meter', best, doubtful)
    BY <2>1, <1>1, <1>2, UpdateKeepsBest
  <2>3. ASSUME over
        PROVE  RunKnown(meter', run) /\ meter'.shown = Shown(Score(run), meter'.units)
    <3>1. run <= run + Brought(0) /\ run <= run
      BY <1>1, <1>2
    <3>2. RunKnown(meter', run)
      BY <2>1, <2>3, <3>1, <1>1, <1>2, UpdateKnows
    <3>3. CASE meter.acheivement
      <4>1. meter'.shown = meter.shown /\ meter'.units = meter.units
        BY <2>1, <3>3, <1>1, <1>2, FlashedIs DEF MeterUpdate
      <4> QED BY <4>1, <3>2, <2>3, <1>1
    <3>4. CASE ~meter.acheivement
      BY <2>1, <3>2, <3>4, <1>1, CountedKnows DEF MeterUpdate
    <3> QED BY <3>3, <3>4
  <2> QED BY <2>1, <2>2, <2>3, <1>1 DEF ScoreInv
<1>9. ASSUME MeterRestart
      PROVE  ScoreInv'
  <2> DEFINE first == MeterUpdate(meter, 0, 0)
             reset == [first EXCEPT !.acheivement = FALSE]
  <2>1. /\ over /\ run' = 0 /\ over' = FALSE /\ highestScore' = highestScore /\ best' = best
        /\ meter' = MeterUpdate(reset, 0, 0) /\ interrupted' = FALSE /\ doubtful' = doubtful
    BY <1>9 DEF MeterRestart, MeterReset
  <2>2. 0 <= 0 + Brought(0) /\ 0 <= 0
    BY <1>2
  <2>3. RunKnown(meter, 0)
    BY <2>1, <1>1, LostKnows
  <2>4. RunKnown(first, 0) /\ first \in Meters /\ HighestKnown(first, best, doubtful)
    BY <2>2, <2>3, <1>1, <1>2, UpdateKnows, UpdateKeepsBest
  <2> HIDE DEF first
  <2>5. reset \in Meters /\ reset.acheivement = FALSE
        /\ reset.units = first.units /\ reset.highScore = first.highScore
    BY <2>4, QuietIs
  <2> HIDE DEF reset
  <2>6. RunKnown(reset, 0) /\ HighestKnown(reset, best, doubtful)
    BY <2>4, <2>5 DEF RunKnown, HighestKnown
  <2>7. RunKnown(meter', 0) /\ HighestKnown(meter', best, doubtful)
    BY <2>1, <2>2, <2>5, <2>6, <1>1, <1>2, UpdateKnows, UpdateKeepsBest
  <2> QED BY <2>1, <2>7, <1>1, <1>2 DEF ScoreInv
<1>10. CASE UNCHANGED meterVars
  BY <1>1, <1>10 DEF ScoreInv, meterVars, HighestKnown, RunKnown, FlashingSince
<1> QED BY <1>3, <1>4, <1>5, <1>6, <1>7, <1>8, <1>9, <1>10 DEF MeterNext

(* When the game is over the meter shows the score of the run, and the high
   score is that of the furthest one, unless that one was interrupted
   (Runner.gameOver, DistanceMeter), whatever the lengths and times are and
   however late a frame is, as long as a flash in frames that are not late ends
   before the next begins. *)
THEOREM CrashesAreScored == MeterSpec => []CrashIsScored
<1>1. MeterInit => ScoreInv
  BY InitScore
<1>2. ScoreInv /\ [MeterNext]_meterVars => ScoreInv'
  BY NextScore
<1>3. ScoreInv => CrashIsScored
  BY DEF ScoreInv, CrashIsScored, HighestKnown, RunKnown
<1> QED BY <1>1, <1>2, <1>3, PTL DEF MeterSpec

------------------------------------------------------------------------------

Nights == [timer : Nat, inverted : BOOLEAN, opacity : 0 .. FadeSteps, phase : Nat]

NightScore(px) == Score(px) > 0 /\ Score(px) % InvertDistance = 0

(* The page has been dark for so many frames since the score that began it. *)
DarkSince(n, px, start, frames) ==
    /\ n.timer = FrameMs * frames
    /\ px <= start + FramePx * (frames - 1)
    /\ px >= start + FramePx * (frames - 1) \/ px >= MaxRun

(* The moon of the last night is still to be seen. *)
FadingSince(n, px, start) ==
    /\ px >= start + FramePx * (NightFrames - 1) \/ px >= MaxRun
    /\ px <= start + FramePx * (NightFrames + FadeSteps - n.opacity)

DayKnows(n) == n \in Nights /\ (n.inverted <=> n.timer > 0)

(* No night is due that has not begun, and none begins before the moon of the
   last one has set. *)
NightKnows(n, px) ==
    /\ n.timer = 0 => ~NightScore(px)
    /\ n.timer > 0 => \E start \in 0 .. px, frames \in 1 .. NightFrames :
                         NightScore(start) /\ DarkSince(n, px, start, frames)
    /\ n.timer = 0 /\ n.opacity > 0 =>
          \E start \in 0 .. px : NightScore(start) /\ FadingSince(n, px, start)

(* The phase is of this night once its moon rises. *)
MoonKnows(n, count) ==
    /\ n.inverted /\ n.opacity = 0 => count > 0 /\ n.phase = (count - 1) % Phases
    /\ n.inverted /\ n.opacity > 0 => n.phase = count % Phases
    /\ ~n.inverted => n.phase = count % Phases

Counting(new, n, count) == IF new.inverted /\ ~n.inverted THEN count + 1 ELSE count

(* NightMode.update *)
LEMMA MoonSteps ==
    ASSUME NEW n \in Nights, NEW activated \in BOOLEAN
    PROVE  /\ MoonUpdate(n, activated) \in Nights
           /\ MoonUpdate(n, activated).timer = n.timer
           /\ MoonUpdate(n, activated).inverted = n.inverted
           /\ activated => MoonUpdate(n, activated).opacity > 0
           /\ activated /\ n.opacity = 0 =>
                 MoonUpdate(n, activated).phase = (n.phase + 1) % Phases
           /\ ~activated \/ n.opacity > 0 => MoonUpdate(n, activated).phase = n.phase
           /\ ~activated => MoonUpdate(n, activated).opacity =
                               IF n.opacity > 0 THEN n.opacity - 1 ELSE 0
<1> DEFINE moon == MoonUpdate(n, activated)
           phase == IF activated /\ n.opacity = 0 THEN (n.phase + 1) % Phases ELSE n.phase
           opacity == IF activated /\ n.opacity < FadeSteps THEN n.opacity + 1
                      ELSE IF n.opacity > 0 THEN n.opacity - 1 ELSE 0
<1>1. n.opacity \in 0 .. FadeSteps /\ n.phase \in Nat /\ FadeSteps \in Nat /\ FadeSteps > 1
      /\ Phases \in Nat \ {0}
  BY NumbersAreNat, NightNumbers DEF Nights
<1>2. opacity \in 0 .. FadeSteps /\ (activated => opacity > 0)
      /\ (~activated => opacity = IF n.opacity > 0 THEN n.opacity - 1 ELSE 0)
  BY <1>1
<1>3. phase \in Nat
  <2>1. (n.phase + 1) % Phases \in Nat
    BY <1>1
  <2> QED BY <2>1, <1>1
<1>4. moon = [n EXCEPT !.phase = phase, !.opacity = opacity]
  <2>1. moon = [n EXCEPT !.phase = phase,
                         !.opacity = IF activated /\ @ < FadeSteps THEN @ + 1
                                     ELSE IF @ > 0 THEN @ - 1 ELSE 0]
    BY DEF MoonUpdate
  <2> HIDE DEF moon, phase
  <2> QED BY <2>1 DEF Nights
<1>5. /\ activated /\ n.opacity = 0 => phase = (n.phase + 1) % Phases
      /\ ~activated \/ n.opacity > 0 => phase = n.phase
  BY <1>1
<1> HIDE DEF phase, opacity, moon
<1>6. moon \in Nights /\ moon.timer = n.timer /\ moon.inverted = n.inverted
      /\ moon.phase = phase /\ moon.opacity = opacity
  BY <1>2, <1>3, <1>4 DEF Nights
<1> QED BY <1>2, <1>5, <1>6 DEF moon

(* invertTimer *)
LEMMA NightSteps ==
    ASSUME NEW n \in Nights, NEW dt \in Nat, NEW points,
           NEW new, new = NightUpdate(n, dt, points)
    PROVE  /\ new \in Nights /\ new.opacity = n.opacity /\ new.phase = n.phase
           /\ n.timer > InvertFadeDuration => new.timer = 0 /\ ~new.inverted
           /\ n.timer > 0 /\ ~(n.timer > InvertFadeDuration) =>
                 new.timer = n.timer + dt /\ new.inverted = n.inverted
           /\ n.timer = 0 /\ points > 0 /\ points % InvertDistance = 0 =>
                 new.timer = dt /\ new.inverted
           /\ n.timer = 0 /\ ~(points > 0 /\ points % InvertDistance = 0) => new = n
<1>1. n.timer \in Nat /\ InvertFadeDuration \in Nat
  BY NumbersAreNat DEF Nights
<1>2. CASE n.timer > InvertFadeDuration
  <2>1. new = [n EXCEPT !.timer = 0, !.inverted = FALSE]
    BY <1>2 DEF NightUpdate
  <2>2. /\ new \in Nights /\ new.timer = 0 /\ new.inverted = FALSE
        /\ new.opacity = n.opacity /\ new.phase = n.phase
    <3>1. FALSE \in BOOLEAN /\ 0 \in Nat
      OBVIOUS
    <3> QED BY <2>1, <3>1 DEF Nights
  <2> QED BY <2>2, <1>1, <1>2
<1>3. CASE n.timer > 0 /\ ~(n.timer > InvertFadeDuration)
  <2>1. new = [n EXCEPT !.timer = @ + dt]
    BY <1>3 DEF NightUpdate
  <2>2. /\ new \in Nights /\ new.timer = n.timer + dt /\ new.inverted = n.inverted
        /\ new.opacity = n.opacity /\ new.phase = n.phase
    <3> QED BY <2>1, <1>1 DEF Nights
  <2> QED BY <2>2, <1>1, <1>3
<1>4. CASE n.timer = 0 /\ points > 0 /\ points % InvertDistance = 0
  <2>1. new = [n EXCEPT !.timer = @ + dt, !.inverted = TRUE]
    BY <1>1, <1>4 DEF NightUpdate
  <2>2. /\ new \in Nights /\ new.timer = n.timer + dt /\ new.inverted = TRUE
        /\ new.opacity = n.opacity /\ new.phase = n.phase
    <3>1. TRUE \in BOOLEAN /\ n.timer + dt \in Nat
      BY <1>1
    <3> QED BY <2>1, <3>1 DEF Nights
  <2> QED BY <2>2, <1>1, <1>4
<1>5. CASE n.timer = 0 /\ ~(points > 0 /\ points % InvertDistance = 0)
  <2>1. new = n
    BY <1>1, <1>5 DEF NightUpdate
  <2> QED BY <2>1, <1>1, <1>5 DEF Nights
<1> QED BY <1>1, <1>2, <1>3, <1>4, <1>5

(* What a frame does that begins a night only when one is due and no moon is
   to be seen. *)
LEMMA NightTurns ==
    ASSUME NEW n, DayKnows(n), NEW dt \in {0, FrameMs}, NEW px \in Nat, NEW count \in Nat,
           n.timer = 0 /\ NightScore(px) => dt = FrameMs /\ n.opacity = 0,
           NEW new, new = NightUpdate(MoonUpdate(n, n.inverted), dt, Score(px))
    PROVE  /\ DayKnows(new)
           /\ MoonKnows(n, count) => MoonKnows(new, Counting(new, n, count))
<1> DEFINE moon == MoonUpdate(n, n.inverted)
<1>1. /\ n \in Nights /\ n.inverted \in BOOLEAN /\ (n.inverted <=> n.timer > 0)
      /\ n.timer \in Nat /\ n.opacity \in Nat /\ n.phase \in Nat
      /\ dt \in Nat /\ FrameMs > 0 /\ InvertFadeDuration \in Nat
  BY NumbersAreNat DEF DayKnows, Nights
<1>2. /\ moon \in Nights /\ moon.timer = n.timer /\ moon.inverted = n.inverted
      /\ (n.inverted => moon.opacity > 0)
      /\ (n.inverted /\ n.opacity = 0 => moon.phase = (n.phase + 1) % Phases)
      /\ (~n.inverted \/ n.opacity > 0 => moon.phase = n.phase)
      /\ (~n.inverted => moon.opacity = IF n.opacity > 0 THEN n.opacity - 1 ELSE 0)
  BY <1>1, MoonSteps
<1> HIDE DEF moon
<1>3. new = NightUpdate(moon, dt, Score(px))
  BY DEF moon
<1>4. /\ new \in Nights /\ new.opacity = moon.opacity /\ new.phase = moon.phase
      /\ (n.timer > InvertFadeDuration => new.timer = 0 /\ ~new.inverted)
      /\ (n.timer > 0 /\ ~(n.timer > InvertFadeDuration) =>
            new.timer = n.timer + dt /\ new.inverted = n.inverted)
      /\ (n.timer = 0 /\ NightScore(px) => new.timer = dt /\ new.inverted)
      /\ (n.timer = 0 /\ ~NightScore(px) => new = moon)
  <2> DEFINE points == Score(px)
  <2>1. NightScore(px) <=> points > 0 /\ points % InvertDistance = 0
    BY DEF NightScore
  <2>2. new = NightUpdate(moon, dt, points)
    BY <1>3
  <2> HIDE DEF points
  <2>3. dt \in Nat /\ moon \in Nights
    BY <1>1, <1>2
  <2>4. new \in Nights /\ new.opacity = moon.opacity /\ new.phase = moon.phase
    BY <2>2, <2>3, NightSteps
  <2>5. moon.timer > InvertFadeDuration => new.timer = 0 /\ ~new.inverted
    BY <2>2, <2>3, NightSteps
  <2>6. moon.timer > 0 /\ ~(moon.timer > InvertFadeDuration) =>
           new.timer = moon.timer + dt /\ new.inverted = moon.inverted
    BY <2>2, <2>3, NightSteps
  <2>7. moon.timer = 0 /\ points > 0 /\ points % InvertDistance = 0 =>
           new.timer = dt /\ new.inverted
    BY <2>2, <2>3, NightSteps
  <2>8. moon.timer = 0 /\ ~(points > 0 /\ points % InvertDistance = 0) => new = moon
    BY <2>2, <2>3, NightSteps
  <2>9. moon.timer = n.timer /\ moon.inverted = n.inverted
    BY <1>2
  <2> QED BY <2>1, <2>4, <2>5, <2>6, <2>7, <2>8, <2>9
<1>5. DayKnows(new)
  <2>1. new.inverted <=> new.timer > 0
    <3>1. CASE n.timer > InvertFadeDuration
      BY <3>1, <1>4
    <3>2. CASE n.timer > 0 /\ ~(n.timer > InvertFadeDuration)
      BY <3>2, <1>1, <1>4
    <3>3. CASE n.timer = 0 /\ NightScore(px)
      BY <3>3, <1>1, <1>4
    <3>4. CASE n.timer = 0 /\ ~NightScore(px)
      BY <3>4, <1>1, <1>2, <1>4
    <3> QED BY <3>1, <3>2, <3>3, <3>4, <1>1
  <2> QED BY <2>1, <1>4 DEF DayKnows
<1>6. ASSUME MoonKnows(n, count)
      PROVE  MoonKnows(new, Counting(new, n, count))
  <2>1. CASE n.inverted
    <3>1. moon.phase = count % Phases
      <4>1. CASE n.opacity = 0
        <5>1. count \in Nat \ {0} /\ n.phase = (count - 1) % Phases
          BY <1>6, <2>1, <4>1 DEF MoonKnows
        <5>2. (((count - 1) % Phases) + 1) % Phases = count % Phases
          BY <5>1, PhaseGrows, NumbersAreNat
        <5> QED BY <5>1, <5>2, <2>1, <4>1, <1>2
      <4>2. CASE n.opacity > 0
        BY <1>6, <2>1, <4>2, <1>2 DEF MoonKnows
      <4> QED BY <4>1, <4>2, <1>1
    <3>2. Counting(new, n, count) = count
      BY <2>1 DEF Counting
    <3>3. new.phase = count % Phases
      BY <3>1, <1>4
    <3>4. moon.opacity > 0
      BY <2>1, <1>2
    <3>5. new.opacity # 0
      BY <3>4, <1>4
    <3> QED BY <3>2, <3>3, <3>5 DEF MoonKnows
  <2>2. CASE ~n.inverted /\ ~NightScore(px)
    <3>1. new = moon /\ n.timer = 0
      BY <2>2, <1>1, <1>4
    <3>2. Counting(new, n, count) = count
      BY <3>1, <2>2, <1>2 DEF Counting
    <3> QED BY <3>1, <3>2, <2>2, <1>2, <1>6 DEF MoonKnows
  <2>3. CASE ~n.inverted /\ NightScore(px)
    <3>1. n.timer = 0 /\ new.inverted /\ n.opacity = 0 /\ new.opacity = 0
      BY <2>3, <1>1, <1>2, <1>4
    <3>2. Counting(new, n, count) = count + 1 /\ count + 1 > 0 /\ count + 1 - 1 = count
      BY <3>1, <2>3 DEF Counting
    <3>3. new.phase = count % Phases
      BY <2>3, <1>2, <1>4, <1>6 DEF MoonKnows
    <3> QED BY <3>1, <3>2, <3>3 DEF MoonKnows
  <2> QED BY <2>1, <2>2, <2>3, <1>1
<1> QED BY <1>5, <1>6

(* No night begins while the moon of the last one fades. *)
LEMMA FadingIsNoNight ==
    ASSUME NEW n \in Nights, NEW px \in 0 .. Caps, NEW start \in 0 .. px,
           NightScore(start), FadingSince(n, px, start)
    PROVE  ~NightScore(px)
<1>1. px \in Nat /\ start \in Nat /\ InvertDistance \in Nat \ {0} /\ FramePx \in Nat
      /\ NightFrames \in Nat /\ FadeSteps \in Nat /\ n.opacity \in 0 .. FadeSteps
  BY NumbersAreNat, FramesAreNat DEF Nights
<1>2. CASE px >= MaxRun
  <2>1. px \in MaxRun .. MaxRun + FramePx
    BY <1>1, <1>2, NumbersAreNat DEF Caps
  <2> QED BY <2>1, NightNumbers DEF NightScore
<1>3. CASE px >= start + FramePx * (NightFrames - 1)
  <2>1. /\ FramePx * (NightFrames - 1) \in Int
        /\ FramePx * (NightFrames + FadeSteps - n.opacity) <=
              FramePx * (NightFrames + FadeSteps)
        /\ FramePx * (NightFrames + FadeSteps - n.opacity) \in Int
        /\ FramePx * (NightFrames + FadeSteps) \in Int
    <3>1. NightFrames - 1 \in Int /\ NightFrames + FadeSteps - n.opacity \in Int
          /\ NightFrames + FadeSteps \in Int
          /\ NightFrames + FadeSteps - n.opacity <= NightFrames + FadeSteps
      BY <1>1
    <3> QED BY <3>1, <1>1, MultiplesGrow
  <2>2. px >= start + 40 /\ px <= start + 40 * (InvertDistance - 1)
    BY <2>1, <1>1, <1>3, NightNumbers DEF FadingSince
  <2> QED BY <2>2, <1>1, NoMultiple DEF NightScore
<1> QED BY <1>2, <1>3 DEF FadingSince

NightInv ==
    /\ run \in Nat /\ nights \in Nat
    /\ over \in BOOLEAN /\ interrupted \in BOOLEAN /\ (over => ~playing)
    /\ night \in Nights /\ (night.timer > 0 => night.inverted)
    /\ ~interrupted => run \in 0 .. Caps /\ DayKnows(night) /\ MoonKnows(night, nights)
    /\ ~interrupted /\ ~over => NightKnows(night, run)

(* A frame of a game that goes on. *)
LEMMA NightKeeps ==
    ASSUME NEW n, DayKnows(n), NEW old \in 0 .. Caps, NEW px \in 0 .. Caps,
           NightKnows(n, old), NEW dt \in {0, FrameMs},
           \/ dt = 0 /\ px = old
           \/ dt = FrameMs /\ old < MaxRun /\ px = old + FramePx
           \/ dt = FrameMs /\ old >= MaxRun /\ px = old,
           NEW new, new = NightUpdate(MoonUpdate(n, n.inverted), dt, Score(px))
    PROVE  /\ n.timer = 0 /\ NightScore(px) => dt = FrameMs /\ n.opacity = 0
           /\ NightKnows(new, px)
<1> DEFINE moon == MoonUpdate(n, n.inverted)
           points == Score(px)
<1>1. /\ n \in Nights /\ n.inverted \in BOOLEAN /\ (n.inverted <=> n.timer > 0)
      /\ n.timer \in Nat /\ n.opacity \in 0 .. FadeSteps
      /\ dt \in Nat /\ FrameMs \in Nat \ {0} /\ InvertFadeDuration \in Nat
      /\ FramePx \in Nat \ {0} /\ MaxRun \in Nat /\ FadeSteps \in Nat
      /\ NightFrames \in Nat \ {0} /\ old \in Nat /\ px \in Nat
  BY NumbersAreNat, FramesAreNat DEF DayKnows, Nights
<1>2. moon \in Nights /\ moon.timer = n.timer
      /\ (~n.inverted => moon.opacity = IF n.opacity > 0 THEN n.opacity - 1 ELSE 0)
  BY <1>1, MoonSteps
<1> HIDE DEF moon
<1>3. moon \in Nights /\ dt \in Nat /\ new = NightUpdate(moon, dt, points)
  BY <1>1, <1>2 DEF moon
<1>4. NightScore(px) <=> points > 0 /\ points % InvertDistance = 0
  BY DEF NightScore
<1> HIDE DEF points
<1>5. old <= px /\ px <= old + FramePx
  BY <1>1
<1>6. new \in Nights /\ new.opacity = moon.opacity /\ new.opacity \in 0 .. FadeSteps
  <2>1. new \in Nights /\ new.opacity = moon.opacity
    BY <1>3, NightSteps
  <2> QED BY <2>1 DEF Nights
<1>7. ASSUME n.timer = 0, n.opacity > 0
      PROVE  /\ ~NightScore(px)
             /\ \E start \in 0 .. px : NightScore(start) /\ FadingSince(new, px, start)
  <2>1. PICK start \in 0 .. old : NightScore(start) /\ FadingSince(n, old, start)
    BY <1>7 DEF NightKnows
  <2>2. new.opacity = n.opacity - 1
    BY <1>1, <1>2, <1>6, <1>7
  <2> DEFINE left == NightFrames + FadeSteps - n.opacity
             least == FramePx * (NightFrames - 1)
  <2>3. NightFrames + FadeSteps - new.opacity = left + 1 /\ left \in Int
    BY <1>1, <2>2
  <2>4. FramePx * (left + 1) = FramePx * left + FramePx /\ FramePx * left \in Int
    BY <2>3, <1>1, MultiplesAdd
  <2>5. least \in Int
    BY <1>1
  <2>6. (old >= start + least \/ old >= MaxRun) /\ old <= start + FramePx * left
    BY <2>1 DEF FadingSince
  <2> HIDE DEF left, least
  <2>7. px >= start + least \/ px >= MaxRun
    BY <2>5, <2>6, <1>1, <1>5
  <2>8. px <= start + FramePx * (left + 1)
    BY <2>4, <2>6, <1>1, <1>5
  <2>9. FadingSince(new, px, start)
    BY <2>3, <2>7, <2>8 DEF FadingSince, least
  <2>10. start \in 0 .. px
    BY <1>1, <1>5
  <2> QED BY <2>1, <2>9, <2>10, <1>6, FadingIsNoNight
<1>8. n.timer = 0 /\ dt = 0 => ~NightScore(px)
  BY <1>1 DEF NightKnows
<1>9. n.timer = 0 /\ NightScore(px) => dt = FrameMs /\ n.opacity = 0
  BY <1>1, <1>7, <1>8
<1>10. CASE n.timer = 0 /\ NightScore(px)
  <2>1. dt = FrameMs /\ new.timer = FrameMs /\ FrameMs > 0
    <3>1. new.timer = dt
      <4>1. moon.timer = 0 /\ points > 0 /\ points % InvertDistance = 0
        BY <1>2, <1>4, <1>10
      <4> QED BY <4>1, <1>3, NightSteps
    <3> QED BY <3>1, <1>1, <1>9, <1>10
  <2>2. DarkSince(new, px, px, 1)
    <3>1. FrameMs * 1 = FrameMs /\ FramePx * (1 - 1) = 0
      BY <1>1
    <3> QED BY <3>1, <2>1, <1>1 DEF DarkSince
  <2>3. px \in 0 .. px /\ 1 \in 1 .. NightFrames
    BY <1>1
  <2> QED BY <2>1, <2>2, <2>3, <1>9, <1>10 DEF NightKnows
<1>11. CASE n.timer = 0 /\ ~NightScore(px)
  <2>1. new = moon
    <3>1. moon.timer = 0 /\ ~(points > 0 /\ points % InvertDistance = 0)
      BY <1>2, <1>4, <1>11
    <3> QED BY <3>1, <1>3, NightSteps
  <2>2. new.timer = 0 /\ (new.opacity > 0 => n.opacity > 0)
    BY <2>1, <1>1, <1>2, <1>11
  <2> QED BY <2>2, <1>7, <1>9, <1>11 DEF NightKnows
<1>12. CASE n.timer > 0
  <2>1. PICK start \in 0 .. old, frames \in 1 .. NightFrames :
           NightScore(start) /\ DarkSince(n, old, start, frames)
    BY <1>12 DEF NightKnows
  <2>2. /\ n.timer = FrameMs * frames /\ old <= start + FramePx * (frames - 1)
        /\ old >= start + FramePx * (frames - 1) \/ old >= MaxRun
        /\ start \in Nat /\ frames \in Nat \ {0} /\ frames <= NightFrames
    BY <2>1, <1>1 DEF DarkSince
  <2>3. FramePx * (frames - 1) \in Int /\ FramePx * frames = FramePx * (frames - 1) + FramePx
    <3>1. frames - 1 \in Int /\ frames - 1 + 1 = frames
      BY <2>2
    <3> QED BY <3>1, <1>1, MultiplesAdd
  <2>4. start \in 0 .. px /\ px <= start + FramePx * frames
    BY <2>2, <2>3, <1>1, <1>5
  <2>5. CASE n.timer > InvertFadeDuration
    <3>1. new.timer = 0
      <4>1. moon.timer > InvertFadeDuration
        BY <2>5, <1>2
      <4> QED BY <4>1, <1>3, NightSteps
    <3>2. frames = NightFrames
      <4>1. frames >= NightFrames
        BY <2>2, <2>5, FramesAreNat
      <4> QED BY <4>1, <2>2, <1>1
    <3>3. px >= start + FramePx * (NightFrames - 1) \/ px >= MaxRun
      BY <3>2, <2>2, <2>3, <1>1, <1>5
    <3>4. px <= start + FramePx * (NightFrames + FadeSteps - new.opacity)
      <4> DEFINE left == NightFrames + FadeSteps - new.opacity
      <4>1. left \in Int /\ NightFrames <= left
        BY <1>1, <1>6
      <4>2. FramePx * NightFrames <= FramePx * left /\ FramePx * NightFrames \in Int
            /\ FramePx * left \in Int
        BY <4>1, <1>1, MultiplesGrow
      <4> HIDE DEF left
      <4>3. px <= start + FramePx * left
        BY <4>2, <3>2, <2>2, <2>4, <1>1
      <4> QED BY <4>3 DEF left
    <3>5. FadingSince(new, px, start)
      BY <3>3, <3>4 DEF FadingSince
    <3>6. ~NightScore(px)
      BY <3>5, <2>1, <2>4, <1>6, FadingIsNoNight
    <3> QED BY <3>1, <3>5, <3>6, <2>1, <2>4, <1>9 DEF NightKnows
  <2>6. CASE ~(n.timer > InvertFadeDuration)
    <3>1. new.timer = n.timer + dt
      <4>1. moon.timer > 0 /\ ~(moon.timer > InvertFadeDuration) =>
               new.timer = moon.timer + dt /\ new.inverted = moon.inverted
        BY <1>3, NightSteps
      <4> QED BY <4>1, <2>6, <1>2, <1>12
    <3>2. CASE dt = 0
      <4>1. new.timer = n.timer /\ px = old
        BY <3>1, <3>2, <1>1
      <4>2. DarkSince(new, px, start, frames)
        BY <4>1, <2>1 DEF DarkSince
      <4> QED BY <4>1, <4>2, <2>1, <2>4, <1>9, <1>12 DEF NightKnows
    <3>3. CASE dt = FrameMs
      <4>1. new.timer = FrameMs * (frames + 1)
        BY <3>1, <3>3, <2>2, <1>1, MultiplesAdd
      <4>2. frames + 1 \in 1 .. NightFrames
        <5>1. frames <= NightFrames - 1
          BY <2>2, <2>6, <1>1, FramesAreNat
        <5> QED BY <5>1, <2>2, <1>1
      <4>3. px >= start + FramePx * frames \/ px >= MaxRun
        BY <3>3, <2>2, <2>3, <1>1
      <4>4. frames + 1 - 1 = frames
        BY <2>2
      <4>5. DarkSince(new, px, start, frames + 1)
        BY <4>1, <4>3, <4>4, <2>4 DEF DarkSince
      <4>6. new.timer > 0
        BY <3>1, <3>3, <1>1, <1>12
      <4>7. new.timer # 0
        BY <4>6
      <4> QED BY <4>2, <4>5, <4>6, <4>7, <2>1, <2>4, <1>9 DEF NightKnows
    <3> QED BY <3>2, <3>3
  <2> QED BY <2>5, <2>6
<1> QED BY <1>1, <1>10, <1>11, <1>12

LEMMA InitNight == MeterInit => NightInv
<1> SUFFICES ASSUME MeterInit PROVE NightInv
  OBVIOUS
<1>1. run = 0 /\ over = FALSE /\ interrupted = FALSE /\ nights = 0 /\ night = Day
  BY DEF MeterInit
<1>2. 0 \in 0 .. Caps /\ 0 \in 0 .. FadeSteps /\ 0 % Phases = 0
  BY NumbersAreNat
<1>3. Score(0) = 0
  BY DEF Score, RoundDiv
<1>4. Day \in Nights /\ Day.timer = 0 /\ Day.inverted = FALSE /\ Day.opacity = 0
      /\ Day.phase = 0
  BY <1>2 DEF Day, Nights
<1>5. DayKnows(Day) /\ NightKnows(Day, 0) /\ MoonKnows(Day, 0)
  <2> HIDE DEF Day
  <2> QED BY <1>2, <1>3, <1>4 DEF DayKnows, NightKnows, MoonKnows, NightScore
<1>6. ~(night.timer > 0) /\ night \in Nights
  BY <1>1, <1>4
<1> HIDE DEF Day
<1> QED BY <1>1, <1>2, <1>5, <1>6 DEF NightInv

(* What holds of the night after any frame, *)
LEMMA AnyFrameKnows ==
    ASSUME NightInv, NEW dt \in Nat, NEW px \in Nat, NEW m, Scored(dt, px, m)
    PROVE  /\ run' = px /\ nights' \in Nat
           /\ night' = NightUpdate(MoonUpdate(night, night.inverted), dt, Score(px))
           /\ night' \in Nights /\ (night'.timer > 0 => night'.inverted)
<1> DEFINE moon == MoonUpdate(night, night.inverted)
           points == Score(px)
<1>1. night \in Nights /\ night.inverted \in BOOLEAN /\ night.timer \in Nat
      /\ (night.timer > 0 => night.inverted) /\ nights \in Nat
  BY DEF NightInv, Nights
<1>2. run' = px /\ night' = NightUpdate(moon, dt, points) /\ nights' \in Nat
  BY <1>1 DEF Scored
<1>3. moon \in Nights /\ moon.timer = night.timer /\ moon.inverted = night.inverted
  BY <1>1, MoonSteps
<1> HIDE DEF moon, points
<1>4. night' \in Nights
  BY <1>2, <1>3, NightSteps
<1>5. CASE moon.timer > InvertFadeDuration
  <2>1. night'.timer = 0
    BY <1>2, <1>3, <1>5, NightSteps
  <2> QED BY <2>1, <1>2, <1>4 DEF moon, points
<1>6. CASE moon.timer > 0 /\ ~(moon.timer > InvertFadeDuration)
  <2>1. night'.inverted = moon.inverted
    BY <1>2, <1>3, <1>6, NightSteps
  <2> QED BY <2>1, <1>1, <1>2, <1>3, <1>4, <1>6 DEF moon, points
<1>7. CASE moon.timer = 0 /\ points > 0 /\ points % InvertDistance = 0
  <2>1. night'.inverted
    BY <1>2, <1>3, <1>7, NightSteps
  <2> QED BY <2>1, <1>2, <1>4 DEF moon, points
<1>8. CASE moon.timer = 0 /\ ~(points > 0 /\ points % InvertDistance = 0)
  <2>1. night' = moon
    BY <1>2, <1>3, <1>8, NightSteps
  <2>2. ~(night'.timer > 0)
    BY <2>1, <1>8
  <2> QED BY <2>2, <1>2, <1>4 DEF moon, points
<1>9. InvertFadeDuration \in Nat
  BY NumbersAreNat
<1> QED BY <1>1, <1>3, <1>5, <1>6, <1>7, <1>8, <1>9

(* and after one of a game that nothing interrupted. *)
LEMMA FrameKnows ==
    ASSUME NightInv, ~interrupted, NEW dt \in {0, FrameMs}, NEW px \in 0 .. Caps, NEW m,
           Scored(dt, px, m),
           night.timer = 0 /\ NightScore(px) => dt = FrameMs /\ night.opacity = 0
    PROVE  DayKnows(night') /\ MoonKnows(night', nights')
<1>1. /\ nights \in Nat /\ DayKnows(night) /\ MoonKnows(night, nights)
  BY DEF NightInv
<1>2. /\ nights' = Counting(night', night, nights)
      /\ night' = NightUpdate(MoonUpdate(night, night.inverted), dt, Score(px))
  BY DEF Scored, Counting
<1>3. px \in Nat
  BY NumbersAreNat
<1> QED BY <1>1, <1>2, <1>3, NightTurns

(* A frame that a game goes on after. *)
LEMMA GoesOnNight ==
    ASSUME NightInv, ~over, NEW dt \in Nat, NEW px \in Nat, GoesOn(dt, px),
           interrupted' \in BOOLEAN,
           \/ interrupted'
           \/ interrupted' = interrupted
              /\ ((dt = 0 /\ px = 0) \/ (dt = FrameMs /\ px = FramePx))
    PROVE  NightInv'
<1> DEFINE new == IF run < MaxRun THEN run + px ELSE run
<1>1. run \in Nat /\ over = FALSE /\ interrupted \in BOOLEAN
  BY DEF NightInv
<1>2. Scored(dt, new, meter) /\ over' = FALSE /\ new \in Nat
  BY <1>1 DEF GoesOn
<1>3. ASSUME ~interrupted'
      PROVE  /\ new \in 0 .. Caps /\ DayKnows(night') /\ MoonKnows(night', nights')
             /\ NightKnows(night', new)
  <2>1. ~interrupted /\ ((dt = 0 /\ px = 0) \/ (dt = FrameMs /\ px = FramePx))
    BY <1>3
  <2>2. run \in 0 .. Caps /\ DayKnows(night) /\ NightKnows(night, run)
    BY <2>1, <1>1 DEF NightInv
  <2>3. /\ dt \in {0, FrameMs} /\ new \in 0 .. Caps
        /\ \/ dt = 0 /\ new = run
           \/ dt = FrameMs /\ run < MaxRun /\ new = run + FramePx
           \/ dt = FrameMs /\ run >= MaxRun /\ new = run
    BY <2>1, <2>2, <1>1, NumbersAreNat DEF Caps
  <2> HIDE DEF new
  <2>4. night' = NightUpdate(MoonUpdate(night, night.inverted), dt, Score(new))
    BY <1>2, AnyFrameKnows
  <2>5. /\ night.timer = 0 /\ NightScore(new) => dt = FrameMs /\ night.opacity = 0
        /\ NightKnows(night', new)
    BY <2>2, <2>3, <2>4, NightKeeps
  <2>6. DayKnows(night') /\ MoonKnows(night', nights')
    BY <2>1, <2>3, <2>5, <1>2, FrameKnows
  <2> QED BY <2>3, <2>5, <2>6
<1> HIDE DEF new
<1>4. /\ run' = new /\ nights' \in Nat
      /\ night' \in Nights /\ (night'.timer > 0 => night'.inverted)
  BY <1>2, AnyFrameKnows
<1> QED BY <1>2, <1>3, <1>4 DEF NightInv

(* A frame that ends in a collision. *)
LEMMA CrashNight ==
    ASSUME NightInv, ~over, NEW dt \in Nat, Crashes(dt), interrupted' \in BOOLEAN,
           interrupted' \/ (interrupted' = interrupted /\ dt \in {0, FrameMs})
    PROVE  NightInv'
<1>1. run \in Nat /\ over = FALSE /\ interrupted \in BOOLEAN
  BY DEF NightInv
<1>2. over' = TRUE /\ playing' = FALSE /\ Scored(dt, run, MeterOver(meter, run))
  BY DEF Crashes
<1>3. /\ run' = run /\ nights' \in Nat
      /\ night' \in Nights /\ (night'.timer > 0 => night'.inverted)
  BY <1>1, <1>2, AnyFrameKnows
<1>4. ASSUME ~interrupted'
      PROVE  run \in 0 .. Caps /\ DayKnows(night') /\ MoonKnows(night', nights')
  <2>1. ~interrupted /\ dt \in {0, FrameMs}
    BY <1>4
  <2>2. run \in 0 .. Caps /\ NightKnows(night, run)
    BY <2>1, <1>1 DEF NightInv
  <2>3. night.timer = 0 => ~NightScore(run)
    BY <2>2 DEF NightKnows
  <2> QED BY <2>1, <2>2, <2>3, <1>2, FrameKnows
<1> QED BY <1>1, <1>2, <1>3, <1>4 DEF NightInv

(* The night keeps its time in every step. *)
LEMMA NextNight == NightInv /\ [MeterNext]_meterVars => NightInv'
<1> SUFFICES ASSUME NightInv, [MeterNext]_meterVars PROVE NightInv'
  OBVIOUS
<1>1. /\ run \in Nat /\ nights \in Nat /\ over \in BOOLEAN /\ interrupted \in BOOLEAN
      /\ (over => ~playing)
      /\ night \in Nights /\ (night.timer > 0 => night.inverted)
  BY DEF NightInv
<1>2. 0 \in Nat /\ FrameMs \in Nat /\ FramePx \in Nat /\ 0 \in {0, FrameMs}
      /\ FrameMs \in {0, FrameMs}
  BY NumbersAreNat
<1>3. ASSUME NEW passed \in BOOLEAN, MeterFrame(passed)
      PROVE  NightInv'
  <2>1. interrupted' = interrupted /\ ~over
        /\ IF passed THEN GoesOn(FrameMs, FramePx) ELSE GoesOn(0, 0)
    BY <1>1, <1>3 DEF MeterFrame
  <2>2. CASE passed
    BY <2>1, <2>2, <1>1, <1>2, GoesOnNight
  <2>3. CASE ~passed
    BY <2>1, <2>3, <1>1, <1>2, GoesOnNight
  <2> QED BY <2>2, <2>3
<1>4. ASSUME NEW passed \in BOOLEAN, MeterGameOver(passed)
      PROVE  NightInv'
  <2> DEFINE dt == IF passed THEN FrameMs ELSE 0
  <2>1. interrupted' = interrupted /\ ~over /\ Crashes(dt) /\ dt \in Nat /\ dt \in {0, FrameMs}
    BY <1>1, <1>2, <1>4 DEF MeterGameOver
  <2> HIDE DEF dt
  <2> QED BY <2>1, <1>1, CrashNight
<1>5. ASSUME MeterLeave
      PROVE  NightInv'
  BY <1>5 DEF NightInv, MeterLeave
<1>6. ASSUME MeterReturn
      PROVE  NightInv'
  <2>1. ~over /\ interrupted' = interrupted /\ (GoesOn(0, 0) \/ Crashes(0))
    BY <1>6 DEF MeterReturn
  <2> QED BY <2>1, <1>1, <1>2, GoesOnNight, CrashNight
<1>7. ASSUME MeterKey
      PROVE  NightInv'
  <2>1. PICK lag \in LateFrames : GoesOn(lag.ms, lag.px) \/ Crashes(lag.ms)
    BY <1>7 DEF MeterKey
  <2>2. ~over /\ interrupted' = TRUE /\ lag.ms \in Nat /\ lag.px \in Nat
    BY <1>7, LateFramesAre DEF MeterKey
  <2> QED BY <2>1, <2>2, GoesOnNight, CrashNight
<1>8. ASSUME MeterResize
      PROVE  NightInv'
  <2>1. /\ night' = MoonUpdate(night, FALSE) /\ interrupted' = TRUE /\ playing' = FALSE
        /\ run' = run /\ over' = over /\ nights' = nights
    BY <1>8 DEF MeterResize
  <2>2. night' \in Nights /\ night'.timer = night.timer /\ night'.inverted = night.inverted
    BY <2>1, <1>1, MoonSteps
  <2> QED BY <2>1, <2>2, <1>1 DEF NightInv
<1>9. ASSUME MeterRestart
      PROVE  NightInv'
  <2>1. /\ night' = MoonUpdate(Day, FALSE) /\ interrupted' = FALSE /\ over' = FALSE
        /\ run' = 0 /\ nights' = 0
    BY <1>9 DEF MeterRestart, NightReset
  <2>2. 0 \in 0 .. Caps /\ 0 \in 0 .. FadeSteps /\ 0 % Phases = 0
    BY NumbersAreNat
  <2>3. Day \in Nights /\ Day.timer = 0 /\ Day.inverted = FALSE /\ Day.opacity = 0
        /\ Day.phase = 0
    BY <2>2 DEF Day, Nights
  <2> HIDE DEF Day
  <2>4. /\ night' \in Nights /\ night'.timer = 0 /\ night'.inverted = FALSE
        /\ night'.opacity = 0 /\ night'.phase = 0
    <3>1. FALSE \in BOOLEAN /\ ~(0 > 0)
      OBVIOUS
    <3> QED BY <2>1, <2>3, <3>1, MoonSteps
  <2>5. Score(0) = 0
    BY DEF Score, RoundDiv
  <2>6. DayKnows(night') /\ NightKnows(night', 0) /\ MoonKnows(night', 0)
    BY <2>2, <2>4, <2>5 DEF DayKnows, NightKnows, MoonKnows, NightScore
  <2>7. ~(night'.timer > 0)
    BY <2>4
  <2> QED BY <2>1, <2>2, <2>4, <2>6, <2>7 DEF NightInv
<1>10. CASE UNCHANGED meterVars
  BY <1>10 DEF NightInv, meterVars
<1> QED BY <1>3, <1>4, <1>5, <1>6, <1>7, <1>8, <1>9, <1>10 DEF MeterNext

(* A timer that ends a night finds the page dark, and in a game that nothing
   interrupted the page is dark for as long and the moon in the sky is of this
   night's phase (Runner.update, NightMode.update): no second frame at the same
   score, pause, crash or restart leaves it dark, as long as a night and the
   fading of its moon are over before the next. *)
THEOREM NightsAreTimed == MeterSpec => []NightIsTimed
<1>1. MeterInit => NightInv
  BY InitNight
<1>2. NightInv /\ [MeterNext]_meterVars => NightInv'
  BY NextNight
<1>3. NightInv => NightIsTimed
  <2> SUFFICES ASSUME NightInv PROVE NightIsTimed
    OBVIOUS
  <2>1. /\ night.inverted \in BOOLEAN /\ night.opacity \in Nat /\ interrupted \in BOOLEAN
        /\ (night.timer > 0 => night.inverted)
        /\ (~interrupted => DayKnows(night) /\ MoonKnows(night, nights))
    BY NumbersAreNat DEF NightInv, Nights
  <2> QED BY <2>1 DEF NightIsTimed, DayKnows, MoonKnows
<1> QED BY <1>1, <1>2, <1>3, PTL DEF MeterSpec
==============================================================================
