-------------------------- MODULE ScoreManagerProofs -------------------------
(***************************************************************************)
(* Theorems about ScoreManager for every number of workers and managers,   *)
(* every set of names, scores and sizes, and every bound; at the end, that *)
(* with one manager on the file it implements Leaderboard: every step maps *)
(* to one step of the abstract board or to none.                           *)
(***************************************************************************)
EXTENDS ScoreManagerRefinement, RankingProofs

LEMMA ScoresHaveInts == \A s \in Scores : s.score \in Int
  BY ValuesAssumption DEF Scores, ScoreRecord

(* The call of a worker that is not idle. *)
LEMMA CallFields ==
    ASSUME TypeOK, NEW w \in Workers, pc[w] # "idle"
    PROVE  /\ job[w] \in Calls
           /\ job[w].manager \in Managers
           /\ job[w].op = "new_score" => job[w].score \in Scores
           /\ job[w].op \in {"new_score", "get_ranking"}
           /\ size[job[w].manager] \in Nat
<1>1. job[w] \in Calls
  BY DEF TypeOK
<1>2. job[w].manager \in Managers
  BY <1>1 DEF Calls
<1>3. job[w].op = "new_score" => job[w].score \in Scores
  BY <1>1 DEF Calls
<1>4. job[w].op \in {"new_score", "get_ranking"}
  BY <1>1 DEF Calls
<1>5. size[job[w].manager] \in Nat
  BY <1>2, SizesAssumption DEF TypeOK
<1> QED BY <1>1, <1>2, <1>3, <1>4, <1>5

LEMMA NoCallIsNoCall == NoCall \notin Calls
  BY DEF NoCall, Calls

LEMMA InitTypeOK == Init => TypeOK
<1> SUFFICES ASSUME Init PROVE TypeOK
  OBVIOUS
<1>1. file \in [state : {"absent", "torn", "doc"}, ranking : Seq(Scores)]
  BY EmptySeq DEF Init, Absent
<1>2. job \in [Workers -> Calls \cup {NoCall}]
      /\ \A w \in Workers : job[w] = NoCall <=> pc[w] = "idle"
  BY DEF Init, NoThreads
<1> QED BY <1>1, <1>2, BoundsAssumption DEF Init, NoThreads, TypeOK, Steps, Storing

(* A step of a worker that stays in its call keeps the type of its program
   counter and of its job. *)
LEMMA GoToType ==
    ASSUME TypeOK, NEW w \in Workers, NEW s \in Steps \ {"idle"},
           s \in Storing => job[w].op = "new_score",
           pc[w] # "idle", GoTo(w, s), UNCHANGED job
    PROVE  /\ pc' \in [Workers -> Steps]
           /\ job' \in [Workers -> Calls \cup {NoCall}]
           /\ \A v \in Workers : job'[v] = NoCall <=> pc'[v] = "idle"
           /\ \A v \in Workers : pc'[v] \in Storing => job'[v].op = "new_score"
  BY DEF TypeOK, GoTo, Storing

LEMMA ReturnType ==
    ASSUME TypeOK, NEW w \in Workers, NEW a \in {"ok", "failed"},
           pc[w] # "idle", Return(w, a), UNCHANGED job
    PROVE  /\ pc' \in [Workers -> Steps]
           /\ job' \in [Workers -> Calls \cup {NoCall}]
           /\ \A v \in Workers : job'[v] = NoCall <=> pc'[v] = "idle"
           /\ \A v \in Workers : pc'[v] \in Storing => job'[v].op = "new_score"
           /\ reply' \in [Workers -> {"none", "ok", "failed"}]
<1>1. "unlock" \in (Steps \ {"idle"}) \ Storing
  BY DEF Steps, Storing
<1> QED BY <1>1, GoToType DEF TypeOK, Return

LEMMA ObtainedType ==
    ASSUME TypeOK, NEW w \in Workers, NEW r \in Seq(Scores),
           pc[w] # "idle", Obtained(w, r), UNCHANGED job
    PROVE  /\ pc' \in [Workers -> Steps]
           /\ job' \in [Workers -> Calls \cup {NoCall}]
           /\ \A v \in Workers : job'[v] = NoCall <=> pc'[v] = "idle"
           /\ \A v \in Workers : pc'[v] \in Storing => job'[v].op = "new_score"
           /\ reply' \in [Workers -> {"none", "ok", "failed"}]
           /\ seen' \in [Workers -> Seq(Scores)]
<1>1. "rank" \in Steps \ {"idle"}
  BY DEF Steps
<1>2. seen' \in [Workers -> Seq(Scores)]
  BY DEF TypeOK, Obtained
<1>3. CASE job[w].op = "new_score"
  BY <1>1, <1>2, <1>3, GoToType DEF TypeOK, Obtained
<1>4. CASE job[w].op # "new_score"
  BY <1>2, <1>4, ReturnType DEF TypeOK, Obtained
<1> QED BY <1>3, <1>4

LEMMA FaultType == TypeOK /\ Fault => faults' \in 0 .. MaxFaults
  BY BoundsAssumption DEF TypeOK, Fault

(* Every step keeps the types. *)
LEMMA NextTypeOK == TypeOK /\ [Next]_vars => TypeOK'
<1> SUFFICES ASSUME TypeOK, [Next]_vars PROVE TypeOK'
  OBVIOUS
<1> USE DEF At
<1>1. ASSUME NEW w \in Workers, NEW call \in Calls, Call(w, call)
      PROVE  TypeOK'
  BY <1>1, NoCallIsNoCall DEF TypeOK, Call, GoTo, Steps, Storing
<1>2. ASSUME NEW w \in Workers, Lock(w) PROVE TypeOK'
  <2>1. job[w].manager \in Managers
    BY <1>2, CallFields DEF Lock
  <2> QED BY <1>2, <2>1, GoToType DEF TypeOK, Lock, Steps, Storing
<1>3. ASSUME NEW w \in Workers, Exists(w) PROVE TypeOK'
  BY <1>3, GoToType DEF TypeOK, Exists, Steps, Storing
<1>4. ASSUME NEW w \in Workers, ReadDocument(w) PROVE TypeOK'
  <2>1. file.ranking \in Seq(Scores)
    BY DEF TypeOK
  <2> QED BY <1>4, <2>1, ObtainedType DEF TypeOK, ReadDocument
<1>5. ASSUME NEW w \in Workers, ReadTorn(w) PROVE TypeOK'
  BY <1>5, ReturnType DEF TypeOK, ReadTorn
<1>6. ASSUME NEW w \in Workers, ReadFails(w) PROVE TypeOK'
  BY <1>6, GoToType, FaultType DEF TypeOK, ReadFails, Steps, Storing
<1>7. ASSUME NEW w \in Workers, Recheck(w) PROVE TypeOK'
  <2>1. CASE file.state = "absent"
    BY <1>7, <2>1, GoToType DEF TypeOK, Recheck, Steps, Storing
  <2>2. CASE file.state # "absent"
    BY <1>7, <2>2, ReturnType DEF TypeOK, Recheck
  <2> QED BY <2>1, <2>2
<1>8. ASSUME NEW w \in Workers, InitOpen(w) PROVE TypeOK'
  BY <1>8, GoToType DEF TypeOK, InitOpen, Torn, Steps, Storing
<1>9. ASSUME NEW w \in Workers, InitOpenFails(w) PROVE TypeOK'
  <2>1. <<>> \in Seq(Scores)
    BY EmptySeq
  <2> QED BY <1>9, <2>1, ObtainedType, FaultType DEF TypeOK, InitOpenFails
<1>10. ASSUME NEW w \in Workers, InitWrite(w) PROVE TypeOK'
  <2>1. <<>> \in Seq(Scores)
    BY EmptySeq
  <2> QED BY <1>10, <2>1, ObtainedType DEF TypeOK, InitWrite, Document
<1>11. ASSUME NEW w \in Workers, InitWriteFails(w) PROVE TypeOK'
  <2>1. <<>> \in Seq(Scores)
    BY EmptySeq
  <2> QED BY <1>11, <2>1, ObtainedType, FaultType DEF TypeOK, InitWriteFails, Torn
<1>12. ASSUME NEW w \in Workers, RankEnters(w)
       PROVE TypeOK'
  <2>0. job[w].op = "new_score"
    BY <1>12 DEF TypeOK, Storing, RankEnters, RankTooLow
  <2> DEFINE k == size[job[w].manager]
             new == Inserted(seen[w], job[w].score, k)
  <2>1. k \in Nat /\ job[w].score \in Scores /\ seen[w] \in Seq(Scores)
    BY <1>12, <2>0, CallFields DEF RankEnters, TypeOK
  <2>2. Len(seen[w]) <= k
    BY <1>12, <2>1, LenProperties DEF RankEnters, IsOversized
  <2>3. new \in Seq(Scores)
    BY <2>1, <2>2, InsertedElements
  <2> HIDE DEF k, new
  <2>4. seen' = [seen EXCEPT ![w] = new] /\ GoTo(w, "open")
    BY <1>12 DEF RankEnters, k, new
  <2> QED BY <1>12, <2>3, <2>4, <2>0, GoToType DEF TypeOK, RankEnters, Steps, Storing
<1>13. ASSUME NEW w \in Workers, RankTooLow(w)
       PROVE TypeOK'
  <2>0. job[w].op = "new_score"
    BY <1>13 DEF TypeOK, Storing, RankEnters, RankTooLow
  <2>1. job[w].score \in Scores
    BY <1>13, <2>0, CallFields DEF RankTooLow
  <2> QED BY <1>13, <2>1, ReturnType, AppendProperties DEF TypeOK, RankTooLow
<1>14. ASSUME NEW w \in Workers, RankOversized(w) PROVE TypeOK'
  BY <1>14, ReturnType DEF TypeOK, RankOversized
<1>15. ASSUME NEW w \in Workers, Open(w) PROVE TypeOK'
  BY <1>15, GoToType DEF TypeOK, Open, Torn, Steps, Storing
<1>16. ASSUME NEW w \in Workers, OpenFails(w) PROVE TypeOK'
  BY <1>16, ReturnType, FaultType DEF TypeOK, OpenFails
<1>17. ASSUME NEW w \in Workers, Write(w) PROVE TypeOK'
  <2>0. job[w].op = "new_score"
    BY <1>17 DEF TypeOK, Storing, Write
  <2>1. job[w].score \in Scores /\ seen[w] \in Seq(Scores)
    BY <1>17, <2>0, CallFields DEF Write, TypeOK
  <2> QED BY <1>17, <2>1, ReturnType, AppendProperties DEF TypeOK, Write, Document
<1>18. ASSUME NEW w \in Workers, WriteFails(w) PROVE TypeOK'
  BY <1>18, ReturnType, FaultType DEF TypeOK, WriteFails, Torn
<1>19. ASSUME NEW w \in Workers, Unlock(w) PROVE TypeOK'
  <2>1. job[w].manager \in Managers /\ <<>> \in Seq(Scores)
    BY <1>19, CallFields, EmptySeq DEF Unlock
  <2> QED BY <1>19, <2>1 DEF TypeOK, Unlock, GoTo, Steps, Storing
<1>20. CASE Crash
  <2>1. <<>> \in Seq(Scores)
    BY EmptySeq
  <2> QED BY <1>20, <2>1, BoundsAssumption DEF TypeOK, Crash, Steps, Storing
<1>21. CASE UNCHANGED vars
  BY <1>21 DEF TypeOK, vars
<1> QED
  BY <1>1, <1>2, <1>3, <1>4, <1>5, <1>6, <1>7, <1>8, <1>9, <1>10, <1>11, <1>12,
     <1>13, <1>14, <1>15, <1>16, <1>17, <1>18, <1>19, <1>20, <1>21
  DEF Next, Step

(* Every variable keeps its type, for every value of the constants. *)
THEOREM TypeCorrect == Spec => []TypeOK
  BY InitTypeOK, NextTypeOK, PTL DEF Spec

------------------------------------------------------------------------------
(* Mutual exclusion. *)

(* The steps of a call between its lock and its unlock. *)
Inside(w) ==
    \/ Exists(w) \/ ReadDocument(w) \/ ReadTorn(w) \/ ReadFails(w) \/ Recheck(w)
    \/ InitOpen(w) \/ InitOpenFails(w) \/ InitWrite(w) \/ InitWriteFails(w)
    \/ RankEnters(w) \/ RankTooLow(w) \/ RankOversized(w) \/ Open(w)
    \/ OpenFails(w) \/ Write(w) \/ WriteFails(w)

LEMMA NextCases ==
    ASSUME [Next]_vars
    PROVE  \/ \E w \in Workers, call \in Calls : Call(w, call)
           \/ \E w \in Workers : Lock(w)
           \/ \E w \in Workers : Inside(w)
           \/ \E w \in Workers : Unlock(w)
           \/ Crash
           \/ UNCHANGED vars
  BY Zenon DEF Next, Step, Inside

(* Inside a call, neither locks nor jobs change, nor the step of another. *)
LEMMA InsideLocal ==
    ASSUME TypeOK, NEW w \in Workers, Inside(w)
    PROVE  /\ pc[w] \in Locked
           /\ UNCHANGED <<owner, job, size, crashes>>
           /\ \A v \in Workers \ {w} : pc'[v] = pc[v] /\ seen'[v] = seen[v]
                                        /\ reply'[v] = reply[v]
<1> USE DEF At
<1>1. pc[w] \in Locked
  BY DEF Inside, Exists, ReadDocument, ReadTorn, ReadFails, Recheck, InitOpen,
         InitOpenFails, InitWrite, InitWriteFails, RankEnters, RankTooLow,
         RankOversized, Open, OpenFails, Write, WriteFails, Locked, Steps
<1>2. UNCHANGED <<owner, job, size, crashes>>
  BY DEF Inside, Exists, ReadDocument, ReadTorn, ReadFails, Recheck, InitOpen,
         InitOpenFails, InitWrite, InitWriteFails, RankEnters, RankTooLow,
         RankOversized, Open, OpenFails, Write, WriteFails
<1>3. /\ \E s : pc' = [pc EXCEPT ![w] = s]
      /\ seen' = seen \/ \E r : seen' = [seen EXCEPT ![w] = r]
      /\ reply' = reply \/ \E a : reply' = [reply EXCEPT ![w] = a]
  <2>1. CASE Exists(w) \/ ReadFails(w) \/ InitOpen(w) \/ RankEnters(w) \/ Open(w)
    BY <2>1 DEF Exists, ReadFails, InitOpen, RankEnters, Open, GoTo
  <2>2. CASE \/ ReadTorn(w) \/ Recheck(w) \/ RankTooLow(w) \/ RankOversized(w)
             \/ OpenFails(w) \/ Write(w) \/ WriteFails(w)
    BY <2>2 DEF ReadTorn, Recheck, RankTooLow, RankOversized, OpenFails, Write,
                WriteFails, GoTo, Return
  <2>3. CASE \/ ReadDocument(w) \/ InitOpenFails(w) \/ InitWrite(w)
             \/ InitWriteFails(w)
    BY <2>3 DEF ReadDocument, InitOpenFails, InitWrite, InitWriteFails, GoTo,
                Return, Obtained
  <2> QED BY <2>1, <2>2, <2>3 DEF Inside
<1>4. \A v \in Workers \ {w} : pc'[v] = pc[v] /\ seen'[v] = seen[v]
                                /\ reply'[v] = reply[v]
  BY <1>3 DEF TypeOK
<1> QED BY <1>1, <1>2, <1>4

LEMMA NextLockExcludes ==
    TypeOK /\ LockExcludes /\ [Next]_vars => LockExcludes'
<1> SUFFICES ASSUME TypeOK, LockExcludes, [Next]_vars PROVE LockExcludes'
  OBVIOUS
<1>1. ASSUME NEW w \in Workers, NEW call \in Calls, Call(w, call)
      PROVE  LockExcludes'
  BY <1>1 DEF TypeOK, LockExcludes, Call, GoTo, Locked, Steps
<1>2. ASSUME NEW w \in Workers, Lock(w) PROVE LockExcludes'
  <2>1. job[w].manager \in Managers
    BY <1>2, CallFields DEF Lock, At
  <2>2. ASSUME NEW v \in Workers, pc'[v] \in Locked
        PROVE  owner'[job'[v].manager] = v
    <3>1. CASE v = w
      BY <1>2, <2>1, <3>1 DEF TypeOK, Lock
    <3>2. CASE v # w
      <4>1. pc[v] \in Locked
        BY <1>2, <2>2, <3>2 DEF TypeOK, Lock, GoTo
      <4>2. owner[job[v].manager] = v /\ v # None
        BY <4>1, WorkersAssumption DEF LockExcludes
      <4>3. job[v].manager # job[w].manager
        BY <1>2, <4>2 DEF Lock
      <4>4. owner'[job[v].manager] = owner[job[v].manager]
        BY <1>2, <2>1, <4>3 DEF Lock, TypeOK
      <4> QED BY <1>2, <4>2, <4>4 DEF Lock
    <3> QED BY <3>1, <3>2
  <2> QED BY <2>2 DEF LockExcludes
<1>3. ASSUME NEW w \in Workers, Inside(w) PROVE LockExcludes'
  <2>1. ASSUME NEW v \in Workers, pc'[v] \in Locked PROVE pc[v] \in Locked
    BY <1>3, <2>1, InsideLocal
  <2> QED BY <1>3, <2>1, InsideLocal DEF LockExcludes
<1>4. ASSUME NEW w \in Workers, Unlock(w) PROVE LockExcludes'
  <2>1. job[w].manager \in Managers /\ pc[w] \in Locked
    BY <1>4, CallFields DEF Unlock, At, Locked, Steps
  <2>2. owner[job[w].manager] = w
    BY <2>1 DEF LockExcludes
  <2>3. ASSUME NEW v \in Workers, pc'[v] \in Locked
        PROVE  owner'[job'[v].manager] = v
    <3>1. v # w /\ pc[v] \in Locked
      BY <1>4, <2>3 DEF TypeOK, Unlock, GoTo, Locked
    <3>2. owner[job[v].manager] = v
      BY <3>1 DEF LockExcludes
    <3>3. job[v].manager # job[w].manager
      BY <2>2, <3>1, <3>2
    <3>4. job'[v] = job[v]
      BY <1>4, <3>1 DEF Unlock, TypeOK
    <3>5. owner'[job[v].manager] = owner[job[v].manager]
      BY <1>4, <3>3 DEF Unlock, TypeOK
    <3> QED BY <3>2, <3>4, <3>5
  <2> QED BY <2>3 DEF LockExcludes
<1>5. CASE Crash
  BY <1>5 DEF LockExcludes, Crash, Locked
<1>6. CASE UNCHANGED vars
  BY <1>6 DEF LockExcludes, vars
<1> QED BY <1>1, <1>2, <1>3, <1>4, <1>5, <1>6, NextCases

(* Inside a guarded region a worker owns its manager's lock, so that no two
   calls of one manager touch the file at once. *)
THEOREM MutualExclusion == Spec => []LockExcludes
<1>1. Init => LockExcludes
  BY DEF Init, NoThreads, LockExcludes, Locked
<1> QED BY <1>1, TypeCorrect, NextLockExcludes, PTL DEF Spec

------------------------------------------------------------------------------
(* The order and the origin of what is on the board, with any number of
   managers on the file: what survives without the singleton. *)

(* A score the call of w has put in its vector and not stored yet. *)
InHand(w, s) == pc[w] \in {"open", "write"} /\ job[w].score = s

AcceptedScore(s) == \E i \in 1 .. Len(accepted) : accepted[i] = s

GenuineBoard ==
    /\ IsRanking(file.ranking)
    /\ \A p \in 1 .. Len(file.ranking) : AcceptedScore(file.ranking[p])

GenuineCall(w) ==
    pc[w] \in Storing =>
        /\ IsRanking(seen[w])
        /\ \A p \in 1 .. Len(seen[w]) :
                AcceptedScore(seen[w][p]) \/ InHand(w, seen[w][p])

GenuineInv == GenuineBoard /\ \A w \in Workers : GenuineCall(w)

LEMMA AcceptedGrows ==
    ASSUME TypeOK, NEW s, AcceptedScore(s),
           accepted' = accepted \/ \E t \in Scores : accepted' = Append(accepted, t)
    PROVE  AcceptedScore(s)'
<1>1. PICK i \in 1 .. Len(accepted) : accepted[i] = s
  BY DEF AcceptedScore
<1>2. accepted \in Seq(Scores) /\ Len(accepted) \in Nat
  BY LenProperties DEF TypeOK
<1>3. i \in 1 .. Len(accepted') /\ accepted'[i] = s
  BY <1>1, <1>2, AppendProperties
<1> QED BY <1>3 DEF AcceptedScore

(* Only two operations of a call change what the file last held. *)
LEMMA InsideFile ==
    ASSUME TypeOK, NEW w \in Workers, Inside(w)
    PROVE  \/ InitWrite(w) \/ InitWriteFails(w) \/ Write(w)
           \/ file'.ranking = file.ranking
<1>1. CASE InitOpen(w) \/ Open(w) \/ WriteFails(w)
  BY <1>1 DEF InitOpen, Open, WriteFails, Torn
<1>2. CASE \/ Exists(w) \/ ReadDocument(w) \/ ReadTorn(w) \/ ReadFails(w)
           \/ Recheck(w) \/ InitOpenFails(w) \/ RankEnters(w) \/ RankTooLow(w)
           \/ RankOversized(w) \/ OpenFails(w)
  BY <1>2 DEF Exists, ReadDocument, ReadTorn, ReadFails, Recheck, InitOpenFails,
              RankEnters, RankTooLow, RankOversized, OpenFails
<1> QED BY <1>1, <1>2 DEF Inside

LEMMA InsideAccepted ==
    ASSUME TypeOK, NEW w \in Workers, Inside(w)
    PROVE  accepted' = accepted \/ \E t \in Scores : accepted' = Append(accepted, t)
<1>1. CASE RankTooLow(w) \/ Write(w)
  <2>1. pc[w] # "idle" /\ job[w].op = "new_score"
    BY <1>1 DEF RankTooLow, Write, At, TypeOK, Storing
  <2>2. job[w].score \in Scores
    BY <2>1, CallFields
  <2> QED BY <1>1, <2>2 DEF RankTooLow, Write
<1>2. CASE ~(RankTooLow(w) \/ Write(w))
  BY <1>2 DEF Inside, Exists, ReadDocument, ReadTorn, ReadFails, Recheck, InitOpen,
         InitOpenFails, InitWrite, InitWriteFails, RankEnters, RankOversized,
         Open, OpenFails, WriteFails
<1> QED BY <1>1, <1>2

LEMMA InsideGenuine ==
    ASSUME TypeOK, GenuineInv, NEW w \in Workers, Inside(w)
    PROVE  GenuineInv'
<1>0. \A s : AcceptedScore(s) => AcceptedScore(s)'
  BY InsideAccepted, AcceptedGrows
<1>1. GenuineBoard'
  <2>1. CASE file'.ranking = file.ranking
    BY <2>1, <1>0 DEF GenuineInv, GenuineBoard, IsRanking
  <2>2. CASE InitWrite(w) \/ InitWriteFails(w)
    <3>1. file'.ranking = <<>> /\ Len(<<>>) = 0
      BY <2>2 DEF InitWrite, InitWriteFails, Document, Torn
    <3> QED BY <3>1 DEF GenuineBoard, IsRanking
  <2>3. CASE Write(w)
    <3>1. /\ pc[w] = "write" /\ pc[w] \in Storing
          /\ file'.ranking = seen[w]
          /\ accepted' = Append(accepted, job[w].score)
      BY <2>3 DEF Write, At, Storing, Document
    <3>2. job[w].score \in Scores
      BY <3>1, CallFields DEF TypeOK
    <3>3. AcceptedScore(job[w].score)'
      <4>1. accepted \in Seq(Scores) /\ Len(accepted) \in Nat /\ job' = job
        BY <2>3, LenProperties DEF TypeOK, Write
      <4>2. Len(accepted') = Len(accepted) + 1
            /\ accepted'[Len(accepted) + 1] = job[w].score
        BY <3>1, <3>2, <4>1, AppendProperties
      <4> QED BY <4>1, <4>2 DEF AcceptedScore
    <3>4. job' = job
      BY <2>3 DEF Write
    <3>5. GenuineCall(w)
      BY DEF GenuineInv
    <3> QED BY <1>0, <3>1, <3>3, <3>4, <3>5
            DEF GenuineBoard, GenuineCall, IsRanking, InHand
  <2> QED BY <2>1, <2>2, <2>3, InsideFile
<1>2. ASSUME NEW v \in Workers, v # w PROVE GenuineCall(v)'
  <2>1. pc'[v] = pc[v] /\ seen'[v] = seen[v] /\ job' = job
    BY <1>2, InsideLocal
  <2>2. GenuineCall(v)
    BY DEF GenuineInv
  <2> QED BY <2>1, <2>2, <1>0 DEF GenuineCall, InHand, IsRanking
<1>3. GenuineCall(w)'
  <2> SUFFICES ASSUME pc'[w] \in Storing PROVE GenuineCall(w)'
    BY DEF GenuineCall
  <2>1. CASE ReadDocument(w)
    <3>1. seen'[w] = file.ranking
      BY <2>1 DEF ReadDocument, Obtained, TypeOK
    <3> QED BY <3>1, <1>0 DEF GenuineInv, GenuineBoard, GenuineCall, IsRanking
  <2>2. CASE InitOpenFails(w) \/ InitWrite(w) \/ InitWriteFails(w)
    <3>1. seen'[w] = <<>> /\ Len(<<>>) = 0
      BY <2>2 DEF InitOpenFails, InitWrite, InitWriteFails, Obtained, TypeOK
    <3> QED BY <3>1 DEF GenuineCall, IsRanking
  <2>3. CASE RankEnters(w)
    <3> DEFINE k == size[job[w].manager]
               s == job[w].score
               r == seen[w]
               new == Inserted(r, s, k)
    <3>1. /\ pc[w] = "rank" /\ pc[w] \in Storing /\ ~IsOversized(r, k)
          /\ seen'[w] = new /\ pc'[w] = "open" /\ job' = job
      BY <2>3 DEF RankEnters, At, Storing, GoTo, TypeOK
    <3>2. k \in Nat /\ s \in Scores /\ r \in Seq(Scores) /\ Len(r) \in Nat
      BY <3>1, CallFields, LenProperties DEF TypeOK
    <3>3. Len(r) <= k
      BY <3>1, <3>2 DEF IsOversized
    <3>4. IsRanking(r) /\ \A q \in 1 .. Len(r) : AcceptedScore(r[q])
      BY <3>1 DEF GenuineInv, GenuineCall, InHand
    <3>5. IsRanking(new)
      BY <3>2, <3>3, <3>4, ScoresHaveInts, InsertedIsRanking
    <3>6. \A i \in 1 .. Len(new) :
            new[i] = s \/ \E q \in 1 .. Len(r) : new[i] = r[q]
      <4> HIDE DEF k, s, r
      <4> QED BY <3>2, <3>3, InsertedMembers
    <3> HIDE DEF new
    <3>7. \A i \in 1 .. Len(seen'[w]) :
            AcceptedScore(seen[w][i])' \/ seen'[w][i] = s
      BY <1>0, <3>1, <3>4, <3>6
    <3>9. IsRanking(seen'[w])
      BY <3>1, <3>5
    <3> QED BY <3>1, <3>7, <3>9 DEF GenuineCall, InHand, IsRanking
  <2>4. CASE Open(w)
    <3>1. /\ pc[w] = "open" /\ pc'[w] = "write" /\ pc[w] \in Storing
          /\ seen' = seen /\ job' = job
      BY <2>4 DEF Open, At, GoTo, TypeOK, Storing
    <3> QED BY <3>1, <1>0 DEF GenuineInv, GenuineCall, InHand, IsRanking
  <2>5. CASE \/ ReadTorn(w) \/ RankTooLow(w) \/ RankOversized(w)
             \/ OpenFails(w) \/ Write(w) \/ WriteFails(w)
    BY <2>5 DEF ReadTorn, RankTooLow, RankOversized, OpenFails, Write, WriteFails,
                Return, GoTo, TypeOK, Storing
  <2>6. CASE Exists(w) \/ ReadFails(w) \/ Recheck(w) \/ InitOpen(w)
    BY <2>6 DEF Exists, ReadFails, Recheck, InitOpen, Return, GoTo, TypeOK, Storing
  <2> QED BY <2>1, <2>2, <2>3, <2>4, <2>5, <2>6 DEF Inside
<1> QED BY <1>1, <1>2, <1>3 DEF GenuineInv

LEMMA NextGenuine == TypeOK /\ GenuineInv /\ [Next]_vars => GenuineInv'
<1> SUFFICES ASSUME TypeOK, GenuineInv, [Next]_vars PROVE GenuineInv'
  OBVIOUS
<1>1. ASSUME NEW w \in Workers, NEW call \in Calls, Call(w, call)
      PROVE  GenuineInv'
  BY <1>1 DEF GenuineInv, GenuineBoard, GenuineCall, AcceptedScore, InHand, IsRanking,
              Call, At, GoTo, TypeOK, Storing
<1>2. ASSUME NEW w \in Workers, Lock(w) \/ Unlock(w) PROVE GenuineInv'
  <2>1. /\ UNCHANGED <<file, accepted>>
        /\ \A v \in Workers : pc'[v] \in Storing =>
                pc'[v] = pc[v] /\ job'[v] = job[v] /\ seen'[v] = seen[v]
    BY <1>2 DEF Lock, Unlock, At, GoTo, TypeOK, Storing
  <2>2. GenuineBoard'
    BY <2>1 DEF GenuineInv, GenuineBoard, AcceptedScore, IsRanking
  <2>3. ASSUME NEW v \in Workers PROVE GenuineCall(v)'
    BY <2>1 DEF GenuineInv, GenuineCall, AcceptedScore, InHand, IsRanking
  <2> QED BY <2>2, <2>3 DEF GenuineInv
<1>3. CASE Crash
  BY <1>3 DEF GenuineInv, GenuineBoard, GenuineCall, AcceptedScore, IsRanking, Crash,
              Storing
<1>4. CASE UNCHANGED vars
  BY <1>4 DEF GenuineInv, GenuineBoard, GenuineCall, AcceptedScore, InHand, IsRanking,
              vars
<1> QED BY <1>1, <1>2, <1>3, <1>4, InsideGenuine, NextCases

(* However many managers share the file, the board is ordered and shows only
   scores that were accepted. *)
THEOREM Genuine == Spec => []BoardIsGenuine
<1>1. Init => GenuineInv
  BY DEF Init, NoThreads, Absent, GenuineInv, GenuineBoard, GenuineCall, IsRanking,
         Storing
<1>2. GenuineInv => BoardIsGenuine
  BY DEF GenuineInv, GenuineBoard, AcceptedScore, BoardIsGenuine
<1> QED BY <1>1, <1>2, TypeCorrect, NextGenuine, PTL DEF Spec

------------------------------------------------------------------------------
(* One manager on the file. *)

OneManager == \A m, n \in Managers : m = n

(* What the call of w knows about the file at each of its steps. *)
CallInv(w) ==
    /\ pc[w] = "init_open" => file.state = "absent"
    /\ pc[w] = "init_write" => file.ranking = <<>>
    /\ pc[w] = "rank" => seen[w] = file.ranking
    /\ pc[w] \in {"open", "write"} =>
        /\ NothingLost(seen[w], file.ranking, Len(file.ranking))
        /\ \E q \in 1 .. Len(seen[w]) : seen[w][q] = job[w].score
        /\ ~IsOversized(file.ranking, size[job[w].manager])
    /\ pc[w] = "unlock" /\ reply[w] = "ok" /\ job[w].op = "get_ranking" =>
        seen[w] = file.ranking
    /\ pc[w] = "unlock" /\ reply[w] = "ok" /\ job[w].op = "new_score"
       /\ faults = 0 =>
        NothingLost(file.ranking, <<job[w].score>>, size[job[w].manager])

StoreInv ==
    /\ file.state = "absent" => file.ranking = <<>>
    /\ \A w \in Workers : CallInv(w)

(* One lock, so one call at a time between its ends. *)
LEMMA Alone ==
    ASSUME OneManager, TypeOK, LockExcludes,
           NEW v \in Workers, NEW w \in Workers, pc[v] \in Locked, pc[w] \in Locked
    PROVE  v = w
<1>1. job[v].manager \in Managers /\ job[w].manager \in Managers
  BY CallFields DEF Locked
<1>2. job[v].manager = job[w].manager
  BY <1>1 DEF OneManager
<1> QED BY <1>2 DEF LockExcludes

LEMMA NothingLostToItself == \A r, k : NothingLost(r, r, k)
  BY DEF NothingLost

LEMMA NothingLostFromEmpty == \A r, k : NothingLost(r, <<>>, k)
  BY DEF NothingLost

(* What Rank knows: the ranking in hand is the board, not oversized. *)
LEMMA RankFacts ==
    ASSUME TypeOK, GenuineInv, StoreInv, NEW w \in Workers,
           pc[w] = "rank", ~IsOversized(seen[w], size[job[w].manager])
    PROVE  /\ seen[w] = file.ranking
           /\ seen[w] \in Seq(Scores) /\ IsRanking(seen[w])
           /\ job[w].op = "new_score" /\ job[w].score \in Scores
           /\ size[job[w].manager] \in Nat
           /\ Len(seen[w]) \in Nat /\ Len(seen[w]) <= size[job[w].manager]
<1>1. pc[w] \in Storing /\ pc[w] # "idle"
  BY DEF Storing
<1>2. seen[w] = file.ranking /\ IsRanking(seen[w])
  BY <1>1 DEF StoreInv, CallInv, GenuineInv, GenuineCall
<1>3. job[w].op = "new_score" /\ job[w].score \in Scores
      /\ size[job[w].manager] \in Nat /\ seen[w] \in Seq(Scores)
  BY <1>1, CallFields DEF TypeOK
<1>4. Len(seen[w]) \in Nat
  BY <1>3, LenProperties
<1>5. Len(seen[w]) <= size[job[w].manager]
  BY <1>3, <1>4 DEF IsOversized
<1> QED BY <1>2, <1>3, <1>4, <1>5

LEMMA RankEntersStore ==
    ASSUME TypeOK, GenuineInv, StoreInv, NEW w \in Workers, RankEnters(w)
    PROVE  CallInv(w)'
<1> DEFINE k == size[job[w].manager]
           s == job[w].score
           r == seen[w]
<1>1. /\ pc[w] = "rank" /\ pc'[w] = "open"
      /\ ~IsOversized(r, k) /\ Enters(r, s, k)
      /\ seen'[w] = Inserted(r, s, k)
      /\ UNCHANGED <<file, job, size, faults>>
  BY DEF RankEnters, At, GoTo, TypeOK
<1>2. /\ r = file.ranking /\ r \in Seq(Scores) /\ IsRanking(r)
      /\ s \in Scores /\ k \in Nat /\ Len(r) <= k
  BY <1>1, RankFacts
<1>3. /\ NothingLost(Inserted(r, s, k), r, Len(r))
      /\ \E q \in 1 .. Len(Inserted(r, s, k)) : Inserted(r, s, k)[q] = s
  <2> HIDE DEF k, s, r
  <2> QED BY <1>1, <1>2, ScoresHaveInts, InsertedLosesNothing, InsertedHasNewScore
<1>4. NothingLost(seen'[w], file'.ranking, Len(file'.ranking))
  BY <1>1, <1>2, <1>3
<1>5. \E q \in 1 .. Len(seen'[w]) : seen'[w][q] = job'[w].score
  BY <1>1, <1>3
<1>6. ~IsOversized(file'.ranking, size'[job'[w].manager])
  BY <1>1, <1>2
<1> QED BY <1>1, <1>4, <1>5, <1>6 DEF CallInv, NothingLost, IsOversized

LEMMA RankTooLowStore ==
    ASSUME TypeOK, GenuineInv, StoreInv, NEW w \in Workers, RankTooLow(w)
    PROVE  CallInv(w)'
<1> DEFINE k == size[job[w].manager]
           s == job[w].score
           r == seen[w]
<1>1. /\ pc[w] = "rank" /\ pc'[w] = "unlock"
      /\ ~IsOversized(r, k) /\ ~Enters(r, s, k)
      /\ UNCHANGED <<file, job, size, seen, faults>>
  BY DEF RankTooLow, At, GoTo, Return, TypeOK
<1>2. /\ r = file.ranking /\ r \in Seq(Scores) /\ IsRanking(r)
      /\ s \in Scores /\ k \in Nat /\ Len(r) \in Nat /\ Len(r) <= k
  BY <1>1, RankFacts
<1>3. NothingLost(r, <<s>>, k)
  <2> HIDE DEF k, s, r
  <2>1. Len(r) = k /\ UpperBound(r, s) > Len(r)
    <3>1. UpperBound(r, s) \in 1 .. Len(r) + 1
      BY <1>2, UpperBoundIsFirst
    <3> QED BY <1>1, <1>2, <3>1 DEF Enters, IsFull
  <2>2. \A q \in 1 .. UpperBound(r, s) - 1 : ~CompareScore(s, r[q])
    BY <1>2, UpperBoundIsFirst
  <2>3. \A q \in 1 .. Len(r) : r[q].score >= s.score
    <3> SUFFICES ASSUME NEW q \in 1 .. Len(r) PROVE r[q].score >= s.score
      OBVIOUS
    <3>1. q \in 1 .. UpperBound(r, s) - 1
      BY <1>2, <2>1, UpperBoundIsFirst
    <3>2. ~(s.score >= r[q].score)
      BY <2>2, <3>1 DEF CompareScore
    <3>3. s.score \in Int /\ r[q].score \in Int
      BY <1>2, ScoresHaveInts, ElementOfSeq
    <3> QED BY <3>2, <3>3
  <2>4. Len(<<s>>) = 1 /\ <<s>>[1] = s
    OBVIOUS
  <2> QED BY <2>1, <2>3, <2>4 DEF NothingLost
<1>4. NothingLost(file'.ranking, <<job'[w].score>>, size'[job'[w].manager])
  BY <1>1, <1>2, <1>3
<1>5. job'[w].op = "new_score"
  BY <1>1, RankFacts
<1> QED BY <1>1, <1>4, <1>5 DEF CallInv, NothingLost

LEMMA WriteStore ==
    ASSUME TypeOK, StoreInv, NEW w \in Workers, Write(w)
    PROVE  /\ CallInv(w)'
           /\ NothingLost(file'.ranking, file.ranking, Len(file.ranking))
<1>1. /\ pc[w] = "write" /\ pc'[w] = "unlock" /\ pc[w] \in Storing
      /\ file'.ranking = seen[w]
      /\ UNCHANGED <<job, size, seen, faults>>
  BY DEF Write, At, GoTo, Return, TypeOK, Document, Storing
<1>2. /\ NothingLost(seen[w], file.ranking, Len(file.ranking))
      /\ \E q \in 1 .. Len(seen[w]) : seen[w][q] = job[w].score
      /\ job[w].op = "new_score"
  BY <1>1 DEF StoreInv, CallInv, TypeOK
<1>3. \A k : NothingLost(seen[w], <<job[w].score>>, k)
  <2>1. Len(<<job[w].score>>) = 1 /\ <<job[w].score>>[1] = job[w].score
    OBVIOUS
  <2> QED BY <1>2, <2>1 DEF NothingLost
<1>4. NothingLost(file'.ranking, <<job'[w].score>>, size'[job'[w].manager])
  BY <1>1, <1>3
<1> QED BY <1>1, <1>2, <1>4 DEF CallInv, NothingLost

(* A step inside a call keeps what the call knows and loses nothing. *)
LEMMA InsideStore ==
    ASSUME OneManager, TypeOK, LockExcludes, GenuineInv, StoreInv,
           NEW w \in Workers, Inside(w)
    PROVE  /\ StoreInv'
           /\ NothingLost(file'.ranking, file.ranking, Len(file.ranking))
<1> USE DEF At
<1>1. ASSUME NEW v \in Workers, v # w PROVE CallInv(v)'
  <2>1. pc'[v] = pc[v] /\ pc[w] \in Locked
    BY <1>1, InsideLocal
  <2>2. pc[v] \notin Locked /\ pc[v] \in Steps
    BY <1>1, <2>1, Alone DEF TypeOK
  <2> QED BY <2>1, <2>2 DEF CallInv, Locked, Steps
<1>2. CallInv(w)
  BY DEF StoreInv
<1>3. (file.state = "absent" => file.ranking = <<>>)'
  BY DEF StoreInv, Inside, Exists, ReadDocument, ReadTorn, ReadFails, Recheck,
         InitOpen, InitOpenFails, InitWrite, InitWriteFails, RankEnters, RankTooLow,
         RankOversized, Open, OpenFails, Write, WriteFails, Torn, Document
<1>4. NothingLost(file'.ranking, file.ranking, Len(file.ranking))
  <2>1. CASE InitWrite(w) \/ InitWriteFails(w)
    <3>1. file.ranking = <<>>
      BY <2>1, <1>2 DEF InitWrite, InitWriteFails, CallInv
    <3> QED BY <3>1, NothingLostFromEmpty
  <2>2. CASE Write(w)
    BY <2>2, WriteStore
  <2>3. CASE file'.ranking = file.ranking
    BY <2>3, NothingLostToItself
  <2> QED BY <2>1, <2>2, <2>3, InsideFile
<1>5. CallInv(w)'
  <2>1. CASE \/ Exists(w) \/ ReadFails(w) \/ Recheck(w)
    BY <2>1 DEF Exists, ReadFails, Recheck, GoTo, Return, TypeOK, CallInv
  <2>2. CASE ReadTorn(w) \/ RankOversized(w) \/ OpenFails(w)
    BY <2>2 DEF ReadTorn, RankOversized, OpenFails, GoTo, Return, TypeOK, CallInv
  <2>3. CASE ReadDocument(w)
    BY <2>3, CallFields DEF ReadDocument, Obtained, GoTo, Return, TypeOK, CallInv
  <2>4. CASE InitOpen(w)
    BY <2>4, <1>2 DEF InitOpen, Torn, GoTo, TypeOK, CallInv, StoreInv
  <2>5. CASE InitOpenFails(w)
    <3>1. file'.ranking = <<>>
      BY <2>5, <1>2 DEF InitOpenFails, CallInv, StoreInv
    <3> QED BY <2>5, <3>1, CallFields DEF InitOpenFails, Obtained, GoTo, Return, TypeOK, CallInv
  <2>6. CASE InitWrite(w) \/ InitWriteFails(w)
    <3>1. file'.ranking = <<>> /\ Obtained(w, <<>>) /\ job' = job /\ pc[w] # "idle"
      BY <2>6 DEF InitWrite, InitWriteFails, Document, Torn
    <3> QED BY <3>1, CallFields DEF Obtained, GoTo, Return, TypeOK, CallInv
  <2>7. CASE RankEnters(w)
    BY <2>7, RankEntersStore
  <2>8. CASE RankTooLow(w)
    BY <2>8, RankTooLowStore
  <2>9. CASE Open(w)
    <3>1. /\ pc[w] = "open" /\ pc'[w] = "write" /\ file'.ranking = file.ranking
          /\ UNCHANGED <<seen, job, size>>
      BY <2>9 DEF Open, Torn, GoTo, TypeOK
    <3> QED BY <3>1, <1>2 DEF CallInv, NothingLost, IsOversized
  <2>10. CASE Write(w)
    BY <2>10, WriteStore
  <2>11. CASE WriteFails(w)
    <3>1. pc'[w] = "unlock" /\ faults' # 0 /\ job[w].op = "new_score" /\ job' = job
      BY <2>11 DEF WriteFails, Fault, Return, GoTo, TypeOK, Storing
    <3> QED BY <3>1 DEF CallInv
  <2> QED BY <2>1, <2>2, <2>3, <2>4, <2>5, <2>6, <2>7, <2>8, <2>9, <2>10, <2>11
          DEF Inside
<1> QED BY <1>1, <1>3, <1>4, <1>5 DEF StoreInv

(* What a call knows does not change while nothing it looks at does. *)
LEMMA CallInvKept ==
    ASSUME NEW v \in Workers, CallInv(v), UNCHANGED <<file, size, faults>>,
           pc'[v] = pc[v], job'[v] = job[v], seen'[v] = seen[v], reply'[v] = reply[v]
    PROVE  CallInv(v)'
  BY DEF CallInv, NothingLost, IsOversized

(* Outside a call's guarded region nothing of the board is touched. *)
LEMMA OutsideStore ==
    ASSUME TypeOK, StoreInv,
           \/ \E w \in Workers, call \in Calls : Call(w, call)
           \/ \E w \in Workers : Lock(w) \/ Unlock(w)
           \/ Crash
           \/ UNCHANGED vars
    PROVE  StoreInv' /\ UNCHANGED <<file, accepted>>
<1>1. ASSUME NEW w \in Workers, NEW call \in Calls, Call(w, call)
      PROVE  StoreInv' /\ UNCHANGED <<file, accepted>>
  <2>1. UNCHANGED <<file, accepted, seen, reply, size, faults>> /\ pc'[w] = "lock"
    BY <1>1 DEF Call, GoTo, TypeOK
  <2>2. \A v \in Workers \ {w} : pc'[v] = pc[v] /\ job'[v] = job[v]
    BY <1>1 DEF Call, GoTo, TypeOK
  <2>3. ASSUME NEW v \in Workers PROVE CallInv(v)'
    <3>1. CASE v = w
      BY <2>1, <3>1 DEF CallInv
    <3>2. CASE v # w
      BY <2>1, <2>2, <3>2, CallInvKept DEF StoreInv
    <3> QED BY <3>1, <3>2
  <2> QED BY <2>1, <2>3 DEF StoreInv
<1>2. ASSUME NEW w \in Workers, Lock(w) \/ Unlock(w)
      PROVE  StoreInv' /\ UNCHANGED <<file, accepted>>
  <2>1. UNCHANGED <<file, accepted, size, faults>> /\ pc'[w] \in {"exists", "idle"}
    BY <1>2 DEF Lock, Unlock, GoTo, TypeOK
  <2>2. \A v \in Workers \ {w} : /\ pc'[v] = pc[v] /\ job'[v] = job[v]
                                 /\ seen'[v] = seen[v] /\ reply'[v] = reply[v]
    BY <1>2 DEF Lock, Unlock, GoTo, TypeOK
  <2>3. ASSUME NEW v \in Workers PROVE CallInv(v)'
    <3>1. CASE v = w
      BY <2>1, <3>1 DEF CallInv
    <3>2. CASE v # w
      BY <2>1, <2>2, <3>2, CallInvKept DEF StoreInv
    <3> QED BY <3>1, <3>2
  <2> QED BY <2>1, <2>3 DEF StoreInv
<1>3. CASE Crash
  <2>1. UNCHANGED <<file, accepted>> /\ \A w \in Workers : pc'[w] = "idle"
    BY <1>3 DEF Crash
  <2> QED BY <2>1 DEF StoreInv, CallInv
<1>4. CASE UNCHANGED vars
  BY <1>4 DEF vars, StoreInv, CallInv, NothingLost, IsOversized
<1> QED BY <1>1, <1>2, <1>3, <1>4

IInv == TypeOK /\ LockExcludes /\ GenuineInv /\ StoreInv

LEMMA NextIInv == OneManager /\ IInv /\ [Next]_vars => IInv'
<1> SUFFICES ASSUME OneManager, IInv, [Next]_vars PROVE IInv'
  OBVIOUS
<1>1. TypeOK' /\ LockExcludes' /\ GenuineInv'
  BY NextTypeOK, NextLockExcludes, NextGenuine DEF IInv
<1>2. StoreInv'
  BY NextCases, InsideStore, OutsideStore DEF IInv
<1> QED BY <1>1, <1>2 DEF IInv

LEMMA Invariance == ASSUME OneManager PROVE Spec => []IInv
<1>1. Init => GenuineInv /\ LockExcludes
  BY DEF Init, NoThreads, Absent, GenuineInv, GenuineBoard, GenuineCall, IsRanking,
         Storing, LockExcludes, Locked
<1>2. Init => StoreInv
  BY DEF Init, NoThreads, Absent, StoreInv, CallInv
<1>3. Init => IInv
  BY <1>1, <1>2, InitTypeOK DEF IInv
<1> QED BY <1>3, NextIInv, PTL DEF Spec

(* With one manager on the file, no entry is ever lost except to scores at
   least as good: through interleavings, crashes, faults and changes of size. *)
THEOREM BoardNeverLoses == ASSUME OneManager PROVE Spec => BoardOnlyImproves
<1>1. IInv /\ [Next]_vars
      => [NothingLost(file'.ranking, file.ranking, Len(file.ranking))]_vars
  <2> SUFFICES ASSUME IInv, [Next]_vars
      PROVE NothingLost(file'.ranking, file.ranking, Len(file.ranking))
    OBVIOUS
  <2>1. CASE \E w \in Workers : Inside(w)
    BY <2>1, InsideStore DEF IInv
  <2>2. CASE ~ \E w \in Workers : Inside(w)
    <3>1. UNCHANGED file
      BY <2>2, NextCases, OutsideStore DEF IInv
    <3> QED BY <3>1, NothingLostToItself
  <2> QED BY <2>1, <2>2
<1> QED BY <1>1, Invariance, PTL DEF Spec, BoardOnlyImproves

(* A call answered "true" without a fault has its score on the board, or the
   board is full of scores at least as good. *)
THEOREM TrueIsKept == ASSUME OneManager PROVE Spec => []AnsweredTrueIsKept
<1>1. IInv => AnsweredTrueIsKept
  BY DEF IInv, StoreInv, CallInv, AnsweredTrueIsKept, At
<1> QED BY <1>1, Invariance, PTL

(* A GET returns the board as it is at its return. *)
THEOREM GetReturnsBoard == ASSUME OneManager PROVE Spec => []GetIsCurrent
<1>1. IInv => GetIsCurrent
  BY DEF IInv, StoreInv, CallInv, GetIsCurrent, At
<1> QED BY <1>1, Invariance, PTL

(* A damaged file is reported by every later call and never replaced. *)
THEOREM DamageStays == ASSUME OneManager PROVE Spec => DamageIsNotHidden
<1>1. IInv /\ [Next]_vars => [Damaged => Damaged']_vars
  <2> SUFFICES ASSUME IInv, [Next]_vars, Damaged PROVE Damaged'
    OBVIOUS
  <2>1. ASSUME NEW w \in Workers, Inside(w) PROVE Damaged'
    <3>1. file.state = "torn" /\ pc[w] \notin MayStore
      BY DEF Damaged
    <3>2. pc[w] # "init_open"
      BY <3>1 DEF IInv, StoreInv, CallInv
    <3>3. Exists(w) \/ ReadTorn(w) \/ ReadFails(w) \/ Recheck(w)
      BY <2>1, <3>1, <3>2 DEF Inside, ReadDocument, InitOpen, InitOpenFails, InitWrite,
            InitWriteFails, RankEnters, RankTooLow, RankOversized, Open, OpenFails,
            Write, WriteFails, At, MayStore
    <3>4. file' = file /\ pc'[w] \notin MayStore
      BY <3>1, <3>3 DEF IInv, Exists, ReadTorn, ReadFails, Recheck, GoTo, Return,
            TypeOK, MayStore
    <3>5. \A v \in Workers \ {w} : pc'[v] = pc[v]
      BY <2>1, InsideLocal DEF IInv
    <3> QED BY <3>4, <3>5 DEF Damaged
  <2>2. CASE ~ \E w \in Workers : Inside(w)
    <3>1. UNCHANGED file
      BY <2>2, NextCases, OutsideStore DEF IInv
    <3>2. \A w \in Workers : pc'[w] \in {pc[w], "idle", "lock", "exists"}
      BY <2>2, NextCases DEF IInv, TypeOK, Call, Lock, Unlock, Crash, GoTo, vars
    <3> QED BY <3>1, <3>2 DEF Damaged, MayStore
  <2> QED BY <2>1, <2>2
<1> QED BY <1>1, Invariance, PTL DEF Spec, DamageIsNotHidden

(* A board longer than the configured size is frozen until the next start. *)
THEOREM OversizedStays == ASSUME OneManager PROVE Spec => OversizedIsFrozen
<1> DEFINE Frozen == \A m \in Managers :
                        IsOversized(file.ranking, size[m]) /\ size' = size
                        => file' = file /\ accepted' = accepted
<1>1. IInv /\ [Next]_vars => [Frozen]_vars
  <2> SUFFICES ASSUME IInv, [Next]_vars, NEW m \in Managers,
                      IsOversized(file.ranking, size[m])
               PROVE  file' = file /\ accepted' = accepted
    OBVIOUS
  <2>1. ASSUME NEW w \in Workers, Inside(w)
        PROVE  file' = file /\ accepted' = accepted
    <3>1. pc[w] # "idle" /\ TypeOK
      BY <2>1, InsideLocal DEF IInv, Locked
    <3>2. IsOversized(file.ranking, size[job[w].manager])
      BY <3>1, CallFields DEF OneManager
    <3>3. file.ranking # <<>>
      BY <3>1, <3>2, CallFields DEF IsOversized
    <3>4. CallInv(w) /\ file.state # "absent"
      BY <3>3 DEF IInv, StoreInv
    <3>5. pc[w] \notin {"init_open", "init_write", "open", "write"}
      BY <3>2, <3>3, <3>4 DEF CallInv
    <3>6. ~RankTooLow(w)
      BY <3>2, <3>4 DEF RankTooLow, At, CallInv
    <3>7. \/ Exists(w) \/ ReadDocument(w) \/ ReadTorn(w) \/ ReadFails(w) \/ Recheck(w)
          \/ RankEnters(w) \/ RankOversized(w)
      BY <2>1, <3>5, <3>6 DEF Inside, InitOpen, InitOpenFails, InitWrite,
            InitWriteFails, Open, OpenFails, Write, WriteFails, At
    <3> QED BY <3>7 DEF Exists, ReadDocument, ReadTorn, ReadFails, Recheck,
                        RankEnters, RankOversized
  <2>2. CASE ~ \E w \in Workers : Inside(w)
    BY <2>2, NextCases, OutsideStore DEF IInv
  <2> QED BY <2>1, <2>2
<1> QED BY <1>1, Invariance, PTL DEF Spec, OversizedIsFrozen

------------------------------------------------------------------------------
(* One manager and one size for every process: the board is the best of all. *)

(* The scores that are stored, and those a call is about to store: its new one
   is the last to be accepted. *)
BestInv(k) ==
    /\ file.ranking = TopOf(accepted, k)
    /\ \A w \in Workers : pc[w] \in {"open", "write"} =>
            seen[w] = TopOf(Append(accepted, job[w].score), k)

LEMMA InsideBest ==
    ASSUME OneManager, IInv, NEW k \in Nat, Sizes = {k}, BestInv(k),
           NEW w \in Workers, Inside(w)
    PROVE  BestInv(k)'
<1> USE DEF At
<1>0. /\ TypeOK /\ LockExcludes /\ GenuineInv /\ StoreInv /\ CallInv(w)
      /\ accepted \in Seq(Scores)
  BY DEF IInv, StoreInv, TypeOK
<1>1. /\ pc[w] \in Locked /\ UNCHANGED <<job, size>>
      /\ \A v \in Workers \ {w} : pc'[v] = pc[v]
  BY <1>0, InsideLocal
<1>2. \A v \in Workers \ {w} : pc'[v] \notin {"open", "write"}
  BY <1>0, <1>1, Alone DEF Locked, Steps
<1>3. size[job[w].manager] = k
  <2>1. job[w].manager \in Managers
    BY <1>0, <1>1, CallFields DEF Locked
  <2> QED BY <1>0, <2>1 DEF TypeOK
<1>4. SUFFICES /\ file'.ranking = TopOf(accepted', k)
               /\ pc'[w] \in {"open", "write"} =>
                    seen'[w] = TopOf(Append(accepted', job[w].score), k)
  BY <1>1, <1>2 DEF BestInv
<1>5. /\ file.ranking = TopOf(accepted, k)
      /\ pc[w] \in {"open", "write"} => seen[w] = TopOf(Append(accepted, job[w].score), k)
  BY DEF BestInv
(* Where the new score goes into the ranking, or is too low for it. *)
<1>6. CASE RankEnters(w) \/ RankTooLow(w)
  <2>1. /\ pc[w] = "rank" /\ seen[w] = TopOf(accepted, k) /\ job[w].score \in Scores
        /\ file' = file
    <3>1. pc[w] = "rank" /\ ~IsOversized(seen[w], size[job[w].manager]) /\ file' = file
      BY <1>6 DEF RankEnters, RankTooLow
    <3> QED BY <1>0, <1>5, <3>1, RankFacts
  <2>2. /\ Enters(seen[w], job[w].score, k) =>
                Inserted(seen[w], job[w].score, k) = TopOf(Append(accepted, job[w].score), k)
        /\ ~Enters(seen[w], job[w].score, k) =>
                seen[w] = TopOf(Append(accepted, job[w].score), k)
    BY <1>0, <2>1, ScoresHaveInts, TopOfAppend
  <2>3. CASE RankEnters(w)
    <3>1. /\ Enters(seen[w], job[w].score, k) /\ accepted' = accepted
          /\ seen'[w] = Inserted(seen[w], job[w].score, k)
      BY <1>0, <1>3, <2>3 DEF RankEnters, TypeOK
    <3> QED BY <1>5, <2>1, <2>2, <3>1
  <2>4. CASE RankTooLow(w)
    <3>1. /\ ~Enters(seen[w], job[w].score, k) /\ pc'[w] = "unlock"
          /\ accepted' = Append(accepted, job[w].score)
      BY <1>0, <1>3, <2>4 DEF RankTooLow, TypeOK, Return, GoTo
    <3> QED BY <1>5, <2>1, <2>2, <3>1
  <2> QED BY <1>6, <2>3, <2>4
<1>7. CASE Write(w)
  <2>1. /\ pc[w] = "write" /\ pc'[w] = "unlock" /\ file'.ranking = seen[w]
        /\ accepted' = Append(accepted, job[w].score)
    BY <1>0, <1>7 DEF Write, Document, TypeOK, Return, GoTo
  <2> QED BY <1>5, <2>1
<1>8. CASE Open(w)
  <2>1. /\ pc[w] = "open" /\ file'.ranking = file.ranking /\ seen' = seen
        /\ accepted' = accepted
    BY <1>8 DEF Open, Torn
  <2> QED BY <1>5, <2>1
<1>9. CASE InitWrite(w) \/ InitWriteFails(w)
  <2>1. /\ pc[w] = "init_write" /\ file'.ranking = <<>> /\ Obtained(w, <<>>)
        /\ accepted' = accepted
    BY <1>9 DEF InitWrite, InitWriteFails, Document, Torn
  <2>2. pc'[w] \in {"rank", "unlock"}
    BY <1>0, <2>1 DEF TypeOK, Obtained, Return, GoTo
  <2>3. file.ranking = <<>>
    BY <1>0, <2>1 DEF CallInv
  <2> QED BY <1>5, <2>1, <2>2, <2>3
<1>10. CASE ReadDocument(w) \/ InitOpenFails(w)
  <2>1. PICK r : Obtained(w, r)
    BY <1>10 DEF ReadDocument, InitOpenFails
  <2>2. UNCHANGED <<file, accepted>>
    BY <1>10 DEF ReadDocument, InitOpenFails
  <2>3. pc'[w] \in {"rank", "unlock"}
    BY <1>0, <2>1 DEF TypeOK, Obtained, Return, GoTo
  <2> QED BY <1>5, <2>2, <2>3
<1>11. CASE \/ Exists(w) \/ ReadTorn(w) \/ ReadFails(w) \/ Recheck(w) \/ InitOpen(w)
            \/ RankOversized(w) \/ OpenFails(w) \/ WriteFails(w)
  <2>1. file'.ranking = file.ranking /\ accepted' = accepted
    BY <1>11 DEF Exists, ReadTorn, ReadFails, Recheck, InitOpen, RankOversized, OpenFails,
                 WriteFails, Torn
  <2>2. pc'[w] \in {"recheck", "read", "unlock", "init_open", "init_write"}
    <3>1. CASE Exists(w) \/ ReadFails(w) \/ InitOpen(w)
      BY <1>0, <3>1 DEF TypeOK, Exists, ReadFails, InitOpen, GoTo
    <3>2. CASE Recheck(w)
      BY <1>0, <3>2 DEF TypeOK, Recheck, Return, GoTo
    <3>3. CASE ReadTorn(w) \/ RankOversized(w) \/ OpenFails(w) \/ WriteFails(w)
      BY <1>0, <3>3 DEF TypeOK, ReadTorn, RankOversized, OpenFails, WriteFails, Return, GoTo
    <3> QED BY <1>11, <3>1, <3>2, <3>3
  <2> QED BY <1>5, <2>1, <2>2
<1> QED BY <1>6, <1>7, <1>8, <1>9, <1>10, <1>11 DEF Inside

LEMMA NextBest ==
    ASSUME OneManager, IInv, NEW k \in Nat, Sizes = {k}, BestInv(k), [Next]_vars
    PROVE  BestInv(k)'
<1>0. TypeOK
  BY DEF IInv
<1>1. ASSUME NEW w \in Workers, NEW step \in {"lock", "exists", "idle"},
             pc' = [pc EXCEPT ![w] = step], UNCHANGED <<file, accepted>>,
             \A v \in Workers \ {w} : seen'[v] = seen[v] /\ job'[v] = job[v]
      PROVE  BestInv(k)'
  BY <1>0, <1>1 DEF BestInv, TypeOK
<1>2. ASSUME NEW w \in Workers, NEW call \in Calls, Call(w, call)
      PROVE  BestInv(k)'
  BY <1>0, <1>1, <1>2 DEF Call, GoTo, TypeOK
<1>3. ASSUME NEW w \in Workers, Lock(w) \/ Unlock(w)
      PROVE  BestInv(k)'
  BY <1>0, <1>1, <1>3 DEF Lock, Unlock, GoTo, TypeOK
<1>4. CASE Crash
  BY <1>4 DEF Crash, BestInv
<1>5. CASE UNCHANGED vars
  BY <1>5 DEF vars, BestInv
<1> QED BY <1>2, <1>3, <1>4, <1>5, InsideBest, NextCases

(* With one manager on the file and the same leaderboard_size in every process,
   the file always holds exactly the best of all scores ever accepted, newer
   ones first, whatever the interleaving, the crashes and the failing calls
   (new_score, ranking_lock_). *)
THEOREM BoardIsBestOfAll ==
    ASSUME OneManager, NEW k, Sizes = {k}
    PROVE  Spec => []BoardIsTopOfAccepted
<1>0. k \in Nat
  BY SizesAssumption
<1>1. Init => BestInv(k)
  <2> SUFFICES ASSUME Init PROVE BestInv(k)
    OBVIOUS
  <2>1. file.ranking = <<>> /\ accepted = <<>> /\ \A w \in Workers : pc[w] = "idle"
    BY DEF Init, NoThreads, Absent
  <2>2. TopOf(<<>>, k) = <<>>
    <3>1. <<>> \in Seq(Scores) /\ Len(<<>>) = 0
      OBVIOUS
    <3>2. PICK h \in Seq(Scores) : h = <<>>
      BY <3>1
    <3>3. TopOf(h, k) \in Seq(Scores) /\ Len(TopOf(h, k)) = IF k < Len(h) THEN k ELSE Len(h)
      BY <1>0, ScoresHaveInts, TopOfElements
    <3>4. TopOf(h, k) \in Seq(Scores) /\ Len(TopOf(h, k)) = 0
      BY <1>0, <3>1, <3>2, <3>3
    <3> QED BY <3>2, <3>4, EmptySeq
  <2> QED BY <2>1, <2>2 DEF BestInv
<1>2. IInv /\ BestInv(k) /\ [Next]_vars => BestInv(k)'
  BY <1>0, NextBest
<1>3. IInv /\ BestInv(k) => BoardIsTopOfAccepted
  BY DEF IInv, TypeOK, BestInv, BoardIsTopOfAccepted
<1>4. Spec => []IInv
  BY Invariance
<1> QED BY <1>1, <1>2, <1>3, <1>4, PTL DEF Spec

------------------------------------------------------------------------------
(* The refinement of Leaderboard.                                          *)

(* The best of the board and the score of w's call. *)
NewBoard(w) == TopOf(Append(Reverse(file.ranking), job[w].score), size[job[w].manager])

(* What the call of w knows besides CallInv: why it will fail, and what the
   ranking it is about to store is. *)
CallKnows(w) ==
    /\ pc[w] = "unlock" <=> reply[w] # "none"
    /\ pc[w] = "recheck" /\ file.state # "absent" => faults > 0
    /\ pc[w] = "rank" /\ file.state = "torn" => faults > 0
    /\ pc[w] \in {"open", "write"} => seen[w] = NewBoard(w)

Knows == \A w \in Workers : CallKnows(w)

(* What ranking a score makes of the board. *)
LEMMA RankMakes ==
    ASSUME TypeOK, GenuineInv, StoreInv, NEW w \in Workers,
           RankEnters(w) \/ RankTooLow(w)
    PROVE  /\ RankEnters(w) => Inserted(seen[w], job[w].score, size[job[w].manager]) = NewBoard(w)
           /\ RankTooLow(w) => file.ranking = NewBoard(w)
<1> DEFINE k == size[job[w].manager]
           s == job[w].score
           r == file.ranking
           h == Reverse(r)
<1>1. /\ pc[w] = "rank" /\ ~IsOversized(seen[w], k)
      /\ RankEnters(w) => Enters(seen[w], s, k)
      /\ RankTooLow(w) => ~Enters(seen[w], s, k)
  BY DEF RankEnters, RankTooLow, At
<1>2. /\ seen[w] = r /\ r \in Seq(Scores) /\ IsRanking(r)
      /\ s \in Scores /\ k \in Nat /\ Len(r) <= k
  BY <1>1, RankFacts
<1> HIDE DEF k, s, r
<1>3. h \in Seq(Scores) /\ TopOf(h, k) = r
  BY <1>2, ScoresHaveInts, TopOfReversed
<1>4. /\ Enters(TopOf(h, k), s, k) => Inserted(TopOf(h, k), s, k) = TopOf(Append(h, s), k)
      /\ ~Enters(TopOf(h, k), s, k) => TopOf(h, k) = TopOf(Append(h, s), k)
  <2> HIDE DEF h
  <2> QED BY <1>2, <1>3, ScoresHaveInts, TopOfAppend
<1>5. NewBoard(w) = TopOf(Append(h, s), k)
  BY DEF NewBoard, k, s, r
<1>6. /\ Enters(r, s, k) => Inserted(r, s, k) = NewBoard(w)
      /\ ~Enters(r, s, k) => r = NewBoard(w)
  BY <1>3, <1>4, <1>5
<1>7. /\ Enters(r, s, k) => Inserted(seen[w], s, k) = NewBoard(w)
      /\ RankEnters(w) => Enters(r, s, k)
      /\ RankTooLow(w) => ~Enters(r, s, k)
  BY <1>1, <1>2, <1>6
<1> QED BY <1>6, <1>7 DEF k, s, r

LEMMA InsideNotDone ==
    ASSUME NEW w \in Workers, Inside(w)
    PROVE  pc[w] \in Locked \ {"unlock"}
  BY DEF Inside, Exists, ReadDocument, ReadTorn, ReadFails, Recheck, InitOpen,
         InitOpenFails, InitWrite, InitWriteFails, RankEnters, RankTooLow,
         RankOversized, Open, OpenFails, Write, WriteFails, Locked, Steps, At

LEMMA FaultCounts == TypeOK /\ Fault => faults' > 0
  BY DEF TypeOK, Fault

(* A step inside a call of w, seen from w: either the call goes on, or it has
   its result. *)
LEMMA InsideKnowsOwn ==
    ASSUME TypeOK, GenuineInv, StoreInv, NEW w \in Workers, CallKnows(w), Inside(w)
    PROVE  CallKnows(w)'
<1> USE DEF At
<1>0. reply[w] = "none" /\ job' = job /\ size' = size
  BY InsideNotDone, InsideLocal DEF CallKnows
<1>1. CASE Exists(w) \/ ReadFails(w) \/ InitOpen(w)
  BY <1>0, <1>1, FaultCounts DEF TypeOK, Exists, ReadFails, InitOpen, GoTo, CallKnows
<1>2. CASE Recheck(w)
  BY <1>0, <1>2 DEF TypeOK, Recheck, GoTo, Return, CallKnows
<1>3. CASE \/ ReadTorn(w) \/ RankTooLow(w) \/ RankOversized(w) \/ OpenFails(w)
           \/ Write(w) \/ WriteFails(w)
  <2>1. Return(w, "ok") \/ Return(w, "failed")
    BY <1>3 DEF ReadTorn, RankTooLow, RankOversized, OpenFails, Write, WriteFails
  <2>2. pc'[w] = "unlock" /\ reply'[w] # "none"
    BY <2>1 DEF TypeOK, Return, GoTo
  <2> QED BY <2>2 DEF CallKnows
<1>4. CASE ReadDocument(w) \/ InitOpenFails(w) \/ InitWrite(w) \/ InitWriteFails(w)
  <2>1. PICK r : Obtained(w, r)
    BY <1>4 DEF ReadDocument, InitOpenFails, InitWrite, InitWriteFails
  <2>2. \/ pc'[w] = "rank" /\ reply'[w] = "none"
        \/ pc'[w] = "unlock" /\ reply'[w] # "none"
    BY <1>0, <2>1 DEF TypeOK, Obtained, Return, GoTo
  <2>3. file'.state = "torn" => faults' > 0
    BY <1>4, FaultCounts DEF ReadDocument, InitOpenFails, InitWrite, InitWriteFails,
                             Document, StoreInv, CallInv
  <2> QED BY <2>2, <2>3 DEF CallKnows
<1>5. CASE RankEnters(w)
  <2>1. /\ pc'[w] = "open" /\ UNCHANGED <<file, reply>>
        /\ seen'[w] = Inserted(seen[w], job[w].score, size[job[w].manager])
    BY <1>5 DEF RankEnters, GoTo, TypeOK
  <2>2. NewBoard(w)' = NewBoard(w)
    BY <1>0, <2>1 DEF NewBoard
  <2> QED BY <1>0, <1>5, <2>1, <2>2, RankMakes DEF CallKnows
<1>6. CASE Open(w)
  <2>1. /\ pc[w] = "open" /\ pc'[w] = "write" /\ file'.ranking = file.ranking
        /\ UNCHANGED <<seen, reply>>
    BY <1>6 DEF Open, Torn, GoTo, TypeOK
  <2>2. NewBoard(w)' = NewBoard(w)
    BY <1>0, <2>1 DEF NewBoard
  <2> QED BY <1>0, <2>1, <2>2 DEF CallKnows
<1> QED BY <1>1, <1>2, <1>3, <1>4, <1>5, <1>6 DEF Inside

LEMMA NextKnows ==
    ASSUME OneManager, IInv, Knows, [Next]_vars
    PROVE  Knows'
<1>0. TypeOK /\ LockExcludes /\ GenuineInv /\ StoreInv
  BY DEF IInv
<1>1. ASSUME NEW v \in Workers, pc'[v] = pc[v], reply'[v] = reply[v], pc[v] \in {"idle", "lock"}
      PROVE  CallKnows(v)'
  BY <1>1 DEF Knows, CallKnows
<1>2. ASSUME NEW w \in Workers, Inside(w) PROVE Knows'
  <2>1. ASSUME NEW v \in Workers \ {w} PROVE CallKnows(v)'
    <3>1. pc'[v] = pc[v] /\ reply'[v] = reply[v] /\ pc[w] \in Locked
      BY <1>0, <1>2, InsideLocal
    <3>2. pc[v] \in {"idle", "lock"}
      BY <1>0, <3>1, Alone DEF TypeOK, Locked
    <3> QED BY <1>1, <3>1, <3>2
  <2>2. CallKnows(w)'
    BY <1>0, <1>2, InsideKnowsOwn DEF Knows
  <2> QED BY <2>1, <2>2 DEF Knows
<1>3. ASSUME NEW w \in Workers, UNCHANGED <<file, faults, size>>,
             \A v \in Workers \ {w} : /\ pc'[v] = pc[v] /\ reply'[v] = reply[v]
                                     /\ seen'[v] = seen[v] /\ job'[v] = job[v],
             pc'[w] \in {"idle", "lock", "exists"}, reply'[w] = "none"
      PROVE  Knows'
  <2>1. CallKnows(w)'
    BY <1>3 DEF CallKnows
  <2>2. ASSUME NEW v \in Workers \ {w} PROVE CallKnows(v)'
    BY <1>3 DEF Knows, CallKnows, NewBoard
  <2> QED BY <2>1, <2>2 DEF Knows
<1>4. ASSUME NEW w \in Workers, NEW call \in Calls, Call(w, call) PROVE Knows'
  <2>1. pc[w] = "idle" /\ reply[w] = "none"
    BY <1>4 DEF Call, At, Knows, CallKnows
  <2> QED BY <1>0, <1>3, <1>4, <2>1 DEF Call, GoTo, TypeOK
<1>5. ASSUME NEW w \in Workers, Lock(w) PROVE Knows'
  <2>1. pc[w] = "lock" /\ reply[w] = "none"
    BY <1>5 DEF Lock, At, Knows, CallKnows
  <2> QED BY <1>0, <1>3, <1>5, <2>1 DEF Lock, GoTo, TypeOK
<1>6. ASSUME NEW w \in Workers, Unlock(w) PROVE Knows'
  BY <1>0, <1>3, <1>6 DEF Unlock, GoTo, TypeOK
<1>7. CASE Crash
  BY <1>7 DEF Crash, Knows, CallKnows
<1>8. CASE UNCHANGED vars
  BY <1>8 DEF vars, Knows, CallKnows, NewBoard
<1> QED BY <1>2, <1>4, <1>5, <1>6, <1>7, <1>8, NextCases

------------------------------------------------------------------------------
(* The calls and answers of the abstract board. *)

CallMap == [w \in Workers |-> AbstractCall(w)]
AnswerMap == [w \in Workers |-> AbstractAnswer(w)]

(* What the caller of w has asked. *)
CallMeans(w) ==
    /\ job[w] = NoCall => AbstractCall(w) = Promise!NoCall
    /\ job[w] \in Calls => AbstractCall(w) \in Promise!Calls
    /\ job[w] \in Calls => AbstractCall(w).op = job[w].op
    /\ job[w] \in Calls /\ job[w].op = "new_score" => AbstractCall(w).score = job[w].score

LEMMA CallIs == \A w : CallMeans(w)
<1> SUFFICES ASSUME NEW w PROVE CallMeans(w)
  OBVIOUS
<1>1. job[w] = NoCall => AbstractCall(w) = Promise!NoCall
  BY DEF AbstractCall, NoCall, Promise!NoCall
<1>2. ASSUME job[w] \in Calls, job[w].op = "get_ranking"
      PROVE  AbstractCall(w) = [op |-> "get_ranking"]
  <2>1. job[w] # NoCall
    BY <1>2 DEF NoCall
  <2> QED BY <1>2, <2>1 DEF AbstractCall
<1>3. ASSUME job[w] \in Calls, job[w].op = "new_score"
      PROVE  AbstractCall(w) = [op |-> "new_score", score |-> job[w].score] /\ job[w].score \in Scores
  <2>1. job[w] # NoCall /\ job[w].op # "get_ranking"
    BY <1>3 DEF NoCall
  <2>2. job[w].score \in Scores
    BY <1>3 DEF Calls
  <2> QED BY <2>1, <2>2 DEF AbstractCall
<1>4. job[w] \in Calls => job[w].op \in {"new_score", "get_ranking"}
  BY DEF Calls
<1>5. Scores = Promise!Scores
  BY DEF Scores, ScoreRecord, Promise!Scores, Promise!ScoreRecord
<1> QED BY <1>1, <1>2, <1>3, <1>4, <1>5 DEF CallMeans, Promise!Calls

LEMMA CallIsNext == (\A w : CallMeans(w))'
  BY CallIs, PTL

LEMMA SameCount == \A S : Promise!Cardinality(S) = Cardinality(S)
  BY Zenon DEF Cardinality, Promise!Cardinality

(* Leaderboard speaks of rankings in the same words. *)
LEMMA SameWords ==
    /\ \A h, k : Promise!TopOf(h, k) = TopOf(h, k)
    /\ \A h : Promise!Reverse(h) = Reverse(h)
    /\ \A r, k : Promise!IsOversized(r, k) <=> IsOversized(r, k)
<1>1. ASSUME NEW h, NEW i
      PROVE  Promise!Place(h, i) = Place(h, i)
  <2>1. {j \in 1 .. Len(h) : Promise!Precedes(h, j, i)} = {j \in 1 .. Len(h) : Precedes(h, j, i)}
    BY DEF Precedes, Promise!Precedes
  <2> QED BY <2>1, SameCount DEF Place, Promise!Place
<1>2. ASSUME NEW h, NEW p
      PROVE  (CHOOSE i \in 1 .. Len(h) : Promise!Place(h, i) = p)
              = (CHOOSE i \in 1 .. Len(h) : Place(h, i) = p)
  BY <1>1
<1>3. ASSUME NEW h, NEW k
      PROVE  Promise!TopOf(h, k) = TopOf(h, k)
  <2> DEFINE at(p) == CHOOSE i \in 1 .. Len(h) : Place(h, i) = p
             its(p) == CHOOSE i \in 1 .. Len(h) : Promise!Place(h, i) = p
  <2>1. TopOf(h, k) = [p \in 1 .. (IF k < Len(h) THEN k ELSE Len(h)) |-> h[at(p)]]
    BY DEF TopOf
  <2>2. Promise!TopOf(h, k) = [p \in 1 .. (IF k < Len(h) THEN k ELSE Len(h)) |-> h[its(p)]]
    BY DEF Promise!TopOf
  <2>3. \A p : its(p) = at(p)
    BY <1>2
  <2> HIDE DEF at, its
  <2> QED BY <2>1, <2>2, <2>3
<1>4. \A h : Promise!Reverse(h) = Reverse(h)
  BY DEF Reverse, Promise!Reverse
<1> QED BY <1>3, <1>4 DEF IsOversized, Promise!IsOversized

(* What the caller of w is told. *)
AnswerMeans(w) ==
    /\ reply[w] = "none" => AbstractAnswer(w) = Promise!Pending
    /\ reply[w] = "failed" => AbstractAnswer(w) = Promise!Failed
    /\ reply[w] = "ok" /\ job[w].op = "new_score" => AbstractAnswer(w) = Promise!Done
    /\ reply[w] = "ok" /\ job[w].op = "get_ranking" =>
            AbstractAnswer(w) = Promise!Shown(seen[w])

LEMMA AnswerIs == \A w : AnswerMeans(w)
<1> SUFFICES ASSUME NEW w PROVE AnswerMeans(w)
  OBVIOUS
<1>1. reply[w] = "none" => AbstractAnswer(w) = Promise!Pending
  BY DEF AbstractAnswer, Promise!Pending
<1>2. reply[w] = "failed" => AbstractAnswer(w) = Promise!Failed
  BY DEF AbstractAnswer, Promise!Failed
<1>3. reply[w] = "ok" /\ job[w].op = "new_score" => AbstractAnswer(w) = Promise!Done
  BY DEF AbstractAnswer, Promise!Done
<1>4. reply[w] = "ok" /\ job[w].op = "get_ranking" => AbstractAnswer(w) = Promise!Shown(seen[w])
  BY DEF AbstractAnswer, Promise!Shown
<1> QED BY <1>1, <1>2, <1>3, <1>4 DEF AnswerMeans

LEMMA AnswerIsNext == (\A w : AnswerMeans(w))'
  BY AnswerIs, PTL

------------------------------------------------------------------------------
(* The steps of the abstract board, said of the detailed state. *)

Answers(w, a) == AnswerMap' = [AnswerMap EXCEPT ![w] = a]

BoardKept == UNCHANGED <<file.ranking, size[TheManager], CallMap>>

(* A call of the storage fails, and the file may be left damaged. *)
MayBreak ==
    /\ faults \in Nat /\ faults' \in Nat
    /\ faults > 0 => faults' > 0
    /\ Damaged => Damaged'
    /\ Damaged' => Damaged \/ faults' > 0

LEMMA StutterIs ==
    ASSUME BoardKept, AnswerMap' = AnswerMap, Damaged' <=> Damaged, faults' = faults
    PROVE  UNCHANGED Promise!vars
  BY DEF BoardKept, Promise!vars, CallMap, AnswerMap, Damaged

LEMMA FailIs ==
    ASSUME BoardKept, AnswerMap' = AnswerMap, Damaged' <=> Damaged, faults' > 0
    PROVE  Promise!Fail
  BY DEF BoardKept, Promise!Fail, CallMap, AnswerMap, Damaged

LEMMA BreakIs ==
    ASSUME MayBreak
    PROVE  Promise!BreakUnder
<1>1. (faults > 0)' \in {faults > 0, TRUE}
  <2>1. (faults' > 0) = TRUE \/ (faults' > 0) = (faults > 0)
    BY DEF MayBreak
  <2> QED BY <2>1, Zenon
<1>2. Damaged' \in {Damaged, Damaged \/ (faults > 0)'}
  BY DEF MayBreak, Damaged
<1> QED BY <1>1, <1>2 DEF Promise!BreakUnder

LEMMA ShowIs ==
    ASSUME NEW w \in Workers, AbstractCall(w).op = "get_ranking",
           AbstractAnswer(w) = Promise!Pending, ~Damaged, BoardKept, MayBreak,
           Answers(w, Promise!Shown(file.ranking))
    PROVE  Promise!Show(w)
<1>1. Promise!Unanswered(w, "get_ranking")
  BY DEF Promise!Unanswered
<1> QED BY <1>1, BreakIs DEF Promise!Show, BoardKept, Answers, CallMap, AnswerMap

LEMMA RefuseIs ==
    ASSUME NEW w \in Workers, AbstractCall(w) # Promise!NoCall,
           AbstractAnswer(w) = Promise!Pending, BoardKept, MayBreak,
           \/ Damaged
           \/ faults' > 0
           \/ /\ AbstractCall(w).op = "new_score"
              /\ IsOversized(file.ranking, size[TheManager]),
           Answers(w, Promise!Failed)
    PROVE  Promise!Refuse(w)
  BY BreakIs, SameWords DEF Promise!Refuse, BoardKept, Answers, CallMap, AnswerMap

LEMMA RegisterIs ==
    ASSUME NEW w \in Workers, AbstractCall(w).op = "new_score",
           AbstractCall(w).score = job[w].score,
           size[TheManager] = size[job[w].manager],
           AbstractAnswer(w) = Promise!Pending, ~Damaged, ~Damaged',
           ~IsOversized(file.ranking, size[TheManager]),
           file'.ranking = NewBoard(w),
           UNCHANGED <<size[TheManager], CallMap, faults>>,
           Answers(w, Promise!Done)
    PROVE  Promise!Register(w)
<1>1. Promise!Unanswered(w, "new_score")
  BY DEF Promise!Unanswered
<1>2. ~Promise!IsOversized(file.ranking, size[TheManager])
  BY SameWords
<1>3. file'.ranking = Promise!TopOf(Append(Promise!Reverse(file.ranking), AbstractCall(w).score),
                                    size[TheManager])
  BY SameWords DEF NewBoard
<1>4. Damaged' = Damaged
  BY DEF Damaged
<1> QED BY <1>1, <1>2, <1>3, <1>4 DEF Promise!Register, Answers, CallMap, AnswerMap

LEMMA IntoDamageIs ==
    ASSUME NEW w \in Workers, AbstractCall(w).op = "new_score",
           AbstractAnswer(w) = Promise!Pending, ~Damaged, Damaged', faults' > 0,
           ~IsOversized(file.ranking, size[TheManager]), BoardKept,
           Answers(w, Promise!Done)
    PROVE  Promise!RegisterIntoDamage(w)
<1>1. Promise!Unanswered(w, "new_score")
  BY DEF Promise!Unanswered
<1>2. ~Promise!IsOversized(file.ranking, size[TheManager])
  BY SameWords
<1>3. Damaged' = TRUE
  BY DEF Damaged
<1> QED BY <1>1, <1>2, <1>3
        DEF Promise!RegisterIntoDamage, BoardKept, Answers, CallMap, AnswerMap

------------------------------------------------------------------------------
(* The steps inside a call. *)

LEMMA TheManagerIs ==
    ASSUME OneManager, NEW m \in Managers
    PROVE  TheManager = m
<1>1. TheManager \in Managers
  BY DEF TheManager
<1> QED BY <1>1 DEF OneManager

LEMMA InsideMaps ==
    ASSUME OneManager, IInv, Knows, NEW w \in Workers, Inside(w)
    PROVE  /\ UNCHANGED <<size[TheManager], CallMap>>
           /\ size[TheManager] = size[job[w].manager]
           /\ AbstractCall(w) # Promise!NoCall
           /\ AbstractCall(w).op = job[w].op /\ job[w].op \in {"new_score", "get_ranking"}
           /\ job[w].op = "new_score" => AbstractCall(w).score = job[w].score
           /\ AbstractAnswer(w) = Promise!Pending
           /\ reply'[w] = "none" => AnswerMap' = AnswerMap
           /\ reply'[w] = "failed" => Answers(w, Promise!Failed)
           /\ reply'[w] = "ok" /\ job[w].op = "new_score" => Answers(w, Promise!Done)
           /\ reply'[w] = "ok" /\ job[w].op = "get_ranking" =>
                Answers(w, Promise!Shown(seen'[w]))
           /\ Damaged <=> file.state = "torn" /\ pc[w] \notin MayStore
           /\ Damaged' <=> file'.state = "torn" /\ pc'[w] \notin MayStore
<1>0. TypeOK /\ LockExcludes /\ CallKnows(w)
  BY DEF IInv, Knows
<1>1. /\ pc[w] \in Locked \ {"unlock"} /\ pc[w] # "idle"
      /\ job' = job /\ size' = size
      /\ \A v \in Workers \ {w} : pc'[v] = pc[v] /\ seen'[v] = seen[v] /\ reply'[v] = reply[v]
  BY <1>0, InsideNotDone, InsideLocal DEF Locked
<1>2. /\ job[w] \in Calls /\ job[w].manager \in Managers
      /\ job[w].op \in {"new_score", "get_ranking"}
  BY <1>0, <1>1, CallFields
<1>3. UNCHANGED <<size[TheManager], CallMap>> /\ size[TheManager] = size[job[w].manager]
  BY <1>1, <1>2, TheManagerIs DEF CallMap, AbstractCall
<1>4. /\ AbstractCall(w) # Promise!NoCall
      /\ AbstractCall(w).op = job[w].op
      /\ job[w].op = "new_score" => AbstractCall(w).score = job[w].score
  <2>1. AbstractCall(w).op = job[w].op
        /\ (job[w].op = "new_score" => AbstractCall(w).score = job[w].score)
    BY <1>2, CallIs DEF CallMeans
  <2>2. Promise!NoCall.op = "none"
    BY DEF Promise!NoCall
  <2> QED BY <1>2, <2>1, <2>2
<1>5. AbstractAnswer(w) = Promise!Pending /\ reply[w] = "none"
  BY <1>0, <1>1, AnswerIs DEF CallKnows, AnswerMeans
<1>6. \A v \in Workers \ {w} : AbstractAnswer(v)' = AbstractAnswer(v)
  BY <1>1 DEF AbstractAnswer
<1>7. \A a : AbstractAnswer(w)' = a => Answers(w, a)
  BY <1>6 DEF Answers, AnswerMap
<1>8. reply'[w] = "none" => AnswerMap' = AnswerMap
  <2>1. reply'[w] = "none" => AbstractAnswer(w)' = AbstractAnswer(w)
    BY <1>5, AnswerIsNext DEF AnswerMeans
  <2> QED BY <1>6, <2>1 DEF AnswerMap
<1>9. /\ reply'[w] = "failed" => AbstractAnswer(w)' = Promise!Failed
      /\ reply'[w] = "ok" /\ job[w].op = "new_score" => AbstractAnswer(w)' = Promise!Done
      /\ reply'[w] = "ok" /\ job[w].op = "get_ranking" =>
                AbstractAnswer(w)' = Promise!Shown(seen'[w])
  <2>1. AnswerMeans(w)'
    BY AnswerIsNext
  <2> QED BY <1>1, <2>1 DEF AnswerMeans, Promise!Failed, Promise!Done, Promise!Shown
<1>10. \A v \in Workers \ {w} : pc[v] \notin MayStore /\ pc'[v] \notin MayStore
  BY <1>0, <1>1, Alone DEF MayStore, Locked, Steps
<1>11. /\ Damaged <=> file.state = "torn" /\ pc[w] \notin MayStore
       /\ Damaged' <=> file'.state = "torn" /\ pc'[w] \notin MayStore
  BY <1>10 DEF Damaged
<1> QED BY <1>2, <1>3, <1>4, <1>5, <1>7, <1>8, <1>9, <1>11

(* Each of them is one step of the abstract board for the caller, a failure of
   the storage, or nothing. *)
LEMMA InsideImplements ==
    ASSUME OneManager, IInv, Knows, NEW w \in Workers, Inside(w)
    PROVE  \/ Promise!Register(w) \/ Promise!RegisterIntoDamage(w) \/ Promise!Show(w)
           \/ Promise!Refuse(w) \/ Promise!Fail
           \/ UNCHANGED Promise!vars
<1> USE DEF At
<1>0. /\ TypeOK /\ GenuineInv /\ StoreInv /\ CallInv(w) /\ CallKnows(w)
      /\ faults \in Nat /\ file.state \in {"absent", "torn", "doc"}
      /\ reply[w] = "none"
  BY InsideNotDone DEF IInv, StoreInv, Knows, TypeOK, CallKnows
<1>1. \A a : Return(w, a) => pc'[w] = "unlock" /\ reply'[w] = a
  BY <1>0 DEF TypeOK, Return, GoTo
<1>2. \A r : Obtained(w, r) =>
        /\ job[w].op = "new_score" => pc'[w] = "rank" /\ reply'[w] = "none"
        /\ job[w].op # "new_score" => pc'[w] = "unlock" /\ reply'[w] = "ok" /\ seen'[w] = r
  BY <1>0 DEF TypeOK, Obtained, Return, GoTo
<1>3. Fault => faults' \in Nat /\ faults' > 0
  BY <1>0 DEF Fault
(* The call obtains a ranking, which is the board; a GET is answered by it. *)
<1>4. ASSUME NEW r, Obtained(w, r), r = file.ranking, file'.ranking = file.ranking, ~Damaged,
             \/ ~Damaged' /\ faults' = faults
             \/ faults' \in Nat /\ faults' > 0 /\ (job[w].op = "new_score" => ~Damaged')
      PROVE  Promise!Show(w) \/ Promise!Fail \/ UNCHANGED Promise!vars
  <2>1. BoardKept
    BY <1>4, InsideMaps DEF BoardKept
  <2>2. CASE job[w].op = "new_score"
    BY <1>2, <1>4, <2>1, <2>2, InsideMaps, FailIs, StutterIs
  <2>3. CASE job[w].op = "get_ranking"
    <3>1. MayBreak
      BY <1>0, <1>4 DEF MayBreak
    <3>2. Answers(w, Promise!Shown(file.ranking))
      <4>1. reply'[w] = "ok" /\ seen'[w] = file.ranking
        BY <1>2, <1>4, <2>3
      <4> QED BY <2>3, <4>1, InsideMaps
    <3> QED BY <1>4, <2>1, <2>3, <3>1, <3>2, InsideMaps, ShowIs
  <2> QED BY <2>2, <2>3, InsideMaps
(* The call is refused. *)
<1>5. ASSUME Return(w, "failed"), file' = file,
             faults' = faults \/ (faults' \in Nat /\ faults' > 0),
             \/ Damaged
             \/ faults' > 0
             \/ /\ job[w].op = "new_score" /\ IsOversized(file.ranking, size[job[w].manager])
                /\ file.state = "torn" => faults > 0
      PROVE  Promise!Refuse(w)
  <2>1. BoardKept /\ Answers(w, Promise!Failed)
    BY <1>1, <1>5, InsideMaps DEF BoardKept
  <2>2. Damaged' <=> file.state = "torn"
    BY <1>1, <1>5, InsideMaps DEF MayStore
  <2>3. MayBreak
    BY <1>0, <1>5, <2>2, InsideMaps DEF MayBreak
  <2>4. \/ Damaged
        \/ faults' > 0
        \/ /\ AbstractCall(w).op = "new_score"
           /\ IsOversized(file.ranking, size[TheManager])
    BY <1>5, InsideMaps
  <2> QED BY <2>1, <2>3, <2>4, InsideMaps, RefuseIs
<1>6. CASE Exists(w) \/ ReadFails(w) \/ (Recheck(w) /\ file.state = "absent")
  <2>1. /\ pc[w] \notin MayStore /\ pc'[w] \notin MayStore /\ file' = file /\ reply' = reply
        /\ faults' = faults \/ faults' > 0
    BY <1>0, <1>3, <1>6 DEF Exists, ReadFails, Recheck, GoTo, TypeOK, MayStore
  <2>2. BoardKept /\ AnswerMap' = AnswerMap /\ (Damaged' <=> Damaged)
    BY <1>0, <2>1, InsideMaps DEF BoardKept
  <2> QED BY <2>1, <2>2, StutterIs, FailIs
<1>7. CASE (Recheck(w) /\ file.state # "absent") \/ ReadTorn(w)
  <2>1. Return(w, "failed") /\ UNCHANGED <<file, faults>>
    BY <1>7 DEF Recheck, ReadTorn
  <2>2. Damaged \/ faults > 0
    <3>1. CASE Recheck(w) /\ file.state # "absent"
      BY <1>0, <3>1 DEF Recheck, CallKnows
    <3>2. CASE ReadTorn(w)
      BY <3>2, InsideMaps DEF ReadTorn, MayStore
    <3> QED BY <1>7, <3>1, <3>2
  <2>3. file' = file /\ faults' = faults /\ (Damaged \/ faults' > 0)
    BY <2>1, <2>2
  <2>4. Promise!Refuse(w)
    BY <1>5, <2>1, <2>3
  <2> QED BY <2>4
<1>8. CASE ReadDocument(w)
  <2>1. Obtained(w, file.ranking) /\ UNCHANGED <<file, faults>> /\ ~Damaged /\ ~Damaged'
    BY <1>8, InsideMaps DEF ReadDocument
  <2> QED BY <1>4, <2>1
<1>9. CASE InitOpen(w) \/ RankEnters(w) \/ Open(w)
  <2>1. /\ file'.ranking = file.ranking /\ UNCHANGED <<faults, reply>>
        /\ pc'[w] \in MayStore
        /\ pc[w] \in MayStore \/ file.state = "absent"
    BY <1>0, <1>9 DEF InitOpen, RankEnters, Open, Torn, GoTo, TypeOK, MayStore, CallInv
  <2>2. ~Damaged /\ ~Damaged' /\ BoardKept /\ AnswerMap' = AnswerMap
    BY <1>0, <2>1, InsideMaps DEF BoardKept
  <2> QED BY <2>1, <2>2, StutterIs
<1>10. CASE InitOpenFails(w)
  <2>1. /\ Obtained(w, <<>>) /\ file' = file /\ file.state = "absent" /\ file.ranking = <<>>
        /\ faults' \in Nat /\ faults' > 0
    BY <1>0, <1>3, <1>10 DEF InitOpenFails, CallInv, StoreInv
  <2>2. ~Damaged /\ ~Damaged'
    BY <2>1, InsideMaps
  <2> QED BY <1>4, <2>1, <2>2
<1>11. CASE InitWrite(w)
  <2>1. /\ Obtained(w, <<>>) /\ file.ranking = <<>> /\ file' = Document(<<>>)
        /\ faults' = faults /\ pc[w] = "init_write"
    BY <1>0, <1>11 DEF InitWrite, CallInv
  <2>2. file'.ranking = <<>> /\ file'.state = "doc"
    BY <2>1 DEF Document
  <2>3. ~Damaged /\ ~Damaged'
    BY <2>1, <2>2, InsideMaps DEF MayStore
  <2> QED BY <1>4, <2>1, <2>2, <2>3
<1>12. CASE InitWriteFails(w)
  <2>1. /\ Obtained(w, <<>>) /\ file.ranking = <<>> /\ file' = Torn(<<>>)
        /\ faults' \in Nat /\ faults' > 0 /\ pc[w] = "init_write"
    BY <1>0, <1>3, <1>12 DEF InitWriteFails, CallInv
  <2>2. file'.ranking = <<>>
    BY <2>1 DEF Torn
  <2>3. ~Damaged /\ (job[w].op = "new_score" => ~Damaged')
    BY <1>2, <2>1, InsideMaps DEF MayStore
  <2> QED BY <1>4, <2>1, <2>2, <2>3
<1>13. CASE RankTooLow(w)
  <2>1. /\ pc[w] = "rank" /\ Return(w, "ok") /\ UNCHANGED <<file, faults>>
        /\ ~IsOversized(seen[w], size[job[w].manager])
    BY <1>13 DEF RankTooLow
  <2>2. /\ ~IsOversized(file.ranking, size[TheManager]) /\ job[w].op = "new_score"
        /\ file.ranking = NewBoard(w)
    BY <1>0, <1>13, <2>1, RankFacts, RankMakes, InsideMaps
  <2>3. /\ BoardKept /\ Answers(w, Promise!Done) /\ ~Damaged
        /\ Damaged' <=> file.state = "torn"
    BY <1>1, <2>1, <2>2, InsideMaps DEF BoardKept, MayStore
  <2>4. CASE file.state = "torn"
    BY <1>0, <2>1, <2>2, <2>3, <2>4, InsideMaps, IntoDamageIs DEF CallKnows
  <2>5. CASE file.state # "torn"
    BY <2>1, <2>2, <2>3, <2>5, InsideMaps, RegisterIs
  <2> QED BY <2>4, <2>5
<1>14. CASE RankOversized(w)
  <2>1. /\ pc[w] = "rank" /\ Return(w, "failed") /\ UNCHANGED <<file, faults>>
        /\ IsOversized(seen[w], size[job[w].manager])
    BY <1>14 DEF RankOversized
  <2>2. seen[w] = file.ranking /\ job[w].op = "new_score" /\ (file.state = "torn" => faults > 0)
    BY <1>0, <2>1 DEF CallInv, CallKnows, TypeOK, Storing
  <2>3. /\ file' = file /\ faults' = faults
        /\ IsOversized(file.ranking, size[job[w].manager])
    BY <2>1, <2>2
  <2>4. Promise!Refuse(w)
    BY <1>5, <2>1, <2>2, <2>3
  <2> QED BY <2>4
<1>15. CASE OpenFails(w)
  <2>1. Return(w, "failed") /\ file' = file /\ faults' \in Nat /\ faults' > 0
    BY <1>3, <1>15 DEF OpenFails
  <2> QED BY <1>5, <2>1
<1>16. CASE Write(w)
  <2>1. /\ pc[w] = "write" /\ Return(w, "ok") /\ file' = Document(seen[w])
        /\ faults' = faults
    BY <1>16 DEF Write
  <2>2. /\ ~IsOversized(file.ranking, size[TheManager]) /\ job[w].op = "new_score"
        /\ seen[w] = NewBoard(w)
    BY <1>0, <2>1, InsideMaps DEF CallInv, CallKnows, TypeOK, Storing
  <2>3. file'.ranking = NewBoard(w) /\ file'.state = "doc"
    BY <2>1, <2>2 DEF Document
  <2>4. ~Damaged /\ ~Damaged' /\ Answers(w, Promise!Done)
    BY <1>1, <2>1, <2>2, <2>3, InsideMaps DEF MayStore
  <2> QED BY <2>1, <2>2, <2>3, <2>4, InsideMaps, RegisterIs
<1>17. CASE WriteFails(w)
  <2>1. /\ pc[w] = "write" /\ Return(w, "ok") /\ file' = Torn(file.ranking)
        /\ faults' > 0
    BY <1>3, <1>17 DEF WriteFails
  <2>2. /\ ~IsOversized(file.ranking, size[TheManager]) /\ job[w].op = "new_score"
    BY <1>0, <2>1, InsideMaps DEF CallInv, TypeOK, Storing
  <2>3. file'.ranking = file.ranking /\ file'.state = "torn"
    BY <2>1 DEF Torn
  <2>4. ~Damaged /\ Damaged' /\ Answers(w, Promise!Done) /\ BoardKept
    BY <1>1, <2>1, <2>2, <2>3, InsideMaps DEF MayStore, BoardKept
  <2> QED BY <2>1, <2>2, <2>4, InsideMaps, IntoDamageIs
<1> QED BY <1>6, <1>7, <1>8, <1>9, <1>10, <1>11, <1>12, <1>13, <1>14, <1>15, <1>16, <1>17
        DEF Inside

------------------------------------------------------------------------------
(* The steps outside, and the whole. *)

LEMMA CallImplements ==
    ASSUME IInv, Knows, NEW w \in Workers, NEW request \in Calls, Call(w, request)
    PROVE  Promise!Invoke(w)
<1>0. TypeOK /\ CallKnows(w)
  BY DEF IInv, Knows
<1>1. /\ pc[w] = "idle" /\ job[w] = NoCall /\ reply[w] = "none"
      /\ job' = [job EXCEPT ![w] = request] /\ pc' = [pc EXCEPT ![w] = "lock"]
      /\ UNCHANGED <<file, seen, reply, size, faults>>
  BY <1>0 DEF Call, GoTo, At, TypeOK, CallKnows
<1>2. job'[w] = request /\ \A v \in Workers \ {w} : job'[v] = job[v]
  BY <1>0, <1>1 DEF TypeOK
<1>3. AbstractCall(w) = Promise!NoCall
  BY <1>1, CallIs DEF CallMeans
<1>4. AbstractCall(w)' \in Promise!Calls
  BY <1>2, CallIsNext DEF CallMeans
<1>5. \A v \in Workers \ {w} : /\ AbstractCall(v)' = AbstractCall(v)
                              /\ AbstractAnswer(v)' = AbstractAnswer(v)
  BY <1>1, <1>2 DEF AbstractCall, AbstractAnswer
<1>6. AbstractAnswer(w)' = AbstractAnswer(w)
  BY <1>1, AnswerIs, AnswerIsNext DEF AnswerMeans
<1>7. \E r \in Promise!Calls : CallMap' = [CallMap EXCEPT ![w] = r]
  <2>1. CallMap' = [CallMap EXCEPT ![w] = AbstractCall(w)']
    BY <1>5 DEF CallMap
  <2> QED BY <1>4, <2>1
<1>8. AnswerMap' = AnswerMap
  BY <1>5, <1>6 DEF AnswerMap
<1>9. Damaged' = Damaged
  <2>1. \A v \in Workers : pc'[v] \in MayStore <=> pc[v] \in MayStore
    BY <1>0, <1>1 DEF TypeOK, MayStore
  <2> QED BY <1>1, <2>1 DEF Damaged
<1> QED BY <1>1, <1>3, <1>7, <1>8, <1>9 DEF Promise!Invoke, CallMap, AnswerMap

LEMMA LockImplements ==
    ASSUME IInv, NEW w \in Workers, Lock(w)
    PROVE  UNCHANGED Promise!vars
<1>1. /\ pc[w] = "lock" /\ pc' = [pc EXCEPT ![w] = "exists"]
      /\ UNCHANGED <<file, job, seen, reply, size, faults>>
  BY DEF Lock, GoTo, At
<1>2. CallMap' = CallMap /\ AnswerMap' = AnswerMap
  BY <1>1 DEF CallMap, AnswerMap, AbstractCall, AbstractAnswer
<1>3. Damaged' <=> Damaged
  <2>1. \A v \in Workers : pc'[v] \in MayStore <=> pc[v] \in MayStore
    BY <1>1 DEF IInv, TypeOK, MayStore
  <2> QED BY <1>1, <2>1 DEF Damaged
<1> QED BY <1>1, <1>2, <1>3, StutterIs DEF BoardKept

LEMMA UnlockImplements ==
    ASSUME IInv, Knows, NEW w \in Workers, Unlock(w)
    PROVE  Promise!Respond(w)
<1>0. TypeOK /\ CallKnows(w)
  BY DEF IInv, Knows
<1>1. /\ pc[w] = "unlock" /\ reply[w] # "none"
      /\ pc' = [pc EXCEPT ![w] = "idle"]
      /\ job'[w] = NoCall /\ reply'[w] = "none"
      /\ UNCHANGED <<file, size, faults>>
      /\ \A v \in Workers \ {w} : job'[v] = job[v] /\ seen'[v] = seen[v] /\ reply'[v] = reply[v]
  BY <1>0 DEF Unlock, GoTo, At, TypeOK, CallKnows
<1>2. AbstractAnswer(w) # Promise!Pending
  <2>1. AbstractAnswer(w).result \in {"failed", "ok"}
    BY <1>0, <1>1 DEF TypeOK, AbstractAnswer
  <2>2. Promise!Pending.result = "pending"
    BY DEF Promise!Pending
  <2> QED BY <2>1, <2>2
<1>3. AbstractCall(w)' = Promise!NoCall /\ AbstractAnswer(w)' = Promise!Pending
  BY <1>1, CallIsNext, AnswerIsNext DEF CallMeans, AnswerMeans
<1>4. \A v \in Workers \ {w} : /\ AbstractCall(v)' = AbstractCall(v)
                              /\ AbstractAnswer(v)' = AbstractAnswer(v)
  BY <1>1 DEF AbstractCall, AbstractAnswer
<1>5. /\ CallMap' = [CallMap EXCEPT ![w] = Promise!NoCall]
      /\ AnswerMap' = [AnswerMap EXCEPT ![w] = Promise!Pending]
  BY <1>3, <1>4 DEF CallMap, AnswerMap
<1>6. Damaged' = Damaged
  <2>1. \A v \in Workers : pc'[v] \in MayStore <=> pc[v] \in MayStore
    BY <1>0, <1>1 DEF TypeOK, MayStore
  <2> QED BY <1>1, <2>1 DEF Damaged
<1> QED BY <1>1, <1>2, <1>5, <1>6 DEF Promise!Respond, CallMap, AnswerMap

LEMMA CrashImplements ==
    ASSUME NEW m, Managers = {m}, IInv, Crash
    PROVE  Promise!Restart
<1>0. TypeOK
  BY DEF IInv
<1>1. /\ \A w \in Workers : pc'[w] = "idle" /\ job'[w] = NoCall /\ reply'[w] = "none"
      /\ UNCHANGED <<file, faults>> /\ size' \in [Managers -> Sizes]
  BY DEF Crash
<1>2. (size[TheManager])' \in Sizes
  BY <1>1 DEF TheManager
<1>3. \A w \in Workers : AbstractCall(w)' = Promise!NoCall /\ AbstractAnswer(w)' = Promise!Pending
  BY <1>1, CallIsNext, AnswerIsNext DEF CallMeans, AnswerMeans
<1>4. /\ CallMap' = [w \in Workers |-> Promise!NoCall]
      /\ AnswerMap' = [w \in Workers |-> Promise!Pending]
  BY <1>3 DEF CallMap, AnswerMap
<1>5. Damaged' <=> file.state = "torn"
  BY <1>1 DEF Damaged, MayStore
<1>6. Damaged' => Damaged \/ \E w \in Workers : CallMap[w] # Promise!NoCall
  <2> SUFFICES ASSUME file.state = "torn", NEW w \in Workers, pc[w] \in MayStore
      PROVE  CallMap[w] # Promise!NoCall
    BY <1>5 DEF Damaged
  <2>1. job[w] \in Calls /\ job[w].op \in {"new_score", "get_ranking"}
    BY <1>0, CallFields DEF MayStore
  <2>2. AbstractCall(w).op \in {"new_score", "get_ranking"} /\ Promise!NoCall.op = "none"
    BY <2>1, CallIs DEF CallMeans, Promise!NoCall
  <2> QED BY <2>2 DEF CallMap
<1>7. Damaged => Damaged'
  BY <1>5 DEF Damaged
<1>8. Damaged' \in {Damaged, Damaged \/ \E w \in Workers : CallMap[w] # Promise!NoCall}
  BY <1>6, <1>7 DEF Damaged
<1> QED BY <1>1, <1>2, <1>4, <1>8 DEF Promise!Restart, CallMap, AnswerMap

LEMMA NextImplements ==
    ASSUME NEW m, Managers = {m}, IInv, Knows, [Next]_vars
    PROVE  [Promise!Next]_(Promise!vars)
<1>1. OneManager
  BY DEF OneManager
<1>2. CASE \E w \in Workers, request \in Calls : Call(w, request)
  BY <1>2, CallImplements DEF Promise!Next
<1>3. CASE \E w \in Workers : Lock(w)
  BY <1>3, LockImplements
<1>4. CASE \E w \in Workers : Inside(w)
  BY <1>1, <1>4, InsideImplements DEF Promise!Next
<1>5. CASE \E w \in Workers : Unlock(w)
  BY <1>5, UnlockImplements DEF Promise!Next
<1>6. CASE Crash
  BY <1>6, CrashImplements DEF Promise!Next
<1>7. CASE UNCHANGED vars
  BY <1>7 DEF vars, Promise!vars, AbstractCall, AbstractAnswer, Damaged
<1> QED BY <1>2, <1>3, <1>4, <1>5, <1>6, <1>7, NextCases

LEMMA InitImplements ==
    ASSUME NEW m, Managers = {m}, Init
    PROVE  Promise!Init /\ Knows
<1>1. /\ file = Absent /\ faults = 0 /\ size[TheManager] \in Sizes
      /\ \A w \in Workers : pc[w] = "idle" /\ job[w] = NoCall /\ reply[w] = "none"
  BY DEF Init, NoThreads, TheManager
<1>2. /\ CallMap = [w \in Workers |-> Promise!NoCall]
      /\ AnswerMap = [w \in Workers |-> Promise!Pending]
  BY <1>1, CallIs, AnswerIs DEF CallMeans, AnswerMeans, CallMap, AnswerMap
<1>3. Damaged = FALSE /\ file.ranking = <<>> /\ (faults > 0) = FALSE
  BY <1>1 DEF Damaged, Absent
<1>4. Knows
  BY <1>1 DEF Knows, CallKnows
<1> QED BY <1>1, <1>2, <1>3, <1>4 DEF Promise!Init, CallMap, AnswerMap

(* With one manager on the file, the locked read-modify-write behind
   new_score and get_ranking, with crashes, restarts and a failing file system,
   behaves like the atomic board: every step is one step of Leaderboard or none
   that it can see (score_manager.h, default_score_manager.cc). *)
THEOREM SpecImplementsLeaderboard ==
    ASSUME NEW m, Managers = {m}
    PROVE  Spec => ImplementsLeaderboard
<1>1. OneManager
  BY DEF OneManager
<1>2. Init => Promise!Init /\ Knows
  BY InitImplements
<1>3. IInv /\ Knows /\ [Next]_vars => Knows'
  BY <1>1, NextKnows
<1>4. IInv /\ Knows /\ [Next]_vars => [Promise!Next]_(Promise!vars)
  BY NextImplements
<1>5. Spec => []IInv
  BY <1>1, Invariance
<1> QED BY <1>2, <1>3, <1>4, <1>5, PTL DEF Spec, ImplementsLeaderboard, Promise!Spec
==============================================================================
