---------------------------- MODULE CrudApiProofs ----------------------------
(***************************************************************************)
(* Theorems about CrudApi for every pool of workers, every set of entities *)
(* and bodies, and every bound, and that it implements EntityStore when    *)
(* the pool is of one.                                                     *)
(***************************************************************************)
EXTENDS CrudApiRefinement, FiniteSetTheorems, WellFoundedInduction, TLAPS

(* What a worker that is in a step works on. *)
StepShape(w) ==
    /\ pc[w] = "ls" => /\ Verb(w) \in {"GET", "POST"}
                       /\ job[w].target[1] \in Entities
    /\ pc[w] \in {"exists", "read"} => Verb(w) \in {"GET", "PUT", "DELETE"}
    /\ pc[w] \in {"open", "write"} => Verb(w) \in {"POST", "PUT"}
    /\ pc[w] \in {"check", "remove"} => Verb(w) = "DELETE"
    /\ pc[w] \in {"exists", "read", "open", "write", "check", "remove"} => slot[w] \in Slots
    /\ pc[w] = "write" => slot[w][1] \in dirs

Shape == \A w \in Workers : StepShape(w)

(* Creates that have not chosen their identifier. *)
Choosing == {w \in Workers : At(w, "ls") /\ Verb(w) = "POST"}

Opening(w) == pc[w] \in {"open", "write"}

(* Every create that is done with ls accounts for one identifier, so that no
   identifier in use, or about to be, exceeds their number. *)
IdsCounted ==
    /\ IsFiniteSet(Choosing)
    /\ Cardinality(Choosing) <= creates
    /\ \A s \in Slots :
        files[s] # Absent \/ (\E w \in Workers : Opening(w) /\ slot[w] = s)
            => s[2] + Cardinality(Choosing) <= creates

(* What has been there all along is there. *)
OlderStored == \A w \in Workers : older[w] \subseteq Stored

IInv ==
    /\ TypeOK /\ Shape /\ IdsCounted
    /\ OlderStored /\ CreateSparesOlder /\ EmptyOnlyUnderWriter

------------------------------------------------------------------------------
(* The helpers. *)

(* A finite set of numbers that is not empty has a largest element. *)
LEMMA MaxOfFinite ==
    ASSUME NEW S, S \subseteq Int, IsFiniteSet(S), S # {}
    PROVE  Max(S) \in S /\ \A y \in S : Max(S) >= y
<1> DEFINE Above(x) == {y \in S : y > x}
           T == {Above(x) : x \in S}
<1>1. T \subseteq FiniteSubsetsOf(S)
  <2>1. ASSUME NEW x \in S
        PROVE  Above(x) \in FiniteSubsetsOf(S)
    <3>1. Above(x) \in SUBSET S
      OBVIOUS
    <3> QED BY <3>1, FS_Subset DEF FiniteSubsetsOf
  <2> QED BY <2>1
<1>2. T # {}
  OBVIOUS
<1>3. PICK A \in T : \A B \in T : ~(<<B, A>> \in StrictSubsetOrdering(S))
  <2> HIDE DEF T
  <2> QED BY <1>1, <1>2, FS_StrictSubsetOrderingWellFounded, WFMin
<1>4. PICK x \in S : A = Above(x)
  OBVIOUS
<1>5. ASSUME NEW y \in S, y > x
      PROVE  FALSE
  <2>0. x \in Int /\ y \in Int /\ \A z \in S : z \in Int
    OBVIOUS
  <2>1. Above(y) \subseteq A /\ y \in A /\ y \notin Above(y)
    <3>1. A = {z \in S : z > x}
      BY <1>4
    <3>2. y \in A
      BY <1>5, <3>1
    <3>3. y \notin Above(y)
      BY <2>0
    <3>4. ASSUME NEW z \in S, z > y
          PROVE  z \in A
      BY <1>5, <2>0, <3>1, <3>4
    <3> QED BY <3>2, <3>3, <3>4
  <2>2. <<Above(y), A>> \in StrictSubsetOrdering(S)
    <3>1. Above(y) \in SUBSET S /\ A \in SUBSET S
      BY <1>4
    <3> QED BY <2>1, <3>1 DEF StrictSubsetOrdering
  <2> QED BY <1>3, <2>2
<1>6. \A y \in S : x >= y
  BY <1>5
<1> QED BY <1>6 DEF Max

(* The identifier of a new entity follows all that the directory holds. *)
LEMMA NextIdFollows ==
    ASSUME NEW e \in Entities
    PROVE  /\ NextId(IdsOf(e)) \in Nat \ {0}
           /\ \A i \in IdsOf(e) : i < NextId(IdsOf(e))
           /\ NextId(IdsOf(e)) = 1 \/ NextId(IdsOf(e)) - 1 \in IdsOf(e)
<1> DEFINE S == IdsOf(e) \cup {0}
<1>1. S \subseteq 0 .. MaxCreates
  BY BoundsAssumption DEF IdsOf, Ids
<1>2. S \subseteq Int /\ IsFiniteSet(S) /\ S # {}
  <2>1. IsFiniteSet(0 .. MaxCreates)
    BY BoundsAssumption, FS_Interval
  <2>2. IsFiniteSet(S)
    BY <1>1, <2>1, FS_Subset
  <2>3. S \subseteq Int
    BY <1>1
  <2>4. 0 \in S
    OBVIOUS
  <2> QED BY <2>2, <2>3, <2>4
<1>3. Max(S) \in S /\ \A y \in S : Max(S) >= y
  <2> HIDE DEF S
  <2> QED BY <1>2, MaxOfFinite
<1>4. NextId(IdsOf(e)) = 1 + Max(S)
  BY DEF NextId
<1>5. Max(S) \in Nat
  BY <1>1, <1>3
<1>6. NextId(IdsOf(e)) \in Nat \ {0}
  BY <1>4, <1>5
<1>7. ASSUME NEW i \in IdsOf(e)
      PROVE  i < NextId(IdsOf(e))
  <2>1. Max(S) >= i /\ i \in Int
    BY <1>2, <1>3
  <2> QED BY <1>4, <1>5, <2>1
<1>8. NextId(IdsOf(e)) - 1 = Max(S)
  BY <1>4, <1>5
<1>9. NextId(IdsOf(e)) = 1 \/ NextId(IdsOf(e)) - 1 \in IdsOf(e)
  <2>1. CASE Max(S) = 0
    BY <1>4, <2>1
  <2>2. CASE Max(S) \in IdsOf(e)
    BY <1>8, <2>2
  <2> QED BY <1>3, <2>1, <2>2
<1> QED BY <1>6, <1>7, <1>9

LEMMA ContentsDiffer == Absent # Empty /\ Absent # Mixed /\ Empty # Mixed
<1>1. IsFiniteSet({Absent}) /\ Cardinality({Absent}) = 1
  BY FS_Singleton
<1>2. IsFiniteSet({Absent} \cup {Empty})
      /\ Cardinality({Absent} \cup {Empty}) = IF Empty \in {Absent} THEN 1 ELSE 2
  BY <1>1, FS_AddElement
<1>3. Cardinality({Absent} \cup {Empty} \cup {Mixed})
        = IF Mixed \in {Absent} \cup {Empty} THEN Cardinality({Absent} \cup {Empty})
                                           ELSE Cardinality({Absent} \cup {Empty}) + 1
  BY <1>2, FS_AddElement
<1>4. {Absent} \cup {Empty} \cup {Mixed} = {Absent, Empty, Mixed}
  OBVIOUS
<1>5. Cardinality({Absent, Empty, Mixed}) = 3
  BY ContentsAssumption
<1>6. Empty \notin {Absent}
  BY <1>2, <1>3, <1>4, <1>5
<1>7. Mixed \notin {Absent} \cup {Empty}
  BY <1>2, <1>3, <1>4, <1>5
<1> QED BY <1>6, <1>7

(* What a request holds. *)
LEMMA RequestFields ==
    ASSUME NEW r \in Requests
    PROVE  /\ r.verb \in {"GET", "DELETE", "PATCH", "POST", "PUT"}
           /\ r.verb \in {"POST", "PUT"} => r.body \in Bodies
           /\ Len(r.target) = 1 => r.target[1] \in Entities
           /\ Len(r.target) = 2 => r.target \in Slots
<1>1. r.verb \in {"GET", "DELETE", "PATCH", "POST", "PUT"} /\ r.target \in Targets
  BY DEF Requests
<1>2. r.verb \in {"POST", "PUT"} => r.body \in Bodies
  BY DEF Requests
<1>3. r.target \in Slots => Len(r.target) = 2
  BY DEF Slots
<1>4. ASSUME NEW e \in Entities
      PROVE  Len(<<e>>) = 1 /\ <<e>>[1] = e
  OBVIOUS
<1>5. Len(<<>>) = 0
  OBVIOUS
<1> QED BY <1>1, <1>2, <1>3, <1>4, <1>5 DEF Targets

LEMMA JobOfVerb ==
    ASSUME TypeOK, NEW w \in Workers, Verb(w) # "none"
    PROVE  job[w] \in Requests
  BY DEF TypeOK, Verb, NoJob

LEMMA SlotParts ==
    ASSUME NEW s \in Slots
    PROVE  s[1] \in Entities /\ s[2] \in Ids /\ s[2] \in Nat /\ s = <<s[1], s[2]>>
  BY BoundsAssumption DEF Slots, Ids

------------------------------------------------------------------------------
(* A step of w, and what it leaves alone. *)

Arrives(w) == \E r \in Requests : RequestFile(w, r) \/ RequestDir(w, r) \/ RequestRefused(w, r)

(* The steps that only decide what w does next. *)
Decides(w) ==
    ListForCreate(w) \/ ListForGet(w) \/ Exists(w) \/ Read(w) \/ ReadFails(w)
    \/ OpenFails(w) \/ WriteFails(w) \/ Check(w) \/ RemoveFails(w)

StepOf(w) == Arrives(w) \/ Decides(w) \/ Open(w) \/ Write(w) \/ Remove(w) \/ Respond(w)

LEMMA NextIsSteps == Next => (\E w \in Workers : StepOf(w)) \/ Crash
  BY DEF Next, StepOf, Arrives, Decides

LEMMA OthersStay ==
    ASSUME TypeOK, NEW w \in Workers, StepOf(w)
    PROVE  /\ \A v \in Workers \ {w} : pc'[v] = pc[v] /\ job'[v] = job[v] /\ slot'[v] = slot[v]
           /\ dirs \subseteq dirs'
<1>1. CASE Arrives(w)
  BY <1>1 DEF Arrives, TypeOK, RequestFile, RequestDir, RequestRefused, Idle, GoTo, Reply
<1>2. CASE Decides(w)
  <2>1. PICK step \in Steps : pc' = [pc EXCEPT ![w] = step]
    <3>1. CASE Read(w)
      BY <3>1 DEF Read, GoTo, Reply, Steps
    <3>2. CASE Exists(w) \/ Check(w)
      BY <3>2 DEF Exists, Check, GoTo, Reply, Steps
    <3>3. CASE ListForCreate(w) \/ ListForGet(w) \/ ReadFails(w) \/ OpenFails(w) \/ WriteFails(w)
               \/ RemoveFails(w)
      BY <3>3 DEF ListForCreate, ListForGet, ReadFails, OpenFails, WriteFails, RemoveFails, GoTo, Reply, Steps
    <3> QED BY <1>2, <3>1, <3>2, <3>3 DEF Decides
  <2>2. job' = job /\ dirs \subseteq dirs' /\ (slot' = slot \/ ListForCreate(w))
    BY <1>2 DEF Decides, ListForCreate, ListForGet, Exists, Read, ReadFails, OpenFails,
                WriteFails, RemoveFails, Check
  <2>3. slot' = slot \/ \E s : slot' = [slot EXCEPT ![w] = s]
    BY <2>2 DEF ListForCreate
  <2> QED BY <2>1, <2>2, <2>3 DEF TypeOK
<1>3. CASE Open(w) \/ Write(w) \/ Remove(w) \/ Respond(w)
  BY <1>3 DEF TypeOK, Open, Write, Remove, Respond, GoTo, Reply
<1> QED BY <1>1, <1>2, <1>3 DEF StepOf

(* The steps that decide leave every file as it is. *)
LEMMA DecidesKeeps ==
    ASSUME NEW w \in Workers, Decides(w)
    PROVE  UNCHANGED <<files, job, linked, replaced, older, creates, crashes>>
  BY DEF Decides, ListForCreate, ListForGet, Exists, Read, ReadFails, OpenFails, WriteFails, RemoveFails, Check

LEMMA ArrivesKeeps ==
    ASSUME NEW w \in Workers, Arrives(w)
    PROVE  At(w, "idle") /\ UNCHANGED <<files, dirs, linked, replaced, crashes, faults>>
  BY DEF Arrives, RequestFile, RequestDir, RequestRefused, Idle

(* Where a deciding step takes w. *)
LEMMA DecidesSteps ==
    ASSUME TypeOK, NEW w \in Workers, Decides(w)
    PROVE  \/ ListForCreate(w) /\ pc'[w] = "open"
           \/ /\ slot' = slot
              /\ \/ pc'[w] = "respond"
                 \/ pc[w] = "exists" /\ pc'[w] = "read"
                 \/ /\ pc[w] = "read" /\ files[slot[w]] # Absent
                    /\ \/ pc'[w] = "open" /\ Verb(w) = "PUT"
                       \/ pc'[w] = "check" /\ Verb(w) = "DELETE"
                 \/ pc[w] = "check" /\ pc'[w] = "remove"
<1>1. CASE ListForCreate(w)
  BY <1>1 DEF TypeOK, ListForCreate, GoTo
<1>2. CASE Read(w)
  <2>1. At(w, "read") /\ slot' = slot
    BY <1>2 DEF Read
  <2>2. \/ Reply(w, Status(404))
        \/ Reply(w, [status |-> 200, body |-> files[slot[w]]])
        \/ files[slot[w]] # Absent /\ Verb(w) = "PUT" /\ GoTo(w, "open")
        \/ files[slot[w]] # Absent /\ Verb(w) = "DELETE" /\ GoTo(w, "check")
    BY <1>2 DEF Read
  <2>3. ASSUME NEW r, Reply(w, r)
        PROVE  pc'[w] = "respond"
    BY <2>3 DEF TypeOK, GoTo, Reply
  <2>4. ASSUME NEW step, GoTo(w, step)
        PROVE  pc'[w] = step
    BY <2>4 DEF TypeOK, GoTo
  <2> QED BY <2>1, <2>2, <2>3, <2>4 DEF At
<1>3. CASE Exists(w) \/ Check(w)
  BY <1>3 DEF TypeOK, Exists, Check, GoTo, Reply, At
<1>4. CASE ListForGet(w) \/ ReadFails(w) \/ OpenFails(w) \/ WriteFails(w) \/ RemoveFails(w)
  BY <1>4 DEF TypeOK, ListForGet, ReadFails, OpenFails, WriteFails, RemoveFails, GoTo, Reply
<1> QED BY <1>1, <1>2, <1>3, <1>4 DEF Decides

------------------------------------------------------------------------------
(* The identifier a create chooses is one the bound provides for. *)
LEMMA SlotOfCreate ==
    ASSUME TypeOK, Shape, IdsCounted, NEW w \in Workers, ListForCreate(w)
    PROVE  slot'[w] \in Slots
<1> DEFINE e == job[w].target[1]
<1>1. w \in Choosing /\ e \in Entities /\ slot'[w] = <<e, NextId(IdsOf(e))>>
  BY DEF TypeOK, ListForCreate, Choosing, Shape, StepShape, At
<1>2. Cardinality(Choosing) \in Nat /\ Cardinality(Choosing) # 0
  BY <1>1, FS_CardinalityType, FS_EmptySet DEF IdsCounted
<1>3. creates \in Nat /\ creates <= MaxCreates
  BY BoundsAssumption DEF TypeOK
<1>4. NextId(IdsOf(e)) \in Nat \ {0}
  BY <1>1, NextIdFollows
<1>5. NextId(IdsOf(e)) <= MaxCreates
  <2>1. CASE NextId(IdsOf(e)) = 1
    BY <1>2, <1>3, <2>1, BoundsAssumption DEF IdsCounted
  <2>2. CASE NextId(IdsOf(e)) - 1 \in IdsOf(e)
    <3>1. PICK i \in Ids : i = NextId(IdsOf(e)) - 1 /\ files[<<e, i>>] # Absent
      BY <2>2 DEF IdsOf
    <3>2. <<e, i>> \in Slots /\ <<e, i>>[2] = i
      BY <1>1 DEF Slots
    <3>3. i + Cardinality(Choosing) <= creates
      BY <3>1, <3>2 DEF IdsCounted
    <3> QED BY <1>2, <1>3, <1>4, <3>1, <3>3, BoundsAssumption
  <2> QED BY <1>1, <2>1, <2>2, NextIdFollows
<1>6. NextId(IdsOf(e)) \in Ids
  BY <1>4, <1>5, BoundsAssumption DEF Ids
<1> QED BY <1>1, <1>6 DEF Slots

(* The shape of a worker's work. *)

LEMMA StepKeepsShape ==
    ASSUME TypeOK, Shape, IdsCounted, NEW w \in Workers, StepOf(w)
    PROVE  Shape'
<1>1. ASSUME StepShape(w)'
      PROVE  Shape'
  <2>1. ASSUME NEW v \in Workers \ {w}
        PROVE  StepShape(v)'
    <3>1. /\ pc'[v] = pc[v] /\ job'[v] = job[v] /\ slot'[v] = slot[v]
          /\ dirs \subseteq dirs'
      BY OthersStay
    <3>2. StepShape(v)
      BY DEF Shape
    <3> QED BY <3>1, <3>2 DEF StepShape, Verb
  <2> QED BY <1>1, <2>1 DEF Shape
<1> SUFFICES StepShape(w)'
  BY <1>1
<1>2. ASSUME pc'[w] \in {"respond", "idle"}
      PROVE  StepShape(w)'
  BY <1>2 DEF StepShape
<1>3. StepShape(w)
  BY DEF Shape
<1>4. ASSUME NEW r \in Requests, RequestFile(w, r)
      PROVE  StepShape(w)'
  <2>1. /\ r.verb \in {"GET", "PUT", "DELETE"} /\ r.target \in Slots
        /\ pc'[w] = "exists" /\ job'[w] = r /\ slot'[w] = r.target
    BY <1>4, RequestFields DEF RequestFile, TypeOK, GoTo
  <2> QED BY <2>1 DEF StepShape, Verb
<1>5. ASSUME NEW r \in Requests, RequestDir(w, r)
      PROVE  StepShape(w)'
  <2>1. /\ r.verb \in {"GET", "POST"} /\ r.target[1] \in Entities
        /\ pc'[w] = "ls" /\ job'[w] = r
    BY <1>5, RequestFields DEF RequestDir, TypeOK, GoTo
  <2> QED BY <2>1 DEF StepShape, Verb
<1>6. ASSUME NEW r \in Requests, RequestRefused(w, r)
      PROVE  pc'[w] = "respond"
  BY <1>6 DEF RequestRefused, TypeOK, GoTo, Reply
<1>7. CASE Decides(w)
  <2>1. UNCHANGED job
    BY <1>7, DecidesKeeps
  <2>2. CASE ListForCreate(w) /\ pc'[w] = "open"
    <3>1. slot'[w] \in Slots
      BY <2>2, SlotOfCreate
    <3> QED BY <2>1, <2>2, <3>1 DEF StepShape, ListForCreate, Verb
  <2>3. CASE /\ slot' = slot
             /\ \/ pc[w] = "exists" /\ pc'[w] = "read"
                \/ pc[w] = "check" /\ pc'[w] = "remove"
                \/ pc[w] = "read" /\ pc'[w] = "open" /\ Verb(w) = "PUT"
                \/ pc[w] = "read" /\ pc'[w] = "check" /\ Verb(w) = "DELETE"
    BY <1>3, <2>1, <2>3 DEF StepShape, Verb
  <2> QED BY <1>2, <1>7, <2>2, <2>3, DecidesSteps
<1>8. CASE Open(w)
  <2>1. pc[w] = "open" /\ pc'[w] = "write" /\ slot[w][1] \in dirs' /\ UNCHANGED <<job, slot>>
    BY <1>8 DEF Open, TypeOK, At, GoTo
  <2> QED BY <1>3, <2>1 DEF StepShape, Verb
<1>9. CASE Write(w) \/ Remove(w) \/ Respond(w)
  <2>1. pc'[w] \in {"respond", "idle"}
    BY <1>9 DEF Write, Remove, Respond, TypeOK, GoTo, Reply
  <2> QED BY <1>2, <2>1
<1> QED BY <1>2, <1>4, <1>5, <1>6, <1>7, <1>8, <1>9 DEF StepOf, Arrives

------------------------------------------------------------------------------
(* The number of identifiers. *)

(* Nobody begins to choose an identifier, and none comes into use. *)
LEMMA IdsStillCounted ==
    ASSUME TypeOK, IdsCounted, Choosing' \subseteq Choosing, UNCHANGED creates,
           \A s \in Slots :
                files'[s] # Absent \/ (\E v \in Workers : Opening(v)' /\ slot'[v] = s) =>
                files[s] # Absent \/ (\E v \in Workers : Opening(v) /\ slot[v] = s)
    PROVE  IdsCounted'
<1>1. /\ IsFiniteSet(Choosing') /\ Cardinality(Choosing') <= Cardinality(Choosing)
      /\ Cardinality(Choosing') \in Nat /\ Cardinality(Choosing) \in Nat
  BY FS_Subset, FS_CardinalityType DEF IdsCounted
<1>2. creates \in Nat
  BY BoundsAssumption DEF TypeOK
<1>3. Cardinality(Choosing') <= creates'
  BY <1>1, <1>2 DEF IdsCounted
<1>4. ASSUME NEW s \in Slots,
             files'[s] # Absent \/ (\E v \in Workers : Opening(v)' /\ slot'[v] = s)
      PROVE  s[2] + Cardinality(Choosing') <= creates'
  <2>1. s[2] + Cardinality(Choosing) <= creates /\ s[2] \in Nat
    BY <1>4, SlotParts DEF IdsCounted
  <2> QED BY <1>1, <1>2, <2>1
<1> QED BY <1>1, <1>3, <1>4 DEF IdsCounted

LEMMA ChoosingType ==
    ASSUME TypeOK, IdsCounted
    PROVE  Cardinality(Choosing) \in Nat /\ creates \in Nat /\ creates <= MaxCreates
  BY FS_CardinalityType, BoundsAssumption DEF IdsCounted, TypeOK

(* A POST arrives. *)
LEMMA ArrivalCounted ==
    ASSUME TypeOK, Shape, IdsCounted, NEW w \in Workers, NEW r \in Requests,
           RequestDir(w, r), r.verb = "POST"
    PROVE  IdsCounted'
<1>1. Choosing' = Choosing \cup {w} /\ w \notin Choosing
  BY DEF TypeOK, RequestDir, Idle, At, GoTo, Choosing, Verb
<1>2. IsFiniteSet(Choosing') /\ Cardinality(Choosing') = Cardinality(Choosing) + 1
  BY <1>1, FS_AddElement DEF IdsCounted
<1>3. creates' = creates + 1
  BY DEF RequestDir
<1>4. Cardinality(Choosing') <= creates'
  BY <1>2, <1>3, ChoosingType DEF IdsCounted
<1>5. ASSUME NEW s \in Slots,
             files'[s] # Absent \/ (\E v \in Workers : Opening(v)' /\ slot'[v] = s)
      PROVE  s[2] + Cardinality(Choosing') <= creates'
  <2>1. files[s] # Absent \/ (\E v \in Workers : Opening(v) /\ slot[v] = s)
    BY <1>5 DEF TypeOK, RequestDir, Idle, At, GoTo, Opening
  <2>2. s[2] + Cardinality(Choosing) <= creates /\ s[2] \in Nat
    BY <2>1, SlotParts DEF IdsCounted
  <2> QED BY <1>2, <1>3, <2>2, ChoosingType
<1> QED BY <1>2, <1>4, <1>5 DEF IdsCounted

(* ls: one create less is choosing, and it follows the largest identifier. *)
LEMMA ChoiceCounted ==
    ASSUME TypeOK, Shape, IdsCounted, NEW w \in Workers, ListForCreate(w)
    PROVE  IdsCounted'
<1> DEFINE e == job[w].target[1]
<1>1. Choosing' = Choosing \ {w} /\ w \in Choosing
  BY DEF TypeOK, ListForCreate, At, GoTo, Choosing, Verb
<1>2. IsFiniteSet(Choosing') /\ Cardinality(Choosing') = Cardinality(Choosing) - 1
  BY <1>1, FS_RemoveElement DEF IdsCounted
<1>3. UNCHANGED <<creates, files>>
  BY DEF ListForCreate
<1>4. Cardinality(Choosing') <= creates'
  BY <1>2, <1>3, ChoosingType DEF IdsCounted
<1>5. e \in Entities /\ slot' = [slot EXCEPT ![w] = <<e, NextId(IdsOf(e))>>]
  BY DEF ListForCreate, Shape, StepShape, At
<1>6. NextId(IdsOf(e)) + Cardinality(Choosing') <= creates
  <2>1. CASE NextId(IdsOf(e)) = 1
    BY <1>2, <2>1, ChoosingType DEF IdsCounted
  <2>2. CASE NextId(IdsOf(e)) - 1 \in IdsOf(e)
    <3>1. PICK i \in Ids : i = NextId(IdsOf(e)) - 1 /\ files[<<e, i>>] # Absent
      BY <2>2 DEF IdsOf
    <3>2. <<e, i>> \in Slots /\ <<e, i>>[2] = i
      BY <1>5 DEF Slots
    <3>3. i + Cardinality(Choosing) <= creates
      BY <3>1, <3>2 DEF IdsCounted
    <3>4. NextId(IdsOf(e)) \in Nat
      BY <1>5, NextIdFollows
    <3> QED BY <1>2, <3>1, <3>3, <3>4, ChoosingType
  <2> QED BY <1>5, <2>1, <2>2, NextIdFollows
<1>7. ASSUME NEW s \in Slots,
             files'[s] # Absent \/ (\E v \in Workers : Opening(v)' /\ slot'[v] = s)
      PROVE  s[2] + Cardinality(Choosing') <= creates'
  <2>1. CASE files[s] # Absent \/ (\E v \in Workers : Opening(v) /\ slot[v] = s)
    <3>1. s[2] + Cardinality(Choosing) <= creates /\ s[2] \in Nat
      BY <2>1, SlotParts DEF IdsCounted
    <3> QED BY <1>2, <1>3, <3>1, ChoosingType
  <2>2. CASE s = <<e, NextId(IdsOf(e))>>
    BY <1>3, <1>6, <2>2
  <2>3. \A v \in Workers \ {w} : (Opening(v)' <=> Opening(v)) /\ slot'[v] = slot[v]
    BY DEF TypeOK, ListForCreate, GoTo, Opening
  <2>4. slot'[w] = <<e, NextId(IdsOf(e))>>
    BY <1>5 DEF TypeOK
  <2> QED BY <1>3, <1>7, <2>1, <2>2, <2>3, <2>4
<1> QED BY <1>2, <1>4, <1>7 DEF IdsCounted

(* A worker whose step neither is, nor begins, a choice of an identifier. *)
LEMMA ChoosingShrinks ==
    ASSUME TypeOK, NEW w \in Workers, StepOf(w), pc'[w] # "ls"
    PROVE  Choosing' \subseteq Choosing
<1>1. \A v \in Workers \ {w} : pc'[v] = pc[v] /\ job'[v] = job[v]
  BY OthersStay
<1> QED BY <1>1 DEF Choosing, At, Verb

LEMMA StepKeepsIds ==
    ASSUME TypeOK, Shape, IdsCounted, NEW w \in Workers, StepOf(w)
    PROVE  IdsCounted'
<1>0. /\ StepShape(w)
      /\ \A v \in Workers \ {w} : (Opening(v)' <=> Opening(v)) /\ slot'[v] = slot[v]
  BY OthersStay DEF Shape, Opening
<1>1. ASSUME UNCHANGED <<files, creates>>, ~Opening(w)', Choosing' \subseteq Choosing
      PROVE  IdsCounted'
  BY <1>0, <1>1, IdsStillCounted
<1>2. ASSUME pc'[w] = "respond" \/ pc'[w] = "idle" \/ pc'[w] = "exists"
      PROVE  ~Opening(w)' /\ Choosing' \subseteq Choosing
  BY <1>2, ChoosingShrinks DEF Opening
<1>3. ASSUME NEW r \in Requests, RequestFile(w, r) \/ RequestRefused(w, r)
      PROVE  IdsCounted'
  <2>1. UNCHANGED <<files, creates>> /\ pc'[w] \in {"exists", "respond"}
    BY <1>3 DEF RequestFile, RequestRefused, Idle, TypeOK, GoTo, Reply
  <2> QED BY <1>1, <1>2, <2>1
<1>4. ASSUME NEW r \in Requests, RequestDir(w, r)
      PROVE  IdsCounted'
  <2>1. CASE r.verb = "POST"
    BY <1>4, <2>1, ArrivalCounted
  <2>2. CASE r.verb # "POST"
    <3>1. UNCHANGED <<files, creates>> /\ pc'[w] = "ls" /\ job'[w] = r
      BY <1>4, <2>2 DEF RequestDir, Idle, TypeOK, GoTo
    <3>2. Choosing' \subseteq Choosing
      <4>1. \A v \in Workers \ {w} : pc'[v] = pc[v] /\ job'[v] = job[v]
        BY OthersStay
      <4> QED BY <2>2, <3>1, <4>1 DEF Choosing, At, Verb
    <3> QED BY <1>1, <3>1, <3>2 DEF Opening
  <2> QED BY <2>1, <2>2
<1>5. CASE Decides(w)
  <2>1. UNCHANGED <<files, creates, job>>
    BY <1>5, DecidesKeeps
  <2>2. CASE ListForCreate(w)
    BY <2>2, ChoiceCounted
  <2>3. CASE slot' = slot /\ pc'[w] \in {"respond", "read", "check", "remove"}
    BY <1>1, <2>1, <2>3, ChoosingShrinks DEF Opening
  <2>4. CASE slot' = slot /\ pc[w] = "read" /\ pc'[w] = "open" /\ files[slot[w]] # Absent
    <3>1. ASSUME NEW s \in Slots, NEW v \in Workers, Opening(v)', slot'[v] = s
          PROVE  files[s] # Absent \/ (\E x \in Workers : Opening(x) /\ slot[x] = s)
      BY <1>0, <2>4, <3>1
    <3> QED BY <2>1, <2>4, <3>1, ChoosingShrinks, IdsStillCounted
  <2> QED BY <1>5, <2>2, <2>3, <2>4, DecidesSteps
<1>6. CASE Open(w) \/ Write(w)
  <2>1. /\ Opening(w) /\ slot' = slot /\ creates' = creates /\ pc'[w] # "ls"
        /\ \A s \in Slots : s # slot[w] => files'[s] = files[s]
    BY <1>6 DEF Open, Write, TypeOK, At, GoTo, Reply, Opening
  <2>2. ASSUME NEW s \in Slots,
               files'[s] # Absent \/ (\E v \in Workers : Opening(v)' /\ slot'[v] = s)
        PROVE  files[s] # Absent \/ (\E v \in Workers : Opening(v) /\ slot[v] = s)
    BY <1>0, <2>1, <2>2
  <2> QED BY <2>1, <2>2, ChoosingShrinks, IdsStillCounted
<1>7. CASE Remove(w)
  <2>1. /\ slot' = slot /\ creates' = creates /\ pc'[w] = "respond"
        /\ \A s \in Slots : files'[s] # Absent => files[s] # Absent
    BY <1>7 DEF Remove, TypeOK, GoTo, Reply
  <2> QED BY <1>0, <1>2, <2>1, IdsStillCounted
<1>8. CASE Respond(w)
  <2>1. UNCHANGED <<files, creates>> /\ pc'[w] = "idle"
    BY <1>8 DEF Respond, TypeOK, GoTo
  <2> QED BY <1>1, <1>2, <2>1
<1> QED BY <1>3, <1>4, <1>5, <1>6, <1>7, <1>8 DEF StepOf, Arrives

------------------------------------------------------------------------------
(* The types. *)

LEMMA InitTypeOK == Init => TypeOK
<1> SUFFICES ASSUME Init PROVE TypeOK
  OBVIOUS
<1>1. files \in [Slots -> Contents] /\ replaced \in [Workers -> Contents]
  BY DEF Init, Contents
<1>2. pc \in [Workers -> Steps]
  BY DEF Init, Steps
<1>3. job \in [Workers -> Requests \cup {NoJob}] /\ slot \in [Workers -> Slots \cup {NoSlot}]
  BY DEF Init
<1>4. older \in [Workers -> SUBSET Slots] /\ linked \in [Workers -> BOOLEAN]
  BY DEF Init
<1> QED BY <1>1, <1>2, <1>3, <1>4, BoundsAssumption DEF Init, TypeOK

LEMMA StepsAreSteps ==
    /\ {"idle", "ls", "exists", "read", "open", "write", "check", "remove", "respond"} \subseteq Steps
    /\ {Absent, Empty, Mixed} \subseteq Contents /\ Bodies \subseteq Contents
  BY DEF Steps, Contents

LEMMA GoToType ==
    ASSUME TypeOK, NEW w \in Workers, NEW step \in Steps, GoTo(w, step)
    PROVE  pc' \in [Workers -> Steps]
  BY DEF TypeOK, GoTo

LEMMA ArrivesType ==
    ASSUME TypeOK, NEW w \in Workers, Arrives(w)
    PROVE  TypeOK'
<1>1. PICK r \in Requests : RequestFile(w, r) \/ RequestDir(w, r) \/ RequestRefused(w, r)
  BY DEF Arrives
<1>2. pc' \in [Workers -> Steps]
  BY <1>1, GoToType, StepsAreSteps DEF RequestFile, RequestDir, RequestRefused, Reply
<1>3. job' \in [Workers -> Requests \cup {NoJob}]
  BY <1>1 DEF TypeOK, RequestFile, RequestDir, RequestRefused
<1>4. slot' \in [Workers -> Slots \cup {NoSlot}]
  BY <1>1, RequestFields DEF TypeOK, RequestFile, RequestDir, RequestRefused
<1>5. older' \in [Workers -> SUBSET Slots]
  BY <1>1 DEF TypeOK, RequestFile, RequestDir, RequestRefused, Stored
<1>6. creates' \in 0 .. MaxCreates
  BY <1>1, BoundsAssumption DEF TypeOK, RequestFile, RequestDir, RequestRefused
<1>7. UNCHANGED <<files, dirs, linked, replaced, crashes, faults>>
  BY ArrivesKeeps
<1> QED BY <1>2, <1>3, <1>4, <1>5, <1>6, <1>7 DEF TypeOK

LEMMA DecidesType ==
    ASSUME TypeOK, Shape, IdsCounted, NEW w \in Workers, Decides(w)
    PROVE  TypeOK'
<1>1. UNCHANGED <<files, job, linked, replaced, older, creates, crashes>>
  BY DecidesKeeps
<1>2. pc' \in [Workers -> Steps]
  <2>1. \E step \in Steps : GoTo(w, step)
    <3>1. CASE Read(w)
      BY <3>1, StepsAreSteps DEF Read, Reply
    <3>2. CASE Exists(w) \/ Check(w)
      BY <3>2, StepsAreSteps DEF Exists, Check, Reply
    <3>3. CASE ListForCreate(w) \/ ListForGet(w) \/ ReadFails(w) \/ OpenFails(w) \/ WriteFails(w)
               \/ RemoveFails(w)
      BY <3>3, StepsAreSteps DEF ListForCreate, ListForGet, ReadFails, OpenFails, WriteFails, RemoveFails, Reply
    <3> QED BY <3>1, <3>2, <3>3 DEF Decides
  <2> QED BY <2>1, GoToType
<1>3. slot' \in [Workers -> Slots \cup {NoSlot}]
  <2>1. CASE ListForCreate(w)
    <3>1. slot'[w] \in Slots
      BY <2>1, SlotOfCreate
    <3> QED BY <2>1, <3>1 DEF TypeOK, ListForCreate
  <2>2. CASE slot' = slot
    BY <2>2 DEF TypeOK
  <2> QED BY <2>1, <2>2, DecidesSteps
<1>4. faults' \in 0 .. MaxFaults
  BY BoundsAssumption DEF TypeOK, Decides, ListForCreate, ListForGet, Exists, Read, ReadFails,
                          OpenFails, WriteFails, RemoveFails, Check, Fault
<1>5. dirs' \subseteq Entities /\ dirs \subseteq dirs'
  <2>1. CASE OpenFails(w)
    <3>1. slot[w] \in Slots
      BY <2>1 DEF OpenFails, At, Shape, StepShape
    <3> QED BY <2>1, <3>1, SlotParts DEF TypeOK, OpenFails
  <2>2. CASE ~OpenFails(w)
    BY <2>2 DEF TypeOK, Decides, ListForCreate, ListForGet, Exists, Read, ReadFails, WriteFails,
                     Check, RemoveFails
  <2> QED BY <2>1, <2>2
<1> QED BY <1>1, <1>2, <1>3, <1>4, <1>5 DEF TypeOK

(* The step of a writer that has the file open. *)
LEMMA WriterFields ==
    ASSUME TypeOK, Shape, NEW w \in Workers, Opening(w)
    PROVE  slot[w] \in Slots /\ slot[w][1] \in Entities /\ job[w].body \in Bodies
<1>1. slot[w] \in Slots /\ Verb(w) \in {"POST", "PUT"}
  BY DEF Opening, Shape, StepShape
<1> QED BY <1>1, SlotParts, JobOfVerb, RequestFields DEF Verb

LEMMA WrittenType ==
    ASSUME TypeOK, Shape, NEW w \in Workers, At(w, "write"), NEW content \in Written(w)
    PROVE  /\ content \in Contents
           /\ linked[w] => content \in Bodies \cup {Mixed}
           /\ ~linked[w] => content = files[slot[w]]
<1>1. slot[w] \in Slots /\ job[w].body \in Bodies
  BY WriterFields DEF Opening, At
<1>2. files[slot[w]] \in Contents
  BY <1>1 DEF TypeOK
<1>3. linked[w] => content \in {job[w].body, Mixed}
  BY DEF Written
<1>4. ~linked[w] => content = files[slot[w]]
  BY DEF Written
<1> QED BY <1>1, <1>2, <1>3, <1>4, StepsAreSteps

LEMMA FileStepType ==
    ASSUME TypeOK, Shape, NEW w \in Workers, Open(w) \/ Write(w) \/ Remove(w) \/ Respond(w)
    PROVE  TypeOK'
<1>1. CASE Open(w)
  <2>1. slot[w] \in Slots /\ slot[w][1] \in Entities
    BY <1>1, WriterFields DEF Opening, Open, At
  <2>2. files' \in [Slots -> Contents] /\ replaced' \in [Workers -> Contents]
    BY <1>1, <2>1, StepsAreSteps DEF TypeOK, Open
  <2>3. pc' \in [Workers -> Steps]
    BY <1>1, GoToType, StepsAreSteps DEF Open
  <2>4. dirs' \subseteq Entities /\ \A s \in Slots : files'[s] # Absent => s[1] \in dirs'
    BY <1>1, <2>1 DEF TypeOK, Open
  <2>5. linked' \in [Workers -> BOOLEAN]
    BY <1>1 DEF TypeOK, Open
  <2> QED BY <1>1, <2>2, <2>3, <2>4, <2>5 DEF TypeOK, Open
<1>2. CASE Write(w)
  <2>1. PICK content \in Written(w) : files' = [files EXCEPT ![slot[w]] = content]
    BY <1>2 DEF Write
  <2>2. content \in Contents /\ slot[w] \in Slots
    BY <1>2, WrittenType, WriterFields DEF Write, Opening, At
  <2>3. pc' \in [Workers -> Steps]
    BY <1>2, GoToType, StepsAreSteps DEF Write, Reply
  <2>4. slot[w][1] \in dirs
    BY <1>2 DEF Write, At, Shape, StepShape
  <2>5. files' \in [Slots -> Contents] /\ \A s \in Slots : files'[s] # Absent => s[1] \in dirs
    BY <2>1, <2>2, <2>4 DEF TypeOK
  <2> QED BY <1>2, <2>3, <2>5 DEF TypeOK, Write
<1>3. CASE Remove(w)
  <2>1. files' \in [Slots -> Contents] /\ \A s \in Slots : files'[s] # Absent => s[1] \in dirs
    BY <1>3, StepsAreSteps DEF TypeOK, Remove
  <2>2. pc' \in [Workers -> Steps]
    BY <1>3, GoToType, StepsAreSteps DEF Remove, Reply
  <2>3. linked' \in [Workers -> BOOLEAN] /\ older' \in [Workers -> SUBSET Slots]
    BY <1>3 DEF TypeOK, Remove
  <2> QED BY <1>3, <2>1, <2>2, <2>3 DEF TypeOK, Remove
<1>4. CASE Respond(w)
  <2>1. pc' \in [Workers -> Steps]
    BY <1>4, GoToType, StepsAreSteps DEF Respond
  <2>2. /\ job' \in [Workers -> Requests \cup {NoJob}]
        /\ slot' \in [Workers -> Slots \cup {NoSlot}]
    BY <1>4 DEF TypeOK, Respond
  <2>3. replaced' \in [Workers -> Contents] /\ linked' \in [Workers -> BOOLEAN]
    BY <1>4, StepsAreSteps DEF TypeOK, Respond
  <2>4. older' \in [Workers -> SUBSET Slots]
    BY <1>4 DEF TypeOK, Respond
  <2> QED BY <1>4, <2>1, <2>2, <2>3, <2>4 DEF TypeOK, Respond
<1> QED BY <1>1, <1>2, <1>3, <1>4

LEMMA StepKeepsTypes ==
    ASSUME TypeOK, Shape, IdsCounted, NEW w \in Workers, StepOf(w)
    PROVE  TypeOK'
  BY ArrivesType, DecidesType, FileStepType DEF StepOf

LEMMA CrashKeeps ==
    ASSUME TypeOK, IdsCounted, Crash
    PROVE  TypeOK' /\ Shape' /\ IdsCounted'
<1>1. \A w \in Workers : pc'[w] = "idle" /\ slot'[w] = NoSlot
  BY DEF Crash
<1>2. TypeOK'
  <2>1. pc' \in [Workers -> Steps] /\ replaced' \in [Workers -> Contents]
    BY StepsAreSteps DEF Crash
  <2>2. job' \in [Workers -> Requests \cup {NoJob}] /\ slot' \in [Workers -> Slots \cup {NoSlot}]
    BY DEF Crash
  <2>3. linked' \in [Workers -> BOOLEAN] /\ older' \in [Workers -> SUBSET Slots]
    BY DEF Crash
  <2>4. crashes' \in 0 .. MaxCrashes
    BY BoundsAssumption DEF TypeOK, Crash
  <2> QED BY <2>1, <2>2, <2>3, <2>4 DEF TypeOK, Crash
<1>3. Shape'
  BY <1>1 DEF Shape, StepShape
<1>4. Choosing' \subseteq Choosing
  BY <1>1 DEF Choosing, At
<1>5. UNCHANGED <<files, creates>>
  BY DEF Crash
<1>6. IdsCounted'
  BY <1>1, <1>4, <1>5, IdsStillCounted DEF Opening
<1> QED BY <1>2, <1>3, <1>6

------------------------------------------------------------------------------
(* Creates spare what is older. *)

(* Which files a step may take away, and which it may bring. *)
LEMMA StoredChanges ==
    ASSUME TypeOK, Shape, NEW w \in Workers, StepOf(w)
    PROVE  /\ ~Remove(w) => Stored \subseteq Stored'
           /\ Remove(w) => Stored' = Stored \ {slot[w]}
<1>1. CASE Arrives(w) \/ Decides(w) \/ Respond(w)
  <2>1. files' = files
    BY <1>1, ArrivesKeeps, DecidesKeeps DEF Respond
  <2>2. ~Remove(w)
    <3>1. CASE RemoveFails(w)
      BY <3>1, BoundsAssumption DEF Remove, RemoveFails, Fault, TypeOK
    <3>2. CASE ~RemoveFails(w)
      BY <1>1, <3>2, ArrivesKeeps, ContentsDiffer DEF Remove, At, Decides, ListForCreate, ListForGet,
          Exists, Read, ReadFails, OpenFails, WriteFails, Check, Respond
    <3> QED BY <3>1, <3>2
  <2> QED BY <2>1, <2>2 DEF Stored
<1>2. CASE Open(w)
  <2>1. slot[w] \in Slots /\ files' = [files EXCEPT ![slot[w]] = Empty] /\ ~Remove(w)
    BY <1>2, WriterFields DEF Opening, Open, At, Remove
  <2> QED BY <2>1, ContentsDiffer DEF TypeOK, Stored
<1>3. CASE Write(w)
  <2>1. PICK content \in Written(w) : files' = [files EXCEPT ![slot[w]] = content]
    BY <1>3 DEF Write
  <2>2. slot[w] \in Slots /\ ~Remove(w) /\ content \in Contents
        /\ (content = files[slot[w]] \/ content \in Bodies \cup {Mixed})
    BY <1>3, WrittenType, WriterFields DEF Write, Opening, At, Remove
  <2>3. Absent \notin Bodies \cup {Mixed}
    BY ContentsDiffer, ContentsAssumption
  <2> QED BY <2>1, <2>2, <2>3 DEF TypeOK, Stored
<1>4. CASE Remove(w)
  BY <1>4 DEF TypeOK, Remove, Stored
<1> QED BY <1>1, <1>2, <1>3, <1>4 DEF StepOf

LEMMA StepKeepsOlder ==
    ASSUME TypeOK, Shape, OlderStored, NEW w \in Workers, StepOf(w)
    PROVE  OlderStored'
<1>1. CASE Remove(w)
  <2>1. Stored' = Stored \ {slot[w]}
    BY <1>1, StoredChanges
  <2> QED BY <1>1, <2>1 DEF Remove, OlderStored
<1>2. CASE ~Remove(w)
  <2>1. Stored \subseteq Stored'
    BY <1>2, StoredChanges
  <2>2. \A v \in Workers : older'[v] \in {older[v], Stored, {}}
    <3>1. CASE Arrives(w)
      BY <3>1 DEF Arrives, TypeOK, RequestFile, RequestDir, RequestRefused
    <3>2. CASE Decides(w) \/ Open(w) \/ Write(w)
      BY <3>2, DecidesKeeps DEF Open, Write
    <3>3. CASE Respond(w)
      BY <3>3 DEF TypeOK, Respond
    <3> QED BY <1>2, <3>1, <3>2, <3>3 DEF StepOf
  <2> QED BY <2>1, <2>2 DEF OlderStored
<1> QED BY <1>1, <1>2

(* The choice of ls: the file of the new identifier is not there, so it has not
   been there all along. *)
LEMMA ChoiceSpares ==
    ASSUME TypeOK, Shape, IdsCounted, OlderStored, NEW w \in Workers, ListForCreate(w)
    PROVE  slot'[w] \notin older'[w]
<1> DEFINE e == job[w].target[1]
<1>1. e \in Entities /\ slot'[w] = <<e, NextId(IdsOf(e))>> /\ older' = older
  BY DEF TypeOK, ListForCreate, Shape, StepShape, At
<1>2. slot'[w] \in Slots
  BY SlotOfCreate
<1>3. NextId(IdsOf(e)) \in Ids
  BY <1>1, <1>2 DEF Slots
<1>4. NextId(IdsOf(e)) \notin IdsOf(e)
  BY <1>1, NextIdFollows
<1>5. files[slot'[w]] = Absent
  BY <1>1, <1>3, <1>4 DEF IdsOf
<1> QED BY <1>1, <1>5 DEF OlderStored, Stored

LEMMA StepSparesOlder ==
    ASSUME TypeOK, Shape, IdsCounted, OlderStored, CreateSparesOlder, NEW w \in Workers, StepOf(w)
    PROVE  CreateSparesOlder'
<1>1. /\ \A v \in Workers \ {w} : pc'[v] = pc[v] /\ job'[v] = job[v] /\ slot'[v] = slot[v]
      /\ \A v \in Workers \ {w} : older'[v] \subseteq older[v]
  <2>1. \A v \in Workers \ {w} : older'[v] \subseteq older[v]
    <3>1. CASE Arrives(w)
      BY <3>1 DEF Arrives, TypeOK, RequestFile, RequestDir, RequestRefused
    <3>2. CASE Decides(w) \/ Open(w) \/ Write(w)
      BY <3>2, DecidesKeeps DEF Open, Write
    <3>3. CASE Remove(w) \/ Respond(w)
      BY <3>3 DEF TypeOK, Remove, Respond
    <3> QED BY <3>1, <3>2, <3>3 DEF StepOf
  <2> QED BY <2>1, OthersStay
<1>2. ASSUME Verb(w)' = "POST", Opening(w)'
      PROVE  slot'[w] \notin older'[w]
  <2>1. CASE Arrives(w) \/ Write(w) \/ Remove(w) \/ Respond(w)
    <3>1. ~Opening(w)'
      BY <2>1 DEF Arrives, TypeOK, RequestFile, RequestDir, RequestRefused, Write, Remove, Respond,
                  GoTo, Reply, Opening
    <3> QED BY <1>2, <3>1
  <2>2. CASE Open(w)
    <3>1. UNCHANGED <<job, slot, older>> /\ Opening(w)
      BY <2>2 DEF Open, At, Opening
    <3> QED BY <1>2, <3>1 DEF CreateSparesOlder, Opening, Verb
  <2>3. CASE Decides(w)
    <3>1. CASE ListForCreate(w)
      BY <3>1, ChoiceSpares
    <3>2. CASE ~ListForCreate(w)
      <4>1. UNCHANGED job
        BY <2>3, DecidesKeeps
      <4>2. Verb(w) = "PUT"
        BY <1>2, <2>3, <3>2, DecidesSteps DEF Opening
      <4> QED BY <1>2, <4>1, <4>2 DEF Verb
    <3> QED BY <3>1, <3>2
  <2> QED BY <2>1, <2>2, <2>3 DEF StepOf
<1>3. ASSUME NEW v \in Workers \ {w}, Verb(v)' = "POST", Opening(v)'
      PROVE  slot'[v] \notin older'[v]
  <2>1. slot[v] \notin older[v]
    BY <1>1, <1>3 DEF CreateSparesOlder, Opening, Verb
  <2> QED BY <1>1, <2>1
<1> QED BY <1>2, <1>3 DEF CreateSparesOlder, Opening

------------------------------------------------------------------------------
(* Empty files. *)

(* The open file under s has a writer. *)
HasWriter(s) == \E w \in Workers : At(w, "write") /\ slot[w] = s /\ linked[w]

LEMMA StepKeepsWriters ==
    ASSUME TypeOK, Shape, EmptyOnlyUnderWriter, NEW w \in Workers, StepOf(w)
    PROVE  EmptyOnlyUnderWriter'
<1> SUFFICES ASSUME crashes' = 0, faults' = 0, NEW s \in Slots, files'[s] = Empty
             PROVE  HasWriter(s)'
  BY DEF EmptyOnlyUnderWriter, HasWriter
<1>1. crashes = 0 /\ faults = 0 /\ UNCHANGED <<crashes, faults>>
  BY BoundsAssumption DEF TypeOK, StepOf, Arrives, Decides, RequestFile, RequestDir, RequestRefused,
      Idle, ListForCreate, ListForGet, Exists, Read, ReadFails, OpenFails, WriteFails, RemoveFails, Check, Fault,
      Open, Write, Remove, Respond
<1>2. files[s] = Empty => HasWriter(s)
  BY <1>1 DEF EmptyOnlyUnderWriter, HasWriter
<1>3. \A v \in Workers \ {w} : pc'[v] = pc[v] /\ slot'[v] = slot[v]
  BY OthersStay
<1>4. ASSUME files[s] = Empty, linked' = linked, ~At(w, "write")
      PROVE  HasWriter(s)'
  <2>1. PICK v \in Workers : At(v, "write") /\ slot[v] = s /\ linked[v]
    BY <1>2, <1>4 DEF HasWriter
  <2>2. v # w
    BY <1>4, <2>1
  <2> QED BY <1>3, <1>4, <2>1, <2>2 DEF HasWriter, At
<1>5. CASE Arrives(w)
  BY <1>4, <1>5, ArrivesKeeps DEF At
<1>6. CASE Decides(w)
  <2>1. ~WriteFails(w)
    BY <1>1 DEF WriteFails, Fault, TypeOK
  <2>2. ~At(w, "write")
    BY <1>6, <2>1 DEF Decides, ListForCreate, ListForGet, Exists, Read, ReadFails, OpenFails, Check, RemoveFails, At
  <2> QED BY <1>4, <1>6, <2>2, DecidesKeeps
<1>7. CASE Open(w)
  <2>1. /\ pc[w] = "open" /\ pc'[w] = "write" /\ slot' = slot /\ linked'[w] = TRUE
        /\ \A v \in Workers \ {w} : linked'[v] = linked[v]
        /\ s # slot[w] => files'[s] = files[s]
    BY <1>7 DEF Open, TypeOK, At, GoTo
  <2>2. CASE s = slot[w]
    BY <2>1, <2>2 DEF HasWriter, At
  <2>3. CASE s # slot[w]
    <3>1. PICK v \in Workers : At(v, "write") /\ slot[v] = s /\ linked[v]
      BY <1>2, <2>1, <2>3 DEF HasWriter
    <3>2. v # w
      BY <2>3, <3>1
    <3> QED BY <1>3, <2>1, <3>1, <3>2 DEF HasWriter, At
  <2> QED BY <2>2, <2>3
<1>8. CASE Write(w)
  <2>1. PICK content \in Written(w) : files' = [files EXCEPT ![slot[w]] = content]
    BY <1>8 DEF Write
  <2>2. /\ slot[w] \in Slots /\ content \in Contents /\ At(w, "write")
        /\ linked[w] => content # Empty
        /\ ~linked[w] => content = files[slot[w]]
    BY <1>8, WrittenType, WriterFields, ContentsDiffer, ContentsAssumption DEF Write, Opening, At
  <2>3. files[s] = Empty /\ ~(linked[w] /\ slot[w] = s)
    BY <2>1, <2>2 DEF TypeOK
  <2>4. PICK v \in Workers : At(v, "write") /\ slot[v] = s /\ linked[v]
    BY <1>2, <2>3 DEF HasWriter
  <2>5. v # w
    BY <2>3, <2>4
  <2>6. linked' = linked
    BY <1>8 DEF Write
  <2> QED BY <1>3, <2>4, <2>5, <2>6 DEF HasWriter, At
<1>9. CASE Remove(w)
  <2>1. /\ pc[w] = "remove" /\ files' = [files EXCEPT ![slot[w]] = Absent]
        /\ linked' = [v \in Workers |-> linked[v] /\ slot[v] # slot[w]]
    BY <1>9 DEF Remove, At
  <2>2. s # slot[w] /\ files[s] = Empty
    BY <2>1, ContentsDiffer DEF TypeOK
  <2>3. PICK v \in Workers : At(v, "write") /\ slot[v] = s /\ linked[v]
    BY <1>2, <2>2 DEF HasWriter
  <2>4. v # w
    BY <2>1, <2>3 DEF At
  <2>5. linked'[v]
    BY <2>1, <2>2, <2>3
  <2> QED BY <1>3, <2>3, <2>4, <2>5 DEF HasWriter, At
<1>10. CASE Respond(w)
  <2>1. /\ pc[w] = "respond" /\ files' = files
        /\ \A v \in Workers \ {w} : linked'[v] = linked[v]
    BY <1>10 DEF Respond, At, TypeOK
  <2>2. PICK v \in Workers : At(v, "write") /\ slot[v] = s /\ linked[v]
    BY <1>2, <2>1 DEF HasWriter
  <2>3. v # w
    BY <2>1, <2>2 DEF At
  <2> QED BY <1>3, <2>1, <2>2, <2>3 DEF HasWriter, At
<1> QED BY <1>5, <1>6, <1>7, <1>8, <1>9, <1>10 DEF StepOf

------------------------------------------------------------------------------
LEMMA InitIInv == Init => IInv
<1> SUFFICES ASSUME Init PROVE IInv
  OBVIOUS
<1>1. \A w \in Workers : pc[w] = "idle" /\ older[w] = {}
  BY DEF Init
<1>2. \A s \in Slots : files[s] = Absent
  BY DEF Init
<1>3. Shape
  BY <1>1 DEF Shape, StepShape
<1>4. IdsCounted
  <2>1. Choosing = {}
    BY <1>1 DEF Choosing, At
  <2>2. IsFiniteSet(Choosing) /\ Cardinality(Choosing) = 0 /\ creates = 0
    BY <2>1, FS_EmptySet DEF Init
  <2>3. \A w \in Workers : ~Opening(w)
    BY <1>1 DEF Opening
  <2>4. Cardinality(Choosing) <= creates
    BY <2>2
  <2> QED BY <1>2, <2>2, <2>3, <2>4 DEF IdsCounted
<1>5. OlderStored /\ CreateSparesOlder
  BY <1>1 DEF OlderStored, CreateSparesOlder
<1>6. EmptyOnlyUnderWriter
  BY <1>2, ContentsDiffer DEF EmptyOnlyUnderWriter
<1> QED BY <1>3, <1>4, <1>5, <1>6, InitTypeOK DEF IInv

LEMMA NextIInv == IInv /\ [Next]_vars => IInv'
<1> SUFFICES ASSUME IInv, [Next]_vars PROVE IInv'
  OBVIOUS
<1>1. ASSUME NEW w \in Workers, StepOf(w)
      PROVE  IInv'
  BY <1>1, StepKeepsTypes, StepKeepsShape, StepKeepsIds, StepKeepsOlder, StepSparesOlder,
     StepKeepsWriters DEF IInv
<1>2. CASE Crash
  <2>1. \A w \in Workers : older'[w] = {}
    BY <1>2 DEF Crash
  <2>2. OlderStored' /\ CreateSparesOlder'
    BY <2>1 DEF OlderStored, CreateSparesOlder
  <2>3. crashes' # 0
    BY <1>2, BoundsAssumption DEF IInv, TypeOK, Crash
  <2>4. EmptyOnlyUnderWriter'
    BY <2>3 DEF EmptyOnlyUnderWriter
  <2> QED BY <1>2, <2>2, <2>4, CrashKeeps DEF IInv
<1>3. CASE UNCHANGED vars
  BY <1>3 DEF vars, IInv, TypeOK, Shape, StepShape, Verb, IdsCounted, Choosing, Opening, At,
              OlderStored, Stored, CreateSparesOlder, EmptyOnlyUnderWriter
<1> QED BY <1>1, <1>2, <1>3, NextIsSteps

LEMMA SpecIInv == Spec => []IInv
  BY InitIInv, NextIInv, PTL DEF Spec

(* Every variable keeps its type; above all, the identifiers that creates
   choose are never more than the creates there were (handle_create_request). *)
THEOREM SpecTypeOK == Spec => []TypeOK
<1>1. IInv => TypeOK
  BY DEF IInv
<1> QED BY <1>1, SpecIInv, PTL

(* However the file system calls of the requests interleave, and with crashes
   and failing calls, a create writes where no entity has been since before its
   request came (handle_create_request). *)
THEOREM SpecCreateSparesOlder == Spec => []CreateSparesOlder
<1>1. IInv => CreateSparesOlder
  BY DEF IInv
<1> QED BY <1>1, SpecIInv, PTL

(* Overlapping requests alone never leave an empty entity behind: what was
   truncated (write_file) has a writer that will fill it. *)
THEOREM SpecEmptyOnlyUnderWriter == Spec => []EmptyOnlyUnderWriter
<1>1. IInv => EmptyOnlyUnderWriter
  BY DEF IInv
<1> QED BY <1>1, SpecIInv, PTL

------------------------------------------------------------------------------
(* With one worker CrudApi implements EntityStore: every step maps to one step *)
(* of the abstract store or to none.                                       *)

(* What the one worker w knows of its request and of the file it works on. *)
Alone(w) ==
    /\ DOMAIN reply = Workers
    /\ pc[w] = "idle" => job[w] = NoJob /\ reply[w] = NoReply
    /\ pc[w] # "idle" => job[w] \in Requests
    /\ pc[w] \notin {"idle", "respond"} => reply[w] = NoReply
    /\ pc[w] = "respond" => reply[w].status # 0
    /\ pc[w] = "ls" => Len(job[w].target) = 1
    /\ pc[w] \in {"exists", "read", "check", "remove"} =>
            Len(job[w].target) = 2 /\ slot[w] = job[w].target
    /\ pc[w] \in {"read", "check", "remove"} => files[slot[w]] # Absent
    /\ Opening(w) /\ Verb(w) = "POST" =>
            Len(job[w].target) = 1 /\ slot[w][1] = job[w].target[1]
    /\ Opening(w) /\ Verb(w) = "PUT" =>
            Len(job[w].target) = 2 /\ slot[w] = job[w].target
    /\ pc[w] = "open" =>
            /\ Verb(w) = "POST" <=> files[slot[w]] = Absent
            /\ Verb(w) = "POST" => \A i \in IdsOf(slot[w][1]) : i < slot[w][2]
    /\ pc[w] = "write" =>
            /\ linked[w] /\ files[slot[w]] = Empty
            /\ Verb(w) = "POST" <=> replaced[w] = Absent
            /\ Verb(w) = "POST" => \A i \in IdsOf(slot[w][1]) : i <= slot[w][2]

------------------------------------------------------------------------------
(* The abstract store, as a function of the files. *)

StoreMap == [e \in Entities |-> StoreOf(e)]

LEMMA HeldIs ==
    ASSUME NEW w, Workers = {w}, NEW s
    PROVE  Held(s) = IF At(w, "write") /\ slot[w] = s /\ linked[w] THEN replaced[w] ELSE files[s]
<1> DEFINE writers == {v \in Workers : At(v, "write") /\ slot[v] = s /\ linked[v]}
<1>1. CASE At(w, "write") /\ slot[w] = s /\ linked[w]
  <2>1. writers = {w}
    BY <1>1
  <2>2. (CHOOSE v \in {w} : TRUE) = w
    OBVIOUS
  <2>3. (CHOOSE v \in writers : TRUE) = w /\ writers # {}
    BY <2>1, <2>2
  <2> QED BY <1>1, <2>3 DEF Held
<1>2. CASE ~(At(w, "write") /\ slot[w] = s /\ linked[w])
  <2>1. writers = {}
    BY <1>2
  <2> QED BY <1>2, <2>1 DEF Held
<1> QED BY <1>1, <1>2

LEMMA HeldIsNext ==
    ASSUME NEW w, Workers = {w}, NEW s
    PROVE  Held(s)' = IF pc'[w] = "write" /\ slot'[w] = s /\ linked'[w]
                      THEN replaced'[w] ELSE files'[s]
<1> DEFINE writers == {v \in Workers : pc'[v] = "write" /\ slot'[v] = s /\ linked'[v]}
<1>0. Held(s)' = IF writers = {} THEN files'[s] ELSE replaced'[CHOOSE v \in writers : TRUE]
  BY DEF Held, At
<1>1. CASE pc'[w] = "write" /\ slot'[w] = s /\ linked'[w]
  <2>1. writers = {w}
    BY <1>1
  <2>2. (CHOOSE v \in {w} : TRUE) = w
    OBVIOUS
  <2>3. (CHOOSE v \in writers : TRUE) = w /\ writers # {}
    BY <2>1, <2>2
  <2> QED BY <1>0, <1>1, <2>3
<1>2. CASE ~(pc'[w] = "write" /\ slot'[w] = s /\ linked'[w])
  <2>1. writers = {}
    BY <1>2
  <2> QED BY <1>0, <1>2, <2>1
<1> QED BY <1>1, <1>2

(* An identifier is in the map exactly if its file holds something. *)
LEMMA StoreOfParts ==
    ASSUME NEW e \in Entities
    PROVE  /\ StoreMap[e] = StoreOf(e)
           /\ DOMAIN StoreOf(e) = {j \in Ids : Held(<<e, j>>) # Absent}
           /\ \A i \in Ids : Held(<<e, i>>) # Absent => StoreOf(e)[i] = Held(<<e, i>>)
  BY DEF StoreMap, StoreOf

LEMMA StoreStays ==
    ASSUME \A s \in Slots : Held(s)' = Held(s)
    PROVE  StoreMap' = StoreMap
<1>1. ASSUME NEW e \in Entities
      PROVE  StoreOf(e)' = StoreOf(e)
  <2>1. \A i \in Ids : Held(<<e, i>>)' = Held(<<e, i>>)
    BY DEF Slots
  <2>2. {j \in Ids : Held(<<e, j>>)' # Absent} = {j \in Ids : Held(<<e, j>>) # Absent}
    BY <2>1
  <2> QED BY <2>1, <2>2 DEF StoreOf
<1> QED BY <1>1 DEF StoreMap

(* One entity has got a body b. *)
LEMMA StorePut ==
    ASSUME NEW s \in Slots, NEW b, b # Absent, Held(s)' = b,
           \A t \in Slots \ {s} : Held(t)' = Held(t)
    PROVE  StoreMap' = [StoreMap EXCEPT ![s[1]] = Store!With(@, s[2], b)]
<1>0. s[1] \in Entities /\ s[2] \in Ids /\ s = <<s[1], s[2]>>
  BY SlotParts
<1>1. ASSUME NEW e \in Entities \ {s[1]}
      PROVE  StoreOf(e)' = StoreOf(e)
  <2>1. \A i \in Ids : Held(<<e, i>>)' = Held(<<e, i>>)
    BY <1>0 DEF Slots
  <2>2. {j \in Ids : Held(<<e, j>>)' # Absent} = {j \in Ids : Held(<<e, j>>) # Absent}
    BY <2>1
  <2> QED BY <2>1, <2>2 DEF StoreOf
<1>2. StoreOf(s[1])' = Store!With(StoreOf(s[1]), s[2], b)
  <2> DEFINE e == s[1]
             D == {j \in Ids : Held(<<e, j>>) # Absent}
  <2>1. Held(<<e, s[2]>>)' = b /\ \A i \in Ids \ {s[2]} : Held(<<e, i>>)' = Held(<<e, i>>)
    <3>1. \A i \in Ids \ {s[2]} : <<e, i>> \in Slots \ {s}
      BY <1>0 DEF Slots
    <3> QED BY <1>0, <3>1
  <2>2. {j \in Ids : Held(<<e, j>>)' # Absent} = D \cup {s[2]}
    BY <1>0, <2>1
  <2>3. StoreOf(e)' = [i \in D \cup {s[2]} |-> Held(<<e, i>>)']
    BY <2>2 DEF StoreOf
  <2>4. StoreOf(e) = [i \in D |-> Held(<<e, i>>)] /\ DOMAIN StoreOf(e) = D
    BY DEF StoreOf
  <2>5. Store!With(StoreOf(e), s[2], b)
          = [i \in D \cup {s[2]} |-> IF i = s[2] THEN b ELSE StoreOf(e)[i]]
    BY <2>4 DEF Store!With
  <2>6. ASSUME NEW i \in D \cup {s[2]}
        PROVE  Held(<<e, i>>)' = IF i = s[2] THEN b ELSE StoreOf(e)[i]
    BY <1>0, <2>1, <2>4
  <2> HIDE DEF D
  <2> QED BY <2>3, <2>5, <2>6
<1> QED BY <1>0, <1>1, <1>2 DEF StoreMap

(* One entity is gone. *)
LEMMA StoreDrop ==
    ASSUME NEW s \in Slots, Held(s)' = Absent,
           \A t \in Slots \ {s} : Held(t)' = Held(t)
    PROVE  StoreMap' = [StoreMap EXCEPT ![s[1]] = Store!Without(@, s[2])]
<1>0. s[1] \in Entities /\ s[2] \in Ids /\ s = <<s[1], s[2]>>
  BY SlotParts
<1>1. ASSUME NEW e \in Entities \ {s[1]}
      PROVE  StoreOf(e)' = StoreOf(e)
  <2>1. \A i \in Ids : Held(<<e, i>>)' = Held(<<e, i>>)
    BY <1>0 DEF Slots
  <2>2. {j \in Ids : Held(<<e, j>>)' # Absent} = {j \in Ids : Held(<<e, j>>) # Absent}
    BY <2>1
  <2> QED BY <2>1, <2>2 DEF StoreOf
<1>2. StoreOf(s[1])' = Store!Without(StoreOf(s[1]), s[2])
  <2> DEFINE e == s[1]
             D == {j \in Ids : Held(<<e, j>>) # Absent}
  <2>1. Held(<<e, s[2]>>)' = Absent /\ \A i \in Ids \ {s[2]} : Held(<<e, i>>)' = Held(<<e, i>>)
    <3>1. \A i \in Ids \ {s[2]} : <<e, i>> \in Slots \ {s}
      BY <1>0 DEF Slots
    <3> QED BY <1>0, <3>1
  <2>2. {j \in Ids : Held(<<e, j>>)' # Absent} = D \ {s[2]}
    BY <1>0, <2>1
  <2>3. StoreOf(e)' = [i \in D \ {s[2]} |-> Held(<<e, i>>)']
    BY <2>2 DEF StoreOf
  <2>4. StoreOf(e) = [i \in D |-> Held(<<e, i>>)] /\ DOMAIN StoreOf(e) = D
    BY DEF StoreOf
  <2>5. Store!Without(StoreOf(e), s[2]) = [i \in D \ {s[2]} |-> StoreOf(e)[i]]
    BY <2>4 DEF Store!Without
  <2>6. ASSUME NEW i \in D \ {s[2]}
        PROVE  Held(<<e, i>>)' = StoreOf(e)[i]
    BY <1>0, <2>1, <2>4
  <2> HIDE DEF D
  <2> QED BY <2>3, <2>5, <2>6
<1> QED BY <1>0, <1>1, <1>2 DEF StoreMap

------------------------------------------------------------------------------
(* The worker alone. *)

LEMMA RespondsAlone ==
    ASSUME NEW w, pc'[w] = "respond", job'[w] \in Requests, DOMAIN reply' = Workers,
           reply'[w].status # 0
    PROVE  Alone(w)'
  BY DEF Alone, Opening

(* What a step that answers does. *)
LEMMA ReplyIs ==
    ASSUME TypeOK, NEW w \in Workers, DOMAIN reply = Workers, NEW r, Reply(w, r)
    PROVE  pc'[w] = "respond" /\ reply'[w] = r /\ DOMAIN reply' = Workers
  BY DEF TypeOK, Reply, GoTo

LEMMA RequestAlone ==
    ASSUME NEW w \in Workers, Workers = {w}, IInv, Alone(w), Arrives(w)
    PROVE  Alone(w)'
<1>0. TypeOK /\ DOMAIN reply = Workers /\ pc[w] = "idle" /\ reply[w] = NoReply
  BY ArrivesKeeps DEF IInv, Alone, At
<1>1. ASSUME NEW r \in Requests, RequestFile(w, r)
      PROVE  Alone(w)'
  <2>1. /\ pc'[w] = "exists" /\ job'[w] = r /\ slot'[w] = r.target /\ Len(r.target) = 2
        /\ reply' = reply
    BY <1>0, <1>1 DEF RequestFile, TypeOK, GoTo
  <2> QED BY <1>0, <2>1 DEF Alone, Opening
<1>2. ASSUME NEW r \in Requests, RequestDir(w, r)
      PROVE  Alone(w)'
  <2>1. pc'[w] = "ls" /\ job'[w] = r /\ Len(r.target) = 1 /\ reply' = reply
    BY <1>0, <1>2 DEF RequestDir, TypeOK, GoTo
  <2> QED BY <1>0, <2>1 DEF Alone, Opening
<1>3. ASSUME NEW r \in Requests, RequestRefused(w, r)
      PROVE  Alone(w)'
  <2>1. job'[w] = r /\ Reply(w, Status(IF r.verb = "PATCH" THEN 501 ELSE 400))
    BY <1>0, <1>3 DEF RequestRefused, TypeOK
  <2>2. pc'[w] = "respond" /\ DOMAIN reply' = Workers /\ reply'[w].status # 0
    BY <1>0, <2>1, ReplyIs DEF Status
  <2> QED BY <2>1, <2>2, RespondsAlone
<1> QED BY <1>1, <1>2, <1>3 DEF Arrives

(* The identifier of a new entity is free and larger than all others. *)
LEMMA ChosenIsFree ==
    ASSUME IInv, NEW w \in Workers, ListForCreate(w)
    PROVE  /\ slot'[w] \in Slots /\ slot'[w][1] = job[w].target[1]
           /\ files[slot'[w]] = Absent
           /\ \A i \in IdsOf(slot'[w][1]) : i < slot'[w][2]
<1> DEFINE e == job[w].target[1]
<1>1. e \in Entities /\ slot'[w] = <<e, NextId(IdsOf(e))>>
  BY DEF IInv, TypeOK, ListForCreate, Shape, StepShape, At
<1>2. slot'[w] \in Slots
  BY SlotOfCreate DEF IInv
<1>3. NextId(IdsOf(e)) \in Ids
  BY <1>1, <1>2 DEF Slots
<1>4. NextId(IdsOf(e)) \in Nat /\ \A i \in IdsOf(e) : i < NextId(IdsOf(e))
  BY <1>1, NextIdFollows
<1>5. NextId(IdsOf(e)) \notin IdsOf(e)
  BY <1>4
<1>6. files[slot'[w]] = Absent
  BY <1>1, <1>3, <1>5 DEF IdsOf
<1> QED BY <1>1, <1>2, <1>4, <1>6

LEMMA DecideAlone ==
    ASSUME NEW w \in Workers, Workers = {w}, IInv, Alone(w), Decides(w)
    PROVE  Alone(w)'
<1>0. TypeOK /\ DOMAIN reply = Workers /\ UNCHANGED <<files, job, linked, replaced>>
  BY DecidesKeeps DEF IInv, Alone
<1>1. pc[w] \notin {"idle", "respond"} /\ job[w] \in Requests /\ reply[w] = NoReply
  <2>1. pc[w] \notin {"idle", "respond"}
    BY DEF Decides, ListForCreate, ListForGet, Exists, Read, ReadFails, OpenFails, WriteFails, RemoveFails,
           Check, At
  <2> QED BY <2>1 DEF Alone
<1>2. ASSUME NEW r, Reply(w, r), r.status # 0
      PROVE  Alone(w)'
  BY <1>0, <1>1, <1>2, ReplyIs, RespondsAlone
<1>3. CASE ListForCreate(w)
  <2>1. pc[w] = "ls" /\ Verb(w) = "POST" /\ pc'[w] = "open" /\ reply' = reply
    BY <1>0, <1>3 DEF ListForCreate, TypeOK, At, GoTo
  <2>2. /\ slot'[w] \in Slots /\ slot'[w][1] = job[w].target[1]
        /\ files[slot'[w]] = Absent
        /\ \A i \in IdsOf(slot'[w][1]) : i < slot'[w][2]
    BY <1>3, ChosenIsFree
  <2>3. Len(job[w].target) = 1
    BY <2>1 DEF Alone
  <2> QED BY <1>0, <1>1, <2>1, <2>2, <2>3 DEF Alone, Opening, Verb, IdsOf
<1>4. CASE ListForGet(w)
  <2>1. PICK r : Reply(w, r) /\ r.status # 0
    BY <1>4 DEF ListForGet, Status
  <2> QED BY <1>2, <2>1
<1>5. CASE Exists(w)
  <2>1. CASE files[slot[w]] = Absent
    BY <1>2, <1>5, <2>1 DEF Exists, Status
  <2>2. CASE files[slot[w]] # Absent
    <3>1. pc[w] = "exists" /\ pc'[w] = "read" /\ UNCHANGED <<slot, reply>>
      BY <1>0, <1>5, <2>2 DEF Exists, TypeOK, At, GoTo
    <3> QED BY <1>0, <1>1, <2>2, <3>1 DEF Alone, Opening
  <2> QED BY <2>1, <2>2
<1>6. CASE Read(w)
  <2>1. pc[w] = "read" /\ slot' = slot /\ files[slot[w]] # Absent
    BY <1>6 DEF Read, At, Alone
  <2>2. CASE Verb(w) = "GET" /\ Reply(w, [status |-> 200, body |-> files[slot[w]]])
    BY <1>2, <2>2
  <2>3. CASE Verb(w) = "PUT" /\ GoTo(w, "open") /\ UNCHANGED reply
    <3>1. pc'[w] = "open"
      BY <1>0, <2>3 DEF TypeOK, GoTo
    <3> QED BY <1>0, <1>1, <2>1, <2>3, <3>1 DEF Alone, Opening, Verb
  <2>4. CASE Verb(w) = "DELETE" /\ GoTo(w, "check") /\ UNCHANGED reply
    <3>1. pc'[w] = "check"
      BY <1>0, <2>4 DEF TypeOK, GoTo
    <3> QED BY <1>0, <1>1, <2>1, <2>4, <3>1 DEF Alone, Opening, Verb
  <2> QED BY <1>6, <2>1, <2>2, <2>3, <2>4 DEF Read
<1>7. CASE ReadFails(w) \/ OpenFails(w) \/ WriteFails(w) \/ RemoveFails(w)
  <2>1. PICK r : Reply(w, r) /\ r.status # 0
    BY <1>7 DEF ReadFails, OpenFails, WriteFails, RemoveFails, Status, Success
  <2> QED BY <1>2, <2>1
<1>8. CASE Check(w)
  <2>1. CASE files[slot[w]] = Absent
    BY <1>2, <1>8, <2>1 DEF Check, Status
  <2>2. CASE files[slot[w]] # Absent
    <3>1. pc[w] = "check" /\ pc'[w] = "remove" /\ UNCHANGED <<slot, reply>>
      BY <1>0, <1>8, <2>2 DEF Check, TypeOK, At, GoTo
    <3> QED BY <1>0, <1>1, <2>2, <3>1 DEF Alone, Opening
  <2> QED BY <2>1, <2>2
<1> QED BY <1>3, <1>4, <1>5, <1>6, <1>7, <1>8 DEF Decides

LEMMA StepAlone ==
    ASSUME NEW w \in Workers, Workers = {w}, IInv, Alone(w), StepOf(w)
    PROVE  Alone(w)'
<1>0. TypeOK /\ DOMAIN reply = Workers
  BY DEF IInv, Alone
<1>1. CASE Open(w)
  <2>1. /\ pc[w] = "open" /\ pc'[w] = "write" /\ linked'[w] /\ UNCHANGED <<job, slot, reply>>
        /\ replaced'[w] = files[slot[w]]
        /\ files' = [files EXCEPT ![slot[w]] = Empty]
    BY <1>0, <1>1 DEF Open, TypeOK, At, GoTo
  <2>2. slot[w] \in Slots /\ job[w] \in Requests /\ reply[w] = NoReply
    BY <2>1 DEF IInv, Shape, StepShape, Alone
  <2>3. files'[slot[w]] = Empty
    BY <1>0, <2>1, <2>2 DEF TypeOK
  <2>4. Verb(w) = "POST" => \A i \in IdsOf(slot[w][1])' : i <= slot[w][2]
    <3>0. HAVE Verb(w) = "POST"
    <3> TAKE i \in IdsOf(slot[w][1])'
    <3>1. i \in Ids /\ files'[<<slot[w][1], i>>] # Absent
      BY <2>1 DEF IdsOf
    <3>2. slot[w] = <<slot[w][1], slot[w][2]>> /\ slot[w][1] \in Entities /\ slot[w][2] \in Nat
      BY <2>2, SlotParts
    <3>3. CASE i = slot[w][2]
      BY <3>2, <3>3
    <3>4. CASE i # slot[w][2]
      <4>1. <<slot[w][1], i>> \in Slots /\ <<slot[w][1], i>> # slot[w]
        BY <3>1, <3>2, <3>4 DEF Slots
      <4>2. i \in IdsOf(slot[w][1])
        BY <1>0, <2>1, <3>1, <4>1 DEF TypeOK, IdsOf
      <4>3. i < slot[w][2]
        BY <2>1, <3>0, <4>2 DEF Alone
      <4> QED BY <3>1, <3>2, <4>3, BoundsAssumption DEF Ids
    <3> QED BY <3>3, <3>4
  <2>5. Opening(w)
    BY <2>1 DEF Opening
  <2>6. Verb(w) = "POST" <=> files[slot[w]] = Absent
    BY <2>1 DEF Alone
  <2>7. Verb(w)' = Verb(w)
    BY <2>1 DEF Verb
  <2>8. Opening(w) /\ Verb(w) = "POST" => Len(job[w].target) = 1 /\ slot[w][1] = job[w].target[1]
    BY DEF Alone
  <2>9. Opening(w) /\ Verb(w) = "PUT" => Len(job[w].target) = 2 /\ slot[w] = job[w].target
    BY DEF Alone
  <2>10. Opening(w)' /\ pc'[w] \notin {"idle", "respond", "ls", "exists", "read", "check", "remove", "open"}
    BY <2>1 DEF Opening
  <2>11. /\ slot'[w] = slot[w] /\ job'[w] = job[w] /\ reply'[w] = NoReply
         /\ DOMAIN reply' = Workers
    BY <1>0, <2>1, <2>2
  <2>12. (Verb(w) = "POST" => \A i \in IdsOf(slot[w][1]) : i <= slot[w][2])'
    BY <2>4, <2>7, <2>11
  <2> HIDE DEF Opening
  <2> QED BY <2>1, <2>2, <2>3, <2>5, <2>6, <2>7, <2>8, <2>9, <2>10, <2>11, <2>12 DEF Alone
<1>2. CASE Write(w) \/ Remove(w)
  <2>1. pc[w] \notin {"idle", "respond"} /\ job' = job
    BY <1>2 DEF Write, Remove, At
  <2>2. PICK r : Reply(w, r) /\ r.status # 0
    BY <1>2 DEF Write, Remove, Status, Success
  <2>3. job[w] \in Requests
    BY <2>1 DEF Alone
  <2> QED BY <1>0, <2>1, <2>2, <2>3, ReplyIs, RespondsAlone
<1>3. CASE Respond(w)
  <2>1. pc'[w] = "idle" /\ job'[w] = NoJob /\ reply'[w] = NoReply /\ DOMAIN reply' = Workers
    BY <1>0, <1>3 DEF Respond, TypeOK, GoTo
  <2> QED BY <2>1 DEF Alone, Opening
<1> QED BY <1>1, <1>2, <1>3, RequestAlone, DecideAlone DEF StepOf

LEMMA CrashAlone ==
    ASSUME NEW w \in Workers, Crash
    PROVE  Alone(w)'
<1>1. pc'[w] = "idle" /\ job'[w] = NoJob /\ reply'[w] = NoReply /\ DOMAIN reply' = Workers
  BY DEF Crash
<1> QED BY <1>1 DEF Alone, Opening

------------------------------------------------------------------------------
(* The steps, one by one. *)

LEMMA QuietStep ==
    ASSUME NEW w, Workers = {w}, pc[w] # "write", pc'[w] # "write", files' = files
    PROVE  StoreMap' = StoreMap
<1>1. \A s : Held(s)' = Held(s)
  BY HeldIs, HeldIsNext DEF At
<1> QED BY <1>1, StoreStays

LEMMA SameRequests == Requests = Store!Requests /\ NoJob = Store!None /\ NoReply = Store!Pending
  BY DEF Requests, Targets, Slots, Store!Requests, Store!Targets, NoJob, Store!None, NoReply,
         Store!Pending

LEMMA SameReplies == \A code : Status(code) = Store!Status(code)
  BY DEF Status, Store!Status

(* The entity that a file names is known if the file is there. *)
LEMMA KnownIs ==
    ASSUME NEW w, Workers = {w}, slot[w] \in Slots, job[w].target = slot[w], pc[w] # "write"
    PROVE  /\ Store!Known(w) <=> files[slot[w]] # Absent
           /\ files[slot[w]] # Absent =>
                StoreMap[Store!Entity(w)][Store!Id(w)] = files[slot[w]]
<1> DEFINE e == slot[w][1]
           i == slot[w][2]
<1>1. e \in Entities /\ i \in Ids /\ slot[w] = <<e, i>>
  BY SlotParts
<1>2. Held(<<e, i>>) = files[slot[w]]
  BY <1>1, HeldIs DEF At
<1>3. Store!Entity(w) = e /\ Store!Id(w) = i
  BY DEF Store!Entity, Store!Id
<1>4. Store!Known(w) <=> i \in DOMAIN StoreMap[e]
  BY <1>3 DEF Store!Known, StoreMap
<1> QED BY <1>1, <1>2, <1>3, <1>4, StoreOfParts

LEMMA ArrivesSimulated ==
    ASSUME NEW w \in Workers, Workers = {w}, IInv, Alone(w), Arrives(w)
    PROVE  Store!Ask(w) \/ Store!Refused(w)
<1>0. TypeOK /\ DOMAIN reply = Workers /\ pc[w] = "idle" /\ job[w] = NoJob
      /\ files' = files /\ faults' = faults
  BY ArrivesKeeps DEF IInv, Alone, At
<1>1. ASSUME NEW r \in Requests, RequestFile(w, r) \/ RequestDir(w, r)
      PROVE  Store!Ask(w)
  <2>1. job' = [job EXCEPT ![w] = r] /\ reply' = reply
    BY <1>1 DEF RequestFile, RequestDir
  <2>2. Store!Proper(r)
    BY <1>1 DEF RequestFile, RequestDir, Store!Proper
  <2>3. GoTo(w, "exists") \/ GoTo(w, "ls")
    BY <1>1 DEF RequestFile, RequestDir
  <2>4. pc'[w] # "write"
    BY <1>0, <2>3 DEF TypeOK, GoTo
  <2>5. StoreMap' = StoreMap
    BY <1>0, <2>4, QuietStep
  <2>6. Store!Sound
    BY <1>0 DEF Store!Sound
  <2> QED BY <1>0, <2>1, <2>2, <2>5, <2>6, SameRequests DEF Store!Ask, StoreMap
<1>2. ASSUME NEW r \in Requests, RequestRefused(w, r)
      PROVE  Store!Refused(w)
  <2> DEFINE code == IF r.verb = "PATCH" THEN 501 ELSE 400
  <2>1. job' = [job EXCEPT ![w] = r] /\ Reply(w, Status(code))
    BY <1>2 DEF RequestRefused
  <2>2. ~Store!Proper(r)
    BY <1>2 DEF RequestRefused, Store!Proper
  <2>3. pc'[w] # "write"
    BY <1>0, <2>1, ReplyIs
  <2>4. StoreMap' = StoreMap
    BY <1>0, <2>3, QuietStep
  <2>5. Store!Answer(w, Store!Status(code))
    BY <2>1, SameReplies DEF Reply, Store!Answer
  <2>6. Store!Sound
    BY <1>0 DEF Store!Sound
  <2>7. r \in Store!Requests /\ job[w] = Store!None
    BY <1>0, SameRequests
  <2>8. code \in {400, 501} /\ (code = 501 <=> r.verb = "PATCH")
    OBVIOUS
  <2> HIDE DEF code
  <2>9. Store!Refuse(w, r, code)
    BY <2>1, <2>2, <2>5, <2>8 DEF Store!Refuse
  <2> QED BY <2>4, <2>6, <2>7, <2>8, <2>9 DEF Store!Refused, StoreMap
<1> QED BY <1>1, <1>2 DEF Arrives

(* A step that answers and changes no file. *)
LEMMA AnswerParts ==
    ASSUME NEW w \in Workers, Workers = {w}, TypeOK, DOMAIN reply = Workers, NEW r, Reply(w, r),
           pc[w] # "write", UNCHANGED <<files, job>>
    PROVE  Store!Answer(w, r) /\ Store!Keep
<1>1. pc'[w] # "write"
  BY ReplyIs
<1>2. StoreMap' = StoreMap
  BY <1>1, QuietStep
<1> QED BY <1>2 DEF Reply, Store!Answer, Store!Keep, StoreMap

LEMMA FaultIs ==
    ASSUME TypeOK, Fault
    PROVE  (faults > 0)' = TRUE
  BY BoundsAssumption DEF TypeOK, Fault

LEMMA ListSimulated ==
    ASSUME NEW w \in Workers, Workers = {w}, IInv, Alone(w), ListForGet(w)
    PROVE  Store!List(w) \/ Store!NoEntity(w)
<1> DEFINE e == job[w].target[1]
<1>0. /\ TypeOK /\ DOMAIN reply = Workers /\ pc[w] = "ls" /\ e \in Entities
      /\ UNCHANGED <<files, job, faults>>
  BY DEF IInv, Alone, Shape, StepShape, ListForGet, At
<1>1. Store!Open(w, "GET", 1)
  BY <1>0, SameRequests DEF ListForGet, Verb, Alone, Store!Open
<1>2. Store!Entity(w) = e
  BY DEF Store!Entity
<1>3. \A i \in Ids : Held(<<e, i>>) = files[<<e, i>>]
  BY <1>0, HeldIs DEF At
<1>4. DOMAIN StoreMap[e] = IdsOf(e)
  <2>1. PICK t \in Entities : t = e
    BY <1>0
  <2>2. StoreMap[t] = StoreOf(t) /\ DOMAIN StoreOf(t) = {j \in Ids : Held(<<t, j>>) # Absent}
    BY StoreOfParts
  <2>3. {j \in Ids : Held(<<t, j>>) # Absent} = {j \in Ids : files[<<t, j>>] # Absent}
    BY <1>3, <2>1
  <2>4. DOMAIN StoreMap[t] = IdsOf(t)
    BY <2>2, <2>3 DEF IdsOf
  <2> QED BY <2>1, <2>4
<1>5. CASE e \in dirs
  <2>1. Reply(w, [status |-> 200, list |-> IdsOf(e)])
    BY <1>5 DEF ListForGet
  <2>2. Store!Answer(w, [status |-> 200, list |-> IdsOf(e)]) /\ Store!Keep
    BY <1>0, <2>1, AnswerParts
  <2>3. Store!Sound
    BY <1>0 DEF Store!Sound
  <2> QED BY <1>1, <1>2, <1>4, <2>2, <2>3 DEF Store!List, StoreMap
<1>6. CASE e \notin dirs
  <2>1. Reply(w, Status(404))
    BY <1>6 DEF ListForGet
  <2>2. Store!Answer(w, Store!Status(404)) /\ Store!Keep
    BY <1>0, <2>1, AnswerParts, SameReplies
  <2>3. Store!Sound
    BY <1>0 DEF Store!Sound
  <2>4. IdsOf(e) = {}
    BY <1>0, <1>6 DEF TypeOK, IdsOf, Slots
  <2>5. StoreMap[e] = <<>>
    <3>1. StoreMap[e] = [i \in {} |-> Held(<<e, i>>)]
      BY <1>0, <1>3, <2>4 DEF StoreMap, StoreOf, IdsOf
    <3> QED BY <3>1
  <2> QED BY <1>1, <1>2, <2>2, <2>3, <2>5 DEF Store!NoEntity, StoreMap
<1> QED BY <1>5, <1>6

(* What the steps on a file that is looked up have in common. *)
LEMMA LookedUp ==
    ASSUME NEW w \in Workers, Workers = {w}, IInv, Alone(w),
           pc[w] \in {"exists", "read", "check", "remove"}
    PROVE  /\ slot[w] \in Slots /\ slot[w] = job[w].target
           /\ Store!Open(w, Verb(w), 2)
           /\ pc[w] \in {"exists", "read"} => Verb(w) \in {"GET", "PUT", "DELETE"}
           /\ pc[w] \in {"check", "remove"} => Verb(w) = "DELETE"
           /\ TypeOK /\ DOMAIN reply = Workers
<1>1. reply[w] = NoReply /\ Len(job[w].target) = 2 /\ slot[w] = job[w].target /\ StepShape(w)
  BY DEF IInv, Shape, Alone
<1> QED BY <1>1, SameRequests DEF IInv, Alone, StepShape, Verb, Store!Open

LEMMA ReadSimulated ==
    ASSUME NEW w \in Workers, Workers = {w}, IInv, Alone(w),
           Exists(w) \/ Read(w) \/ ReadFails(w) \/ Check(w)
    PROVE  Store!NotFound(w) \/ Store!Retrieve(w) \/ UNCHANGED Store!vars
<1>0. pc[w] \in {"exists", "read", "check"} /\ UNCHANGED <<files, job>>
  BY DEF Exists, Read, ReadFails, Check, At
<1>1. /\ slot[w] \in Slots /\ slot[w] = job[w].target /\ Store!Open(w, Verb(w), 2)
      /\ pc[w] \in {"exists", "read"} => Verb(w) \in {"GET", "PUT", "DELETE"}
      /\ TypeOK /\ DOMAIN reply = Workers
  BY <1>0, LookedUp
<1>2. /\ Store!Known(w) <=> files[slot[w]] # Absent
      /\ files[slot[w]] # Absent =>
            StoreMap[Store!Entity(w)][Store!Id(w)] = files[slot[w]]
  BY <1>0, <1>1, KnownIs
<1>3. ASSUME Reply(w, Status(404)), pc[w] \in {"exists", "read"},
             (files[slot[w]] = Absent /\ UNCHANGED faults) \/ Fault
      PROVE  Store!NotFound(w)
  <2>1. Store!Answer(w, Store!Status(404)) /\ Store!Keep
    BY <1>0, <1>1, <1>3, AnswerParts, SameReplies
  <2>2. Store!MayFail /\ (~Store!Known(w) \/ (faults > 0)')
    BY <1>1, <1>2, <1>3, FaultIs DEF Store!MayFail
  <2>3. Store!Open(w, "GET", 2) \/ Store!Open(w, "PUT", 2) \/ Store!Open(w, "DELETE", 2)
    BY <1>1, <1>3
  <2> QED BY <2>1, <2>2, <2>3 DEF Store!NotFound
<1>4. ASSUME NEW step, GoTo(w, step), step # "write", UNCHANGED <<reply, faults>>
      PROVE  UNCHANGED Store!vars
  <2>1. pc'[w] # "write"
    BY <1>1, <1>4 DEF TypeOK, GoTo
  <2>2. StoreMap' = StoreMap
    BY <1>0, <2>1, QuietStep
  <2> QED BY <1>0, <1>4, <2>2 DEF Store!vars, StoreMap
<1>5. CASE Exists(w)
  <2>1. pc[w] = "exists" /\ UNCHANGED faults
    BY <1>5 DEF Exists, At
  <2>2. \/ files[slot[w]] = Absent /\ Reply(w, Status(404))
        \/ GoTo(w, "read") /\ UNCHANGED reply
    BY <1>5 DEF Exists
  <2> QED BY <1>3, <1>4, <2>1, <2>2
<1>6. CASE Read(w)
  <2>1. pc[w] = "read" /\ UNCHANGED faults /\ files[slot[w]] # Absent
    BY <1>6 DEF Read, At, Alone
  <2>2. CASE Verb(w) = "GET" /\ Reply(w, [status |-> 200, body |-> files[slot[w]]])
    <3>1. Store!Answer(w, [status |-> 200, body |-> files[slot[w]]]) /\ Store!Keep
      BY <1>0, <1>1, <2>1, <2>2, AnswerParts
    <3>2. Store!Sound
      BY <2>1 DEF Store!Sound
    <3> QED BY <1>1, <1>2, <2>1, <2>2, <3>1, <3>2 DEF Store!Retrieve, StoreMap
  <2>3. CASE \E step \in {"open", "check"} : GoTo(w, step) /\ UNCHANGED reply
    BY <1>4, <2>1, <2>3
  <2> QED BY <1>6, <2>1, <2>2, <2>3 DEF Read
<1>7. CASE ReadFails(w)
  BY <1>3, <1>7 DEF ReadFails, At
<1>8. CASE Check(w)
  <2>1. pc[w] = "check" /\ UNCHANGED faults /\ files[slot[w]] # Absent
    BY <1>8 DEF Check, At, Alone
  <2>2. GoTo(w, "remove") /\ UNCHANGED reply
    BY <1>8, <2>1 DEF Check
  <2> QED BY <1>4, <2>1, <2>2
<1> QED BY <1>5, <1>6, <1>7, <1>8

LEMMA FailsSimulated ==
    ASSUME NEW w \in Workers, Workers = {w}, IInv, Alone(w), OpenFails(w) \/ RemoveFails(w)
    PROVE  Store!Failed(w)
<1>1. TypeOK /\ DOMAIN reply = Workers /\ pc[w] \in {"open", "remove"} /\ UNCHANGED <<files, job>>
  BY DEF IInv, Alone, OpenFails, RemoveFails, At
<1>2. ASSUME pc[w] = "open"
      PROVE  Store!Open(w, "POST", 1) \/ Store!Open(w, "PUT", 2)
  <2>1. reply[w] = NoReply /\ Verb(w) \in {"POST", "PUT"}
    BY <1>1, <1>2 DEF IInv, Shape, StepShape, Alone
  <2> QED BY <1>1, <1>2, <2>1, SameRequests DEF Alone, Opening, Verb, Store!Open
<1>3. ASSUME pc[w] = "remove"
      PROVE  Store!Open(w, "DELETE", 2)
  BY <1>3, LookedUp
<1>4. Store!Answer(w, Store!Status(500)) /\ Store!Keep
  <2>1. Reply(w, Status(500))
    BY DEF OpenFails, RemoveFails
  <2> QED BY <1>1, <2>1, AnswerParts, SameReplies
<1>5. (faults > 0)' = TRUE
  BY <1>1, FaultIs DEF OpenFails, RemoveFails
<1>6. Store!Open(w, "POST", 1) \/ Store!Open(w, "PUT", 2) \/ Store!Open(w, "DELETE", 2)
  BY <1>1, <1>2, <1>3
<1> QED BY <1>4, <1>5, <1>6 DEF Store!Failed

(* An entity stays in the store while its file is truncated and not written. *)
LEMMA OpenSimulated ==
    ASSUME NEW w \in Workers, Workers = {w}, IInv, Alone(w), Open(w) \/ ListForCreate(w)
    PROVE  UNCHANGED Store!vars
<1>0. TypeOK
  BY DEF IInv
<1>1. CASE Open(w)
  <2>1. /\ pc[w] = "open" /\ pc'[w] = "write" /\ linked'[w] /\ UNCHANGED <<job, slot, reply, faults>>
        /\ replaced'[w] = files[slot[w]]
        /\ files' = [files EXCEPT ![slot[w]] = Empty]
    BY <1>0, <1>1 DEF Open, TypeOK, At, GoTo
  <2>2. ASSUME NEW s \in Slots
        PROVE  Held(s)' = Held(s)
    <3>1. Held(s) = files[s]
      BY <2>1, HeldIs DEF At
    <3>2. CASE slot[w] = s
      BY <2>1, <3>1, <3>2, HeldIsNext
    <3>3. CASE slot[w] # s
      <4>1. files'[s] = files[s]
        BY <1>0, <2>1, <3>3 DEF TypeOK
      <4> QED BY <2>1, <3>1, <3>3, <4>1, HeldIsNext
    <3> QED BY <3>2, <3>3
  <2>3. StoreMap' = StoreMap
    BY <2>2, StoreStays
  <2> QED BY <2>1, <2>3 DEF Store!vars, StoreMap
<1>2. CASE ListForCreate(w)
  <2>1. pc[w] # "write" /\ pc'[w] # "write" /\ UNCHANGED <<files, job, reply, faults>>
    BY <1>0, <1>2 DEF ListForCreate, TypeOK, At, GoTo
  <2>2. StoreMap' = StoreMap
    BY <2>1, QuietStep
  <2> QED BY <2>1, <2>2 DEF Store!vars, StoreMap
<1> QED BY <1>1, <1>2

(* What a writer is about to do: its entity is there if the request is PUT, and
   new and last of all if it is POST. *)
LEMMA WriterKnows ==
    ASSUME NEW w \in Workers, Workers = {w}, IInv, Alone(w), pc[w] = "write"
    PROVE  /\ slot[w] \in Slots /\ slot[w][1] = Store!Entity(w) /\ reply[w] = NoReply
           /\ linked[w] /\ files[slot[w]] = Empty
           /\ \A s \in Slots \ {slot[w]} : Held(s) = files[s]
           /\ \/ /\ Verb(w) = "POST" /\ Store!Open(w, "POST", 1)
                 /\ \A j \in DOMAIN StoreMap[slot[w][1]] : j < slot[w][2]
              \/ /\ Verb(w) = "PUT" /\ Store!Open(w, "PUT", 2)
                 /\ slot[w][2] = Store!Id(w) /\ Store!Known(w)
<1> DEFINE e == slot[w][1]
           i == slot[w][2]
<1>1. /\ slot[w] \in Slots /\ reply[w] = NoReply /\ Verb(w) \in {"POST", "PUT"}
      /\ linked[w] /\ files[slot[w]] = Empty /\ Opening(w)
  BY DEF IInv, Shape, StepShape, Alone, Opening
<1>2. e \in Entities /\ i \in Ids /\ slot[w] = <<e, i>>
  BY <1>1, SlotParts
<1>3. Held(slot[w]) = replaced[w] /\ \A s \in Slots \ {slot[w]} : Held(s) = files[s]
  BY <1>1, HeldIs DEF At
<1>4. e = Store!Entity(w)
  BY <1>1 DEF Alone, Verb, Store!Entity
<1>5. ASSUME Verb(w) = "POST"
      PROVE  Store!Open(w, "POST", 1) /\ \A j \in DOMAIN StoreMap[e] : j < i
  <2>1. Store!Open(w, "POST", 1)
    BY <1>1, <1>5, SameRequests DEF Alone, Verb, Store!Open
  <2>2. replaced[w] = Absent /\ \A j \in IdsOf(e) : j <= i
    BY <1>5 DEF Alone
  <2>3. ASSUME NEW j \in DOMAIN StoreMap[e]
        PROVE  j < i
    <3>1. j \in Ids /\ Held(<<e, j>>) # Absent
      BY <1>2, <2>3, StoreOfParts
    <3>2. j # i
      BY <1>2, <1>3, <2>2, <3>1
    <3>3. <<e, j>> \in Slots \ {slot[w]}
      BY <1>2, <3>1, <3>2 DEF Slots
    <3>4. j \in IdsOf(e)
      BY <1>3, <3>1, <3>3 DEF IdsOf
    <3> QED BY <1>2, <2>2, <3>1, <3>2, <3>4, BoundsAssumption DEF Ids
  <2> QED BY <2>1, <2>3
<1>6. ASSUME Verb(w) = "PUT"
      PROVE  Store!Open(w, "PUT", 2) /\ i = Store!Id(w) /\ Store!Known(w)
  <2>1. Store!Open(w, "PUT", 2) /\ slot[w] = job[w].target
    BY <1>1, <1>6, SameRequests DEF Alone, Verb, Store!Open
  <2>2. i = Store!Id(w)
    BY <2>1 DEF Store!Id
  <2>3. replaced[w] # Absent
    BY <1>6 DEF Alone
  <2>4. i \in DOMAIN StoreMap[e]
    BY <1>2, <1>3, <2>3, StoreOfParts
  <2> QED BY <1>4, <2>1, <2>2, <2>4 DEF Store!Known, StoreMap
<1> QED BY <1>1, <1>3, <1>4, <1>5, <1>6

LEMMA WriteSimulated ==
    ASSUME NEW w \in Workers, Workers = {w}, IInv, Alone(w), Write(w) \/ WriteFails(w)
    PROVE  Store!Create(w) \/ Store!Update(w)
<1> DEFINE e == slot[w][1]
           i == slot[w][2]
<1>1. /\ TypeOK /\ DOMAIN reply = Workers /\ pc[w] = "write" /\ Reply(w, Success(w))
      /\ UNCHANGED job
  BY DEF IInv, Alone, Write, WriteFails, At
<1>2. /\ slot[w] \in Slots /\ e = Store!Entity(w)
      /\ linked[w] /\ files[slot[w]] = Empty
      /\ \A s \in Slots \ {slot[w]} : Held(s) = files[s]
      /\ \/ /\ Verb(w) = "POST" /\ Store!Open(w, "POST", 1)
            /\ \A j \in DOMAIN StoreMap[e] : j < i
         \/ /\ Verb(w) = "PUT" /\ Store!Open(w, "PUT", 2)
            /\ i = Store!Id(w) /\ Store!Known(w)
  BY <1>1, WriterKnows
<1>3. PICK b : /\ files' = [files EXCEPT ![slot[w]] = b]
               /\ b # Absent /\ b \in Store!Landed(w) /\ Store!MayFail
  <2>1. CASE Write(w)
    <3>1. Written(w) = {job[w].body} /\ job[w].body \in Bodies
      <4>1. job[w].body \in Bodies
        BY <1>1, WriterFields DEF IInv, Opening
      <4>2. linked[w] /\ files[slot[w]] \in {Empty, job[w].body}
        BY <1>2
      <4> QED BY <4>1, <4>2 DEF Written
    <3>2. job[w].body # Absent /\ job[w].body \in Store!Landed(w)
      BY <3>1, ContentsAssumption DEF Store!Landed
    <3>3. Store!MayFail
      BY <2>1 DEF Write, Store!MayFail
    <3> QED BY <2>1, <3>1, <3>2, <3>3 DEF Write
  <2>2. CASE WriteFails(w)
    <3>1. (faults > 0)' = TRUE /\ files' = files
      BY <1>1, <2>2, FaultIs DEF WriteFails
    <3>2. files' = [files EXCEPT ![slot[w]] = Empty]
      <4>1. files \in [Slots -> Contents]
        BY <1>1 DEF TypeOK
      <4>2. files = [files EXCEPT ![slot[w]] = files[slot[w]]]
        BY <4>1
      <4> QED BY <1>2, <3>1, <4>2
    <3>3. Empty \in Store!Landed(w) /\ Store!MayFail
      BY <3>1 DEF Store!Landed, Store!MayFail
    <3> QED BY <3>2, <3>3, ContentsDiffer
  <2> QED BY <2>1, <2>2
<1>4. pc'[w] # "write" /\ reply' = [reply EXCEPT ![w] = Success(w)]
  BY <1>1, ReplyIs DEF Reply
<1>5. StoreMap' = [StoreMap EXCEPT ![e] = Store!With(@, i, b)]
  <2>0. PICK t \in Slots : t = slot[w]
    BY <1>2
  <2>1. Held(t)' = b
    <3>1. files'[t] = b
      BY <1>1, <1>3, <2>0 DEF TypeOK
    <3> QED BY <1>4, <3>1, HeldIsNext
  <2>2. ASSUME NEW s \in Slots \ {t}
        PROVE  Held(s)' = Held(s)
    <3>1. files'[s] = files[s]
      BY <1>1, <1>3, <2>0 DEF TypeOK
    <3> QED BY <1>2, <1>4, <2>0, <3>1, HeldIsNext
  <2>3. StoreMap' = [StoreMap EXCEPT ![t[1]] = Store!With(@, t[2], b)]
    BY <1>3, <2>1, <2>2, StorePut
  <2> QED BY <2>0, <2>3
<1>6. i \in Ids
  BY <1>2, SlotParts
<1>7. CASE Verb(w) = "POST"
  <2>1. Store!Answer(w, Store!Created(i))
    BY <1>4, <1>7 DEF Success, Store!Answer, Store!Created
  <2>2. Store!CreateAs(w, i, b)
    BY <1>2, <1>5, <1>7, <2>1 DEF Store!CreateAs, StoreMap
  <2> QED BY <1>1, <1>2, <1>3, <1>6, <1>7, <2>2 DEF Store!Create
<1>8. CASE Verb(w) = "PUT"
  <2>1. Store!Answer(w, Store!Status(200))
    BY <1>4, <1>8, SameReplies DEF Success, Store!Answer
  <2> QED BY <1>1, <1>2, <1>3, <1>5, <1>8, <2>1 DEF Store!Update, StoreMap
<1> QED BY <1>2, <1>7, <1>8

LEMMA RemoveSimulated ==
    ASSUME NEW w \in Workers, Workers = {w}, IInv, Alone(w), Remove(w)
    PROVE  Store!Delete(w)
<1>0. pc[w] = "remove" /\ files' = [files EXCEPT ![slot[w]] = Absent] /\ UNCHANGED <<job, faults>>
      /\ Reply(w, Status(204))
  BY DEF Remove, At
<1>1. /\ slot[w] \in Slots /\ slot[w] = job[w].target /\ Store!Open(w, "DELETE", 2)
      /\ TypeOK /\ DOMAIN reply = Workers
  BY <1>0, LookedUp
<1>2. Store!Known(w)
  BY <1>0, <1>1, KnownIs DEF Alone
<1>3. pc'[w] # "write" /\ Store!Answer(w, Store!Status(204))
  BY <1>0, <1>1, ReplyIs, SameReplies DEF Reply, Store!Answer
<1>4. Store!Entity(w) = slot[w][1] /\ Store!Id(w) = slot[w][2]
  BY <1>1 DEF Store!Entity, Store!Id
<1>5. StoreMap' = [StoreMap EXCEPT ![slot[w][1]] = Store!Without(@, slot[w][2])]
  <2>0. PICK t \in Slots : t = slot[w]
    BY <1>1
  <2>1. Held(t)' = Absent
    <3>1. files'[t] = Absent
      BY <1>0, <1>1, <2>0 DEF TypeOK
    <3> QED BY <1>3, <3>1, HeldIsNext
  <2>2. ASSUME NEW s \in Slots \ {t}
        PROVE  Held(s)' = Held(s)
    <3>1. files'[s] = files[s]
      BY <1>0, <1>1, <2>0 DEF TypeOK
    <3> QED BY <1>0, <1>3, <3>1, HeldIs, HeldIsNext DEF At
  <2>3. StoreMap' = [StoreMap EXCEPT ![t[1]] = Store!Without(@, t[2])]
    BY <2>1, <2>2, StoreDrop
  <2> QED BY <2>0, <2>3
<1>6. Store!Sound
  BY <1>0 DEF Store!Sound
<1> QED BY <1>0, <1>1, <1>2, <1>3, <1>4, <1>5, <1>6 DEF Store!Delete, StoreMap

LEMMA RespondSimulated ==
    ASSUME NEW w \in Workers, Workers = {w}, IInv, Alone(w), Respond(w)
    PROVE  Store!Done(w)
<1>1. TypeOK /\ pc[w] = "respond" /\ reply[w] # NoReply /\ UNCHANGED <<files, faults>>
  BY DEF IInv, Alone, Respond, At, NoReply
<1>2. pc'[w] # "write"
  BY <1>1 DEF Respond, TypeOK, GoTo
<1>3. StoreMap' = StoreMap
  BY <1>1, <1>2, QuietStep
<1>4. Store!Sound
  BY <1>1 DEF Store!Sound
<1> QED BY <1>1, <1>3, <1>4, SameRequests DEF Store!Done, Respond, StoreMap

(* A crash spoils at most the entity that was being written. *)
LEMMA CrashSimulated ==
    ASSUME NEW w \in Workers, Workers = {w}, IInv, Alone(w), Crash
    PROVE  Store!Restart
<1>1. /\ pc'[w] = "idle" /\ UNCHANGED <<files, faults>>
      /\ job' = [v \in Workers |-> NoJob] /\ reply' = [v \in Workers |-> NoReply]
  BY DEF Crash
<1>2. Store!Sound
  BY <1>1 DEF Store!Sound
<1>3. CASE pc[w] # "write"
  <2>1. StoreMap' = StoreMap
    BY <1>1, <1>3, QuietStep
  <2> QED BY <1>1, <1>2, <2>1, SameRequests DEF Store!Restart, StoreMap
<1>4. CASE pc[w] = "write"
  <2> DEFINE i == slot[w][2]
  <2>1. /\ slot[w] \in Slots /\ slot[w][1] = Store!Entity(w) /\ files[slot[w]] = Empty
        /\ \A s \in Slots \ {slot[w]} : Held(s) = files[s]
        /\ \/ /\ Store!Open(w, "POST", 1)
              /\ \A j \in DOMAIN StoreMap[Store!Entity(w)] : j < i
           \/ Store!Open(w, "PUT", 2) /\ i = Store!Id(w) /\ Store!Known(w)
    BY <1>4, WriterKnows
  <2>0. PICK t \in Slots : t = slot[w]
    BY <2>1
  <2>2. Held(t)' = Empty
    BY <1>1, <2>0, <2>1, HeldIsNext
  <2>3. \A s \in Slots \ {t} : Held(s)' = Held(s)
    BY <1>1, <2>0, <2>1, HeldIsNext
  <2>4. StoreMap' = [StoreMap EXCEPT ![Store!Entity(w)] = Store!With(@, i, Empty)]
    <3>1. StoreMap' = [StoreMap EXCEPT ![t[1]] = Store!With(@, t[2], Empty)]
      BY <2>2, <2>3, StorePut, ContentsDiffer
    <3> QED BY <2>0, <2>1, <3>1
  <2>5. Store!Spoils(w, i)
    BY <2>1, <2>4 DEF Store!Spoils, StoreMap
  <2>6. i \in Ids
    BY <2>1, SlotParts
  <2> QED BY <1>1, <1>2, <2>5, <2>6, SameRequests DEF Store!Restart
<1> QED BY <1>3, <1>4

------------------------------------------------------------------------------
LEMMA InitSimulated ==
    ASSUME NEW w, Workers = {w}, Init
    PROVE  Alone(w) /\ Store!Init
<1>1. /\ pc[w] = "idle" /\ job = [v \in Workers |-> NoJob] /\ reply = [v \in Workers |-> NoReply]
      /\ faults = 0 /\ \A s \in Slots : files[s] = Absent
  BY DEF Init
<1>2. Alone(w)
  BY <1>1 DEF Alone, Opening
<1>3. ASSUME NEW e \in Entities
      PROVE  StoreOf(e) = <<>>
  <2>1. \A i \in Ids : Held(<<e, i>>) = Absent
    BY <1>1, HeldIs DEF At, Slots
  <2>2. {i \in Ids : Held(<<e, i>>) # Absent} = {}
    BY <2>1
  <2>3. StoreOf(e) = [i \in {} |-> Held(<<e, i>>)]
    BY <2>2 DEF StoreOf
  <2> QED BY <2>3
<1>4. [e \in Entities |-> StoreOf(e)] = [e \in Entities |-> <<>>]
  BY <1>3
<1>5. (faults > 0) = FALSE
  BY <1>1
<1> QED BY <1>1, <1>2, <1>4, <1>5, SameRequests DEF Store!Init

LEMMA NextSimulated ==
    ASSUME NEW w, Workers = {w}, IInv, Alone(w), [Next]_vars
    PROVE  Alone(w)' /\ [Store!Next]_Store!vars
<1>0. w \in Workers
  OBVIOUS
<1>1. CASE StepOf(w)
  <2>1. Alone(w)'
    BY <1>0, <1>1, StepAlone
  <2>2. \/ Store!Ask(w) \/ Store!Create(w) \/ Store!Update(w) \/ Store!Delete(w)
        \/ Store!Retrieve(w) \/ Store!List(w) \/ Store!NotFound(w) \/ Store!NoEntity(w)
        \/ Store!Failed(w) \/ Store!Refused(w) \/ Store!Done(w) \/ UNCHANGED Store!vars
    BY <1>0, <1>1, ArrivesSimulated, ListSimulated, ReadSimulated, FailsSimulated, OpenSimulated,
       WriteSimulated, RemoveSimulated, RespondSimulated DEF StepOf, Decides
  <2> QED BY <1>0, <2>1, <2>2 DEF Store!Next
<1>2. CASE Crash
  BY <1>0, <1>2, CrashAlone, CrashSimulated DEF Store!Next
<1>3. CASE UNCHANGED vars
  <2>1. Alone(w)'
    BY <1>3 DEF vars, Alone, Opening, Verb, IdsOf
  <2>2. \A s : Held(s)' = Held(s)
    BY <1>3, HeldIs, HeldIsNext DEF vars, At
  <2>3. StoreMap' = StoreMap
    BY <2>2, StoreStays
  <2> QED BY <1>3, <2>1, <2>3 DEF vars, Store!vars, StoreMap
<1> QED BY <1>1, <1>2, <1>3, NextIsSteps

(* With one worker thread, the server's default, CRUDApiHandler's sequences of
   file system calls are the atomic operations of EntityStore, crashes between
   two of the calls and failing reads, writes and deletes included: every step
   of CrudApi is a step of EntityStore or leaves it as it is. *)
THEOREM SpecImplementsEntityStore ==
    ASSUME NEW w, Workers = {w}
    PROVE  Spec => ImplementsEntityStore
<1>1. Init => Alone(w) /\ Store!Init
  BY InitSimulated
<1>2. IInv /\ Alone(w) /\ [Next]_vars => Alone(w)' /\ [Store!Next]_Store!vars
  BY NextSimulated
<1> QED BY <1>1, <1>2, SpecIInv, PTL DEF Spec, ImplementsEntityStore, Store!Spec
==============================================================================
