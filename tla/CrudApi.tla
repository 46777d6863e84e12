------------------------------- MODULE CrudApi -------------------------------
(***************************************************************************)
(* CRUDApiHandler and BoostFileSystemIO under the server's worker threads. *)
(* An entity's data is one file data_path/entity/id.  The handlers hold no *)
(* lock: every step below is one call of the file system, and the steps of *)
(* different requests interleave.  Files outlive the process.              *)
(*                                                                         *)
(* A writer has the file open between Open (which truncates it) and Write; *)
(* when the file is removed meanwhile, its bytes go to the removed file.   *)
(***************************************************************************)
EXTENDS Integers, Sequences, FiniteSets, FiniteSetsExt

CONSTANTS
    Workers,        \* threads that run io_service::run
    Entities,       \* directories below data_path
    Bodies,         \* request bodies, none empty
    MaxCreates,     \* bound: POST requests, hence identifiers
    MaxCrashes,     \* bound: crashes of the process
    MaxFaults,      \* bound: failing calls of the file system
    Absent, Empty, Mixed   \* no file; a file of no bytes; pieces of two bodies

ASSUME ContentsAssumption ==
    /\ Cardinality({Absent, Empty, Mixed}) = 3
    /\ {Absent, Empty, Mixed} \cap Bodies = {}
ASSUME BoundsAssumption == MaxCreates \in Nat /\ MaxCrashes \in Nat /\ MaxFaults \in Nat

VARIABLES
    files,      \* content of every file, Absent where there is none
    dirs,       \* which entity directories exist
    pc,         \* the next step of every worker's request
    job,        \* the request a worker handles
    slot,       \* the file it works on
    reply,      \* the response it has prepared
    linked,     \* the file it opened is still the one under that name
    replaced,   \* ghost: what the file it opened held before
    older,      \* ghost: files that have existed since its request came
    creates, crashes, faults

vars == <<files, dirs, pc, job, slot, reply, linked, replaced, older,
          creates, crashes, faults>>

Ids == 1 .. MaxCreates
Slots == Entities \X Ids
NoSlot == <<>>
NoJob == [verb |-> "none"]
NoReply == [status |-> 0]

(* The target of a request below the handler's location, cut into tokens by
   util::parseURL: too short, an entity, or an entity and an identifier. *)
Targets == {<<>>} \cup {<<e>> : e \in Entities} \cup Slots
Requests == [verb : {"GET", "DELETE", "PATCH"}, target : Targets]
            \cup [verb : {"POST", "PUT"}, target : Targets, body : Bodies]

Contents == Bodies \cup {Absent, Empty, Mixed}
Steps == {"idle", "ls", "exists", "read", "open", "write", "check", "remove",
          "respond"}

TypeOK ==
    /\ files \in [Slots -> Contents]
    /\ dirs \subseteq Entities
    /\ \A s \in Slots : files[s] # Absent => s[1] \in dirs
    /\ pc \in [Workers -> Steps]
    /\ job \in [Workers -> Requests \cup {NoJob}]
    /\ slot \in [Workers -> Slots \cup {NoSlot}]
    /\ linked \in [Workers -> BOOLEAN]
    /\ replaced \in [Workers -> Contents]
    /\ older \in [Workers -> SUBSET Slots]
    /\ creates \in 0 .. MaxCreates
    /\ crashes \in 0 .. MaxCrashes
    /\ faults \in 0 .. MaxFaults

Init ==
    /\ files = [s \in Slots |-> Absent]
    /\ dirs = {}
    /\ pc = [w \in Workers |-> "idle"]
    /\ job = [w \in Workers |-> NoJob]
    /\ slot = [w \in Workers |-> NoSlot]
    /\ reply = [w \in Workers |-> NoReply]
    /\ linked = [w \in Workers |-> FALSE]
    /\ replaced = [w \in Workers |-> Absent]
    /\ older = [w \in Workers |-> {}]
    /\ creates = 0 /\ crashes = 0 /\ faults = 0

------------------------------------------------------------------------------
(* Helpers of the steps. *)

At(w, step) == pc[w] = step
GoTo(w, step) == pc' = [pc EXCEPT ![w] = step]
Verb(w) == job[w].verb
Stored == {s \in Slots : files[s] # Absent}
IdsOf(e) == {i \in Ids : files[<<e, i>>] # Absent}

Reply(w, r) ==
    /\ GoTo(w, "respond")
    /\ reply' = [reply EXCEPT ![w] = r]

Status(code) == [status |-> code]

Fault ==
    /\ faults < MaxFaults
    /\ faults' = faults + 1

(* Slip: the identifier follows the number of files, not the largest. *)
CountId(ids) == Cardinality(ids) + 1

(* Slip: max_id is incremented in the loop and once more after it. *)
SkipId(ids) == 2 + Max(ids \cup {0})

(* IDs start at 1; the next one follows the largest in the directory. *)
NextId(ids) == 1 + Max(ids \cup {0})

------------------------------------------------------------------------------
(* handle_request, with the validation each handler begins with. *)

Idle(w) == At(w, "idle") /\ UNCHANGED <<files, dirs, linked, replaced, crashes, faults>>

(* GET of an entity file, PUT and DELETE of one: look the file up first. *)
RequestFile(w, r) ==
    /\ Idle(w)
    /\ r.verb \in {"GET", "PUT", "DELETE"} /\ Len(r.target) = 2
    /\ job' = [job EXCEPT ![w] = r]
    /\ slot' = [slot EXCEPT ![w] = r.target]
    /\ older' = [older EXCEPT ![w] = Stored]
    /\ GoTo(w, "exists")
    /\ UNCHANGED <<reply, creates>>

(* POST to an entity and GET of one: list the directory first. *)
RequestDir(w, r) ==
    /\ Idle(w)
    /\ r.verb \in {"GET", "POST"} /\ Len(r.target) = 1
    /\ IF r.verb = "POST"
       THEN creates < MaxCreates /\ creates' = creates + 1
       ELSE UNCHANGED creates
    /\ job' = [job EXCEPT ![w] = r]
    /\ older' = [older EXCEPT ![w] = Stored]
    /\ GoTo(w, "ls")
    /\ UNCHANGED <<slot, reply>>

(* Any other shape is refused without touching a file: 400, or 501 for a verb
   that is not of CRUD. *)
RequestRefused(w, r) ==
    /\ Idle(w)
    /\ \/ r.verb = "GET" /\ Len(r.target) = 0
       \/ r.verb = "POST" /\ Len(r.target) # 1
       \/ r.verb \in {"PUT", "DELETE"} /\ Len(r.target) # 2
       \/ r.verb = "PATCH"
    /\ job' = [job EXCEPT ![w] = r]
    /\ Reply(w, Status(IF r.verb = "PATCH" THEN 501 ELSE 400))
    /\ UNCHANGED <<slot, older, creates>>

------------------------------------------------------------------------------
(* The steps. *)

(* handle_create_request: ls, then the identifier after the largest found. *)
ListForCreate(w) ==
    /\ At(w, "ls") /\ Verb(w) = "POST"
    /\ LET e == job[w].target[1]
       IN  slot' = [slot EXCEPT ![w] = <<e, NextId(IdsOf(e))>>]
    /\ GoTo(w, "open")
    /\ UNCHANGED <<files, dirs, job, reply, linked, replaced, older, creates,
                   crashes, faults>>

(* handle_list_request: the names, or 404 when there is no directory. *)
ListForGet(w) ==
    /\ At(w, "ls") /\ Verb(w) = "GET"
    /\ LET e == job[w].target[1]
       IN  Reply(w, IF e \in dirs THEN [status |-> 200, list |-> IdsOf(e)]
                    ELSE Status(404))
    /\ UNCHANGED <<files, dirs, job, slot, linked, replaced, older, creates,
                   crashes, faults>>

(* read_file: if (!exists(file_path)) return nullopt *)
Exists(w) ==
    /\ At(w, "exists")
    /\ IF files[slot[w]] = Absent
       THEN Reply(w, Status(404))
       ELSE GoTo(w, "read") /\ UNCHANGED reply
    /\ UNCHANGED <<files, dirs, job, slot, linked, replaced, older, creates,
                   crashes, faults>>

(* read_file opens and reads: the answer of GET, the found object of PUT and
   DELETE (FileExists); 404 when the file went away after exists. *)
Read(w) ==
    /\ At(w, "read")
    /\ IF files[slot[w]] = Absent
       THEN Reply(w, Status(404))
       ELSE \/ Verb(w) = "GET" /\ Reply(w, [status |-> 200, body |-> files[slot[w]]])
            \/ Verb(w) = "PUT" /\ GoTo(w, "open") /\ UNCHANGED reply
            \/ Verb(w) = "DELETE" /\ GoTo(w, "check") /\ UNCHANGED reply
    /\ UNCHANGED <<files, dirs, job, slot, linked, replaced, older, creates,
                   crashes, faults>>

(* The stream does not open: the handler takes the entity for missing. *)
ReadFails(w) ==
    /\ At(w, "read")
    /\ Fault
    /\ Reply(w, Status(404))
    /\ UNCHANGED <<files, dirs, job, slot, linked, replaced, older, creates, crashes>>

(* write_file: create_directories, then open with trunc, which creates the
   file or empties the one that is there. *)
Open(w) ==
    /\ At(w, "open")
    /\ dirs' = dirs \cup {slot[w][1]}
    /\ replaced' = [replaced EXCEPT ![w] = files[slot[w]]]
    /\ files' = [files EXCEPT ![slot[w]] = Empty]
    /\ linked' = [linked EXCEPT ![w] = TRUE]
    /\ GoTo(w, "write")
    /\ UNCHANGED <<job, slot, reply, older, creates, crashes, faults>>

(* create_directories throws, or the stream does not open: 500. *)
OpenFails(w) ==
    /\ At(w, "open")
    /\ Fault
    /\ dirs' \in {dirs, dirs \cup {slot[w][1]}}
    /\ Reply(w, Status(500))
    /\ UNCHANGED <<files, job, slot, linked, replaced, older, creates, crashes>>

(* What one write of a body at the start of the file leaves there: the body,
   and the tail of what another writer put there since this one truncated. *)
Written(w) ==
    IF ~linked[w] THEN {files[slot[w]]}
    ELSE {job[w].body}
         \cup (IF files[slot[w]] \in {Empty, job[w].body} THEN {} ELSE {Mixed})

Success(w) ==
    IF Verb(w) = "POST" THEN [status |-> 200, id |-> slot[w][2]] ELSE Status(200)

(* Slip: write_file opens the file, and returns true. *)
WriteForgotten(w) ==
    /\ At(w, "write")
    /\ Reply(w, Success(w))
    /\ UNCHANGED <<files, dirs, job, slot, linked, replaced, older, creates,
                   crashes, faults>>

(* The bytes reach the file on close. *)
Write(w) ==
    /\ At(w, "write")
    /\ \E content \in Written(w) : files' = [files EXCEPT ![slot[w]] = content]
    /\ Reply(w, Success(w))
    /\ UNCHANGED <<dirs, job, slot, linked, replaced, older, creates, crashes, faults>>

(* They do not; write_file does not look and returns true. *)
WriteFails(w) ==
    /\ At(w, "write")
    /\ Fault
    /\ Reply(w, Success(w))
    /\ UNCHANGED <<files, dirs, job, slot, linked, replaced, older, creates, crashes>>

(* delete_file: if (!fs::exists(path)) return false, a 500 *)
Check(w) ==
    /\ At(w, "check")
    /\ IF files[slot[w]] = Absent
       THEN Reply(w, Status(500))
       ELSE GoTo(w, "remove") /\ UNCHANGED reply
    /\ UNCHANGED <<files, dirs, job, slot, linked, replaced, older, creates,
                   crashes, faults>>

(* fs::remove; whether it removed anything is not asked. *)
Remove(w) ==
    /\ At(w, "remove")
    /\ files' = [files EXCEPT ![slot[w]] = Absent]
    /\ linked' = [v \in Workers |-> linked[v] /\ slot[v] # slot[w]]
    /\ older' = [v \in Workers |-> older[v] \ {slot[w]}]
    /\ Reply(w, Status(204))
    /\ UNCHANGED <<dirs, job, slot, replaced, creates, crashes, faults>>

(* It throws, which delete_file catches: a 500, and the file is still there. *)
RemoveFails(w) ==
    /\ At(w, "remove")
    /\ Fault
    /\ Reply(w, Status(500))
    /\ UNCHANGED <<files, dirs, job, slot, linked, replaced, older, creates, crashes>>

(* The session writes the response; the worker is free. *)
Respond(w) ==
    /\ At(w, "respond")
    /\ GoTo(w, "idle")
    /\ job' = [job EXCEPT ![w] = NoJob]
    /\ slot' = [slot EXCEPT ![w] = NoSlot]
    /\ reply' = [reply EXCEPT ![w] = NoReply]
    /\ linked' = [linked EXCEPT ![w] = FALSE]
    /\ replaced' = [replaced EXCEPT ![w] = Absent]
    /\ older' = [older EXCEPT ![w] = {}]
    /\ UNCHANGED <<files, dirs, creates, crashes, faults>>

(* The process dies and starts again; open files keep what they hold. *)
Crash ==
    /\ crashes < MaxCrashes
    /\ crashes' = crashes + 1
    /\ pc' = [w \in Workers |-> "idle"]
    /\ job' = [w \in Workers |-> NoJob]
    /\ slot' = [w \in Workers |-> NoSlot]
    /\ reply' = [w \in Workers |-> NoReply]
    /\ linked' = [w \in Workers |-> FALSE]
    /\ replaced' = [w \in Workers |-> Absent]
    /\ older' = [w \in Workers |-> {}]
    /\ UNCHANGED <<files, dirs, creates, faults>>

Next ==
    \/ \E w \in Workers :
        \/ \E r \in Requests :
            RequestFile(w, r) \/ RequestDir(w, r) \/ RequestRefused(w, r)
        \/ ListForCreate(w) \/ ListForGet(w) \/ Exists(w) \/ Read(w) \/ ReadFails(w)
        \/ Open(w) \/ OpenFails(w) \/ Write(w) \/ WriteFails(w)
        \/ Check(w) \/ Remove(w) \/ RemoveFails(w) \/ Respond(w)
    \/ Crash

Spec == Init /\ [][Next]_vars

------------------------------------------------------------------------------
(* Safety. *)

(* w opens the file of slot s in this step. *)
Opens(w, s) == At(w, "open") /\ pc'[w] = "write" /\ slot[w] = s

(* A create is going to write where no entity has been since before its
   request came: however the calls interleave, POST never overwrites an entity
   whose creation was answered first and that was not deleted. *)
CreateSparesOlder ==
    \A w \in Workers :
        Verb(w) = "POST" /\ pc[w] \in {"open", "write"} => slot[w] \notin older[w]

(* "Finds next available ID" (crud_api_handler.h): a create opens a file that
   was not there. *)
CreateTakesFreeId ==
    [][\A w \in Workers, s \in Slots :
            Opens(w, s) /\ Verb(w) = "POST" => files[s] = Absent]_vars

(* An entity is empty only under an open writer, unless a crash or a fault cut
   a write short: truncations and late writes of overlapping requests never
   leave an empty entity behind. *)
EmptyOnlyUnderWriter ==
    crashes = 0 /\ faults = 0 =>
        \A s \in Slots : files[s] = Empty =>
            \E w \in Workers : At(w, "write") /\ slot[w] = s /\ linked[w]
==============================================================================
