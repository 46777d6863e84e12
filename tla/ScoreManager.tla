---------------------------- MODULE ScoreManager -----------------------------
(***************************************************************************)
(* DefaultScoreManager under the server's worker threads: new_score and    *)
(* get_ranking take ranking_lock_, read the ranking file, and new_score    *)
(* writes it back.  Each step below is one call on the file or the lock;   *)
(* the threads interleave between steps.  The file outlives the process:   *)
(* Crash loses every thread and lock, and the server starts again.         *)
(*                                                                         *)
(* Managers are the DefaultScoreManager objects, one for every configured  *)
(* score location; all of them name the same storage file here.            *)
(***************************************************************************)
EXTENDS Ranking

CONSTANTS
    Workers,        \* threads that run io_service::run
    Managers,       \* DefaultScoreManager objects on the one ranking file
    Usernames,      \* Score::username
    ScoreValues,    \* Score::score
    Sizes,          \* ranking_size_ a configuration may give a manager
    MaxAccepted,    \* bound: scores registered or being registered
    MaxCrashes,     \* bound: crashes of the process
    MaxFaults,      \* bound: failing calls of the file system
    None            \* nobody holds the lock

ASSUME WorkersAssumption == None \notin Workers
ASSUME ValuesAssumption == ScoreValues \subseteq Int
ASSUME SizesAssumption == Sizes \subseteq Nat
ASSUME BoundsAssumption ==
    MaxAccepted \in Nat /\ MaxCrashes \in Nat /\ MaxFaults \in Nat

VARIABLES
    file,       \* ranking_file_: absent, torn (no valid document) or a document;
                \* a torn file's ranking is the one it last held, lost to the code
    owner,      \* ranking_lock_ of every manager
    pc,         \* the next step of every worker's call
    job,        \* the call a worker runs
    seen,       \* the call's local vector `ranking`
    reply,      \* what the call is about to return
    size,       \* ranking_size_ of every manager
    accepted,   \* history: the scores stored, or found too low, in that order
    crashes,
    faults

vars == <<file, owner, pc, job, seen, reply, size, accepted, crashes, faults>>

Scores == ScoreRecord(Usernames, ScoreValues)

Absent == [state |-> "absent", ranking |-> <<>>]
Torn(r) == [state |-> "torn", ranking |-> r]
Document(r) == [state |-> "doc", ranking |-> r]

Steps == {"idle", "lock", "exists", "read", "recheck", "init_open",
          "init_write", "rank", "open", "write", "unlock"}

(* The steps of a call while its lock_guard lives. *)
Locked == Steps \ {"idle", "lock"}

(* The steps of new_score alone. *)
Storing == {"rank", "open", "write"}

Calls == [op : {"new_score"}, manager : Managers, score : Scores]
         \cup [op : {"get_ranking"}, manager : Managers]
NoCall == [op |-> "none"]

TypeOK ==
    /\ file \in [state : {"absent", "torn", "doc"}, ranking : Seq(Scores)]
    /\ owner \in [Managers -> Workers \cup {None}]
    /\ pc \in [Workers -> Steps]
    /\ job \in [Workers -> Calls \cup {NoCall}]
    /\ \A w \in Workers : job[w] = NoCall <=> pc[w] = "idle"
    /\ \A w \in Workers : pc[w] \in Storing => job[w].op = "new_score"
    /\ seen \in [Workers -> Seq(Scores)]
    /\ reply \in [Workers -> {"none", "ok", "failed"}]
    /\ size \in [Managers -> Sizes]
    /\ accepted \in Seq(Scores)
    /\ crashes \in 0 .. MaxCrashes
    /\ faults \in 0 .. MaxFaults

(* No thread runs a call. *)
NoThreads ==
    /\ owner = [m \in Managers |-> None]
    /\ pc = [w \in Workers |-> "idle"]
    /\ job = [w \in Workers |-> NoCall]
    /\ seen = [w \in Workers |-> <<>>]
    /\ reply = [w \in Workers |-> "none"]

Init ==
    /\ file = Absent
    /\ NoThreads
    /\ size \in [Managers -> Sizes]
    /\ accepted = <<>>
    /\ crashes = 0
    /\ faults = 0

------------------------------------------------------------------------------
(* Helpers of the steps. *)

At(w, step) == pc[w] = step
GoTo(w, step) == pc' = [pc EXCEPT ![w] = step]

(* Leave the guarded region with a result; only the unlock remains. *)
Return(w, answer) ==
    /\ GoTo(w, "unlock")
    /\ reply' = [reply EXCEPT ![w] = answer]

(* Slip: get_ranking, too, falls into the insertion. *)
ObtainedRanks(w, r) ==
    /\ seen' = [seen EXCEPT ![w] = r]
    /\ GoTo(w, "rank") /\ UNCHANGED reply

(* get_ranking_non_atomic has produced ranking r. *)
Obtained(w, r) ==
    /\ seen' = [seen EXCEPT ![w] = r]
    /\ IF job[w].op = "new_score"
       THEN GoTo(w, "rank") /\ UNCHANGED reply
       ELSE Return(w, "ok")

(* One call of the file system fails. *)
Fault ==
    /\ faults < MaxFaults
    /\ faults' = faults + 1

BeingRegistered == {w \in Workers : job[w].op = "new_score"}

------------------------------------------------------------------------------
(* ScoreRequestHandler::handle_request has parsed a request and calls. *)
Call(w, call) ==
    /\ At(w, "idle")
    /\ call.op = "new_score" =>
            Len(accepted) + Cardinality(BeingRegistered) < MaxAccepted
    /\ job' = [job EXCEPT ![w] = call]
    /\ GoTo(w, "lock")
    /\ UNCHANGED <<file, owner, seen, reply, size, accepted, crashes, faults>>

(* Slip: a try_lock whose result is ignored. *)
LockIgnored(w) ==
    /\ At(w, "lock")
    /\ owner' = [owner EXCEPT ![job[w].manager] = w]
    /\ GoTo(w, "exists")
    /\ UNCHANGED <<file, job, seen, reply, size, accepted, crashes, faults>>

(* boost::lock_guard lock(ranking_lock_) *)
Lock(w) ==
    /\ At(w, "lock")
    /\ owner[job[w].manager] = None
    /\ owner' = [owner EXCEPT ![job[w].manager] = w]
    /\ GoTo(w, "exists")
    /\ UNCHANGED <<file, job, seen, reply, size, accepted, crashes, faults>>

(* read_file: if (!exists(file_path)) return nullopt *)
Exists(w) ==
    /\ At(w, "exists")
    /\ GoTo(w, IF file.state = "absent" THEN "recheck" ELSE "read")
    /\ UNCHANGED <<file, owner, job, seen, reply, size, accepted, crashes, faults>>

(* read_file opens the stream and reads it; GetScoresFromJson parses it. *)
ReadDocument(w) ==
    /\ At(w, "read")
    /\ file.state = "doc"
    /\ Obtained(w, file.ranking)
    /\ UNCHANGED <<file, owner, job, size, accepted, crashes, faults>>

(* Slip: a file that does not parse is taken for an empty ranking. *)
ReadTornAsEmpty(w) ==
    /\ At(w, "read")
    /\ file.state = "torn"
    /\ Obtained(w, <<>>)
    /\ UNCHANGED <<file, owner, job, size, accepted, crashes, faults>>

(* The document does not parse: nullopt. *)
ReadTorn(w) ==
    /\ At(w, "read")
    /\ file.state = "torn"
    /\ Return(w, "failed")
    /\ UNCHANGED <<file, owner, job, seen, size, accepted, crashes, faults>>

(* The stream does not open: read_file returns nullopt. *)
ReadFails(w) ==
    /\ At(w, "read")
    /\ Fault
    /\ GoTo(w, "recheck")
    /\ UNCHANGED <<file, owner, job, seen, reply, size, accepted, crashes>>

(* Slip: an unreadable file is taken for a missing one. *)
RecheckSkipped(w) ==
    /\ At(w, "recheck")
    /\ GoTo(w, "init_open") /\ UNCHANGED reply
    /\ UNCHANGED <<file, owner, job, seen, size, accepted, crashes, faults>>

(* No ranking was read: is it because the file does not exist? *)
Recheck(w) ==
    /\ At(w, "recheck")
    /\ IF file.state = "absent"
       THEN GoTo(w, "init_open") /\ UNCHANGED reply
       ELSE Return(w, "failed")
    /\ UNCHANGED <<file, owner, job, seen, size, accepted, crashes, faults>>

(* push_ranking_non_atomic(empty): write_file truncates or creates the file. *)
InitOpen(w) ==
    /\ At(w, "init_open")
    /\ file' = Torn(file.ranking)
    /\ GoTo(w, "init_write")
    /\ UNCHANGED <<owner, job, seen, reply, size, accepted, crashes, faults>>

(* The result of that push is ignored: the ranking is empty all the same. *)
InitOpenFails(w) ==
    /\ At(w, "init_open")
    /\ Fault
    /\ Obtained(w, <<>>)
    /\ UNCHANGED <<file, owner, job, size, accepted, crashes>>

InitWrite(w) ==
    /\ At(w, "init_write")
    /\ file' = Document(<<>>)
    /\ Obtained(w, <<>>)
    /\ UNCHANGED <<owner, job, size, accepted, crashes, faults>>

(* write_file does not look at the stream after writing. *)
InitWriteFails(w) ==
    /\ At(w, "init_write")
    /\ Fault
    /\ file' = Torn(<<>>)
    /\ Obtained(w, <<>>)
    /\ UNCHANGED <<owner, job, size, accepted, crashes>>

(* new_score: the score enters the ranking. *)
RankEnters(w) ==
    LET k == size[job[w].manager]
        s == job[w].score
    IN  /\ At(w, "rank")
        /\ ~IsOversized(seen[w], k)
        /\ Enters(seen[w], s, k)
        /\ seen' = [seen EXCEPT ![w] = Inserted(seen[w], s, k)]
        /\ GoTo(w, "open")
        /\ UNCHANGED <<file, owner, job, reply, size, accepted, crashes, faults>>

(* new_score: full, and the score belongs after the last one: return true. *)
RankTooLow(w) ==
    LET k == size[job[w].manager]
        s == job[w].score
    IN  /\ At(w, "rank")
        /\ ~IsOversized(seen[w], k)
        /\ ~Enters(seen[w], s, k)
        /\ accepted' = Append(accepted, s)
        /\ Return(w, "ok")
        /\ UNCHANGED <<file, owner, job, seen, size, crashes, faults>>

(* Slip: an oversized ranking is cut to size and stored. *)
RankCutsOversized(w) ==
    LET k == size[job[w].manager]
    IN  /\ At(w, "rank")
        /\ IsOversized(seen[w], k)
        /\ seen' = [seen EXCEPT ![w] = SubSeq(seen[w], 1, k)]
        /\ GoTo(w, "open")
        /\ UNCHANGED <<file, owner, job, reply, size, accepted, crashes, faults>>

(* new_score: "The actual ranking size is greater than intended." *)
RankOversized(w) ==
    LET k == size[job[w].manager]
    IN  /\ At(w, "rank")
        /\ IsOversized(seen[w], k)
        /\ Return(w, "failed")
        /\ UNCHANGED <<file, owner, job, seen, size, accepted, crashes, faults>>

(* push_ranking_non_atomic: write_file opens with trunc; the old board is gone
   before the new one is there. *)
Open(w) ==
    /\ At(w, "open")
    /\ file' = Torn(file.ranking)
    /\ GoTo(w, "write")
    /\ UNCHANGED <<owner, job, seen, reply, size, accepted, crashes, faults>>

(* create_directories throws or the stream does not open: write_file is false. *)
OpenFails(w) ==
    /\ At(w, "open")
    /\ Fault
    /\ Return(w, "failed")
    /\ UNCHANGED <<file, owner, job, seen, size, accepted, crashes>>

(* The document reaches the file. *)
Write(w) ==
    /\ At(w, "write")
    /\ file' = Document(seen[w])
    /\ accepted' = Append(accepted, job[w].score)
    /\ Return(w, "ok")
    /\ UNCHANGED <<owner, job, seen, size, crashes, faults>>

(* It does not, or not whole; write_file returns true without looking. *)
WriteFails(w) ==
    /\ At(w, "write")
    /\ Fault
    /\ file' = Torn(file.ranking)
    /\ Return(w, "ok")
    /\ UNCHANGED <<owner, job, seen, size, accepted, crashes>>

(* Slip: a manual unlock that the failing paths do not reach. *)
UnlockOnSuccess(w) ==
    /\ At(w, "unlock")
    /\ owner' = IF reply[w] = "ok"
                THEN [owner EXCEPT ![job[w].manager] = None] ELSE owner
    /\ GoTo(w, "idle")
    /\ job' = [job EXCEPT ![w] = NoCall]
    /\ seen' = [seen EXCEPT ![w] = <<>>]
    /\ reply' = [reply EXCEPT ![w] = "none"]
    /\ UNCHANGED <<file, size, accepted, crashes, faults>>

(* lock_guard's destructor; the caller has its result. *)
Unlock(w) ==
    /\ At(w, "unlock")
    /\ owner' = [owner EXCEPT ![job[w].manager] = None]
    /\ GoTo(w, "idle")
    /\ job' = [job EXCEPT ![w] = NoCall]
    /\ seen' = [seen EXCEPT ![w] = <<>>]
    /\ reply' = [reply EXCEPT ![w] = "none"]
    /\ UNCHANGED <<file, size, accepted, crashes, faults>>

(* The process dies, or is stopped, and starts again, perhaps with another
   leaderboard_size; the file stays as it is. *)
Crash ==
    /\ crashes < MaxCrashes
    /\ crashes' = crashes + 1
    /\ owner' = [m \in Managers |-> None]
    /\ pc' = [w \in Workers |-> "idle"]
    /\ job' = [w \in Workers |-> NoCall]
    /\ seen' = [w \in Workers |-> <<>>]
    /\ reply' = [w \in Workers |-> "none"]
    /\ size' \in [Managers -> Sizes]
    /\ UNCHANGED <<file, accepted, faults>>

(* One step of a call in progress. *)
Step(w) ==
    \/ Lock(w) \/ Exists(w) \/ ReadDocument(w) \/ ReadTorn(w) \/ ReadFails(w)
    \/ Recheck(w) \/ InitOpen(w) \/ InitOpenFails(w) \/ InitWrite(w)
    \/ InitWriteFails(w) \/ RankEnters(w) \/ RankTooLow(w) \/ RankOversized(w)
    \/ Open(w) \/ OpenFails(w) \/ Write(w) \/ WriteFails(w) \/ Unlock(w)

Next ==
    \/ \E w \in Workers : (\E call \in Calls : Call(w, call)) \/ Step(w)
    \/ Crash

Spec == Init /\ [][Next]_vars

(* A thread of the pool keeps running a call it has begun. *)
FairSpec == Spec /\ \A w \in Workers : WF_vars(Step(w))

------------------------------------------------------------------------------
(* Safety. *)

(* The lock excludes: the worker inside a manager's guarded region is its
   owner, so no two workers of one manager are inside (ranking_lock_). *)
LockExcludes ==
    \A w \in Workers : pc[w] \in Locked => owner[job[w].manager] = w

(* What a call may have decided to overwrite: it has read, or initialised, the
   board. *)
MayStore == {"init_write", "rank", "open", "write"}

(* The score a call answered "true" for is on the board, or the board is full
   of scores at least as good, as long as the file system did not fail. *)
AnsweredTrueIsKept ==
    \A w \in Workers :
        /\ At(w, "unlock") /\ reply[w] = "ok" /\ faults = 0
        /\ job[w].op = "new_score"
        => NothingLost(file.ranking, <<job[w].score>>, size[job[w].manager])

(* With one size for every process, an intact file always holds exactly the
   best of all the scores ever accepted, newer ones first, whatever the
   interleaving and however often the process died. *)
BoardIsTopOfAccepted ==
    \A m \in Managers :
        file.state # "torn" => file.ranking = TopOf(accepted, size[m])

(* A GET returns the board as it is when the call returns, never a mixture or
   one that a concurrent call has already replaced. *)
GetIsCurrent ==
    \A w \in Workers :
        At(w, "unlock") /\ reply[w] = "ok" /\ job[w].op = "get_ranking"
        => seen[w] = file.ranking

(* Rankings are ordered and unforged: nothing on the board was not submitted. *)
BoardIsGenuine ==
    /\ IsRanking(file.ranking)
    /\ \A p \in 1 .. Len(file.ranking) :
            \E i \in 1 .. Len(accepted) : accepted[i] = file.ranking[p]

(* No step loses an entry, except to scores at least as good; in particular the
   empty ranking pushed for a missing file never replaces a board ("Atomically
   push a new score", default_score_manager.h). *)
BoardOnlyImproves ==
    [][NothingLost(file'.ranking, file.ranking, Len(file.ranking))]_vars

(* The file is torn and every call that will find out has yet to read it. *)
Damaged == file.state = "torn" /\ \A w \in Workers : pc[w] \notin MayStore

(* Damage is final: every later call reports it, none papers over it with a
   fresh board, whether it runs alone, with others or after a restart. *)
DamageIsNotHidden == [][Damaged => Damaged']_vars

(* A board longer than ranking_size_ is neither cut nor extended. *)
OversizedIsFrozen ==
    [][ \A m \in Managers :
            IsOversized(file.ranking, size[m]) /\ size' = size
            => file' = file /\ accepted' = accepted ]_vars

(* Whatever happens inside a guarded region, it is left: no path of new_score
   or get_ranking keeps the lock. *)
LockComesFree ==
    \A m \in Managers, w \in Workers : owner[m] = w ~> owner[m] # w
==============================================================================
