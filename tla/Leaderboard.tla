----------------------------- MODULE Leaderboard -----------------------------
(***************************************************************************)
(* What class ScoreManager promises its callers, with no file, no lock and *)
(* no intermediate step: a board of the best scores, and calls that read   *)
(* it or add to it at one instant between their invocation and return.     *)
(* Storage may be damaged by a crash or a fault; from then on every call   *)
(* fails and the board is never shown or changed again.                    *)
(***************************************************************************)
EXTENDS Ranking

CONSTANTS
    Clients,
    Usernames, ScoreValues,
    Sizes           \* ranking sizes a start may choose

VARIABLES
    board, damaged, size, call, answer,
    faulty          \* a call of the storage has failed before

vars == <<board, damaged, size, call, answer, faulty>>

Scores == ScoreRecord(Usernames, ScoreValues)

NoCall == [op |-> "none"]
Calls == [op : {"new_score"}, score : Scores] \cup {[op |-> "get_ranking"]}

Pending == [result |-> "pending"]
Failed == [result |-> "failed"]
Done == [result |-> "ok"]
Shown(r) == [result |-> "ok", ranking |-> r]

Init ==
    /\ board = <<>>
    /\ damaged = FALSE
    /\ size \in Sizes
    /\ call = [c \in Clients |-> NoCall]
    /\ answer = [c \in Clients |-> Pending]
    /\ faulty = FALSE

(* A call of the storage fails; what follows from it is below. *)
Fail ==
    /\ faulty' = TRUE
    /\ UNCHANGED <<board, damaged, size, call, answer>>

Invoke(c) ==
    /\ call[c] = NoCall
    /\ \E request \in Calls : call' = [call EXCEPT ![c] = request]
    /\ UNCHANGED <<board, damaged, size, answer, faulty>>

Unanswered(c, op) == call[c].op = op /\ answer[c] = Pending

(* Failing storage may break under a call that touches it. *)
BreakUnder ==
    /\ faulty' \in {faulty, TRUE}
    /\ damaged' \in {damaged, damaged \/ faulty'}

(* The board becomes the best `size` of itself and the new score. *)
Register(c) ==
    /\ Unanswered(c, "new_score")
    /\ ~damaged /\ ~IsOversized(board, size)
    /\ board' = TopOf(Append(Reverse(board), call[c].score), size)
    /\ answer' = [answer EXCEPT ![c] = Done]
    /\ UNCHANGED <<damaged, size, call, faulty>>

(* A fault destroys the board under a call that believes it succeeded. *)
RegisterIntoDamage(c) ==
    /\ Unanswered(c, "new_score")
    /\ ~damaged /\ ~IsOversized(board, size)
    /\ faulty' = TRUE
    /\ damaged' = TRUE
    /\ answer' = [answer EXCEPT ![c] = Done]
    /\ UNCHANGED <<board, size, call>>

Show(c) ==
    /\ Unanswered(c, "get_ranking")
    /\ ~damaged
    /\ BreakUnder
    /\ answer' = [answer EXCEPT ![c] = Shown(board)]
    /\ UNCHANGED <<board, size, call>>

(* The only reasons to refuse. *)
Refuse(c) ==
    /\ call[c] # NoCall /\ answer[c] = Pending
    /\ BreakUnder
    /\ \/ damaged
       \/ faulty'
       \/ call[c].op = "new_score" /\ IsOversized(board, size)
    /\ answer' = [answer EXCEPT ![c] = Failed]
    /\ UNCHANGED <<board, size, call>>

Respond(c) ==
    /\ answer[c] # Pending
    /\ call' = [call EXCEPT ![c] = NoCall]
    /\ answer' = [answer EXCEPT ![c] = Pending]
    /\ UNCHANGED <<board, damaged, size, faulty>>

(* All calls are lost; a crash may damage the board, but only if one was
   registering or reading. *)
Restart ==
    /\ damaged' \in {damaged, damaged \/ \E c \in Clients : call[c] # NoCall}
    /\ size' \in Sizes
    /\ call' = [c \in Clients |-> NoCall]
    /\ answer' = [c \in Clients |-> Pending]
    /\ UNCHANGED <<board, faulty>>

Next ==
    \/ \E c \in Clients :
        \/ Invoke(c) \/ Register(c) \/ RegisterIntoDamage(c) \/ Show(c)
        \/ Refuse(c) \/ Respond(c)
    \/ Fail \/ Restart

Spec == Init /\ [][Next]_vars
==============================================================================
