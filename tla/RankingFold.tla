----------------------------- MODULE RankingFold -----------------------------
(***************************************************************************)
(* One board fed one score after another, with nobody else around: the     *)
(* loop that new_score amounts to when each call starts from the ranking   *)
(* the previous one stored.  It compares the insertion with the            *)
(* declarative TopOf over every history up to MaxScores scores, and the    *)
(* binary search of std::upper_bound with the position it must return.     *)
(***************************************************************************)
EXTENDS Ranking

CONSTANTS Usernames, ScoreValues, Sizes, MaxScores

ASSUME FoldAssumption ==
    ScoreValues \subseteq Int /\ Sizes \subseteq Nat /\ MaxScores \in Nat

VARIABLES history, board, size

foldVars == <<history, board, size>>

(* libstdc++'s std::__upper_bound: [first, first + len) is halved until it is
   empty; positions count from 1. *)
Ranges(r) == {range \in [first : 1 .. Len(r) + 1, len : 0 .. Len(r)] :
                 range.first + range.len <= Len(r) + 1}

BinaryUpperBound(r, s) ==
    LET halve[range \in Ranges(r)] ==
            IF range.len = 0 THEN range.first
            ELSE LET half == range.len \div 2
                     middle == range.first + half
                 IN  IF CompareScore(s, r[middle])
                     THEN halve[[range EXCEPT !.len = half]]
                     ELSE halve[[first |-> middle + 1, len |-> range.len - half - 1]]
    IN  halve[[first |-> 1, len |-> Len(r)]]

FoldInit ==
    /\ history = <<>>
    /\ board = <<>>
    /\ size \in Sizes

NewScore(s) ==
    /\ Len(history) < MaxScores
    /\ history' = Append(history, s)
    /\ board' = IF Enters(board, s, size) THEN Inserted(board, s, size) ELSE board
    /\ UNCHANGED size

FoldNext == \E s \in ScoreRecord(Usernames, ScoreValues) : NewScore(s)

FoldSpec == FoldInit /\ [][FoldNext]_foldVars

(* After any sequence of submissions the stored ranking is exactly the best
   ranking_size_ scores of the whole history, equal scores newest first: the
   incremental insert-and-drop of new_score forgets nothing it will need. *)
BoardIsTopOfHistory == board = TopOf(history, size)

(* CompareScore is not a strict weak order, yet every ranking new_score builds
   is partitioned with respect to every later score, so that the binary search
   of std::upper_bound returns the position a linear search would. *)
BinarySearchFindsPosition ==
    \A s \in ScoreRecord(Usernames, ScoreValues) :
        BinaryUpperBound(board, s) = UpperBound(board, s)

(* The ranking and the search that keeps it. *)
RankingIsRight == BoardIsTopOfHistory /\ BinarySearchFindsPosition
==============================================================================
