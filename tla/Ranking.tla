------------------------------- MODULE Ranking -------------------------------
(***************************************************************************)
(* The leaderboard's pure part: score_util::CompareScore and the insertion *)
(* that DefaultScoreManager::new_score performs on the vector of scores it *)
(* has read, next to the declarative meaning of "the best k scores, newer  *)
(* ones first".  A ranking is a sequence of scores, best first.            *)
(***************************************************************************)
EXTENDS Integers, Sequences, SequencesExt, FiniteSets

(* struct Score: the two fields the game uploads. *)
ScoreRecord(users, points) == [username : users, score : points]

(* Slip: a strict comparator puts an equal newer score after the older. *)
StrictCompare(a, b) == a.score > b.score

(* CompareScore(a, b): may a stand in front of b?  Not a strict order: the
   code means equal scores to compare true, so that the newer one goes first. *)
CompareScore(a, b) == a.score >= b.score

(* std::upper_bound(begin, end, s, CompareScore): the first position whose
   element s may stand in front of, Len(r) + 1 for end(). *)
UpperBound(r, s) ==
    CHOOSE p \in 1 .. Len(r) + 1 :
        /\ p <= Len(r) => CompareScore(s, r[p])
        /\ \A q \in 1 .. p - 1 : ~CompareScore(s, r[q])

(* What new_score decides about a ranking it has read (k = ranking_size_). *)
IsFull(r, k) == Len(r) = k
IsOversized(r, k) == Len(r) > k
Enters(r, s, k) == ~IsFull(r, k) \/ UpperBound(r, s) <= Len(r)

(* Slip: pop_back before insert at a position computed on the longer vector. *)
InsertedAtEnd(r, s, k) ==
    IF IsFull(r, k) THEN Append(Front(r), s) ELSE Append(r, s)

(* ranking->insert(pos, s), then pop_back when the ranking was full. *)
Inserted(r, s, k) ==
    LET longer == InsertAt(r, UpperBound(r, s), s)
    IN  IF IsFull(r, k) THEN Front(longer) ELSE longer

------------------------------------------------------------------------------
(* Reference definitions, independent of the insertion. *)

IsRanking(r) == \A i, j \in 1 .. Len(r) : i < j => r[i].score >= r[j].score

(* h is a history of scores, oldest first: i precedes j on the board. *)
Precedes(h, i, j) ==
    \/ h[i].score > h[j].score
    \/ h[i].score = h[j].score /\ i > j

Place(h, i) == 1 + Cardinality({j \in 1 .. Len(h) : Precedes(h, j, i)})

(* The first k of h by score, the newer of equal scores first. *)
TopOf(h, k) ==
    [p \in 1 .. (IF k < Len(h) THEN k ELSE Len(h)) |->
        h[CHOOSE i \in 1 .. Len(h) : Place(h, i) = p]]

(* Every score of h is on board r, or the board is full of scores at least
   as good. *)
NothingLost(r, h, k) ==
    \A i \in 1 .. Len(h) :
        \/ \E p \in 1 .. Len(r) : r[p] = h[i]
        \/ Len(r) = k /\ \A p \in 1 .. Len(r) : r[p].score >= h[i].score
==============================================================================
