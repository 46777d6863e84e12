------------------------ MODULE ScoreManagerRefinement -----------------------
(***************************************************************************)
(* DefaultScoreManager implements the abstract Leaderboard, when one       *)
(* manager object owns the file.  The board is the file's document; while  *)
(* a call is between truncating and writing, it is still the old one.      *)
(***************************************************************************)
EXTENDS ScoreManager

TheManager == CHOOSE m \in Managers : TRUE

AbstractCall(w) ==
    CASE job[w] = NoCall -> NoCall
      [] job[w].op = "get_ranking" -> [op |-> "get_ranking"]
      [] OTHER -> [op |-> "new_score", score |-> job[w].score]

AbstractAnswer(w) ==
    CASE reply[w] = "none" -> [result |-> "pending"]
      [] reply[w] = "failed" -> [result |-> "failed"]
      [] OTHER -> IF job[w].op = "new_score"
                  THEN [result |-> "ok"]
                  ELSE [result |-> "ok", ranking |-> seen[w]]

Promise == INSTANCE Leaderboard WITH
    Clients <- Workers,
    board <- file.ranking,
    damaged <- Damaged,
    size <- size[TheManager],
    call <- [w \in Workers |-> AbstractCall(w)],
    answer <- [w \in Workers |-> AbstractAnswer(w)],
    faulty <- faults > 0

(* Every behaviour of the locked read-modify-write on the file, with crashes
   and faults, is a behaviour of the atomic board (score_manager.h). *)
ImplementsLeaderboard == Promise!Spec
==============================================================================
