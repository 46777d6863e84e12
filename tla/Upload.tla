--------------------------------- MODULE Upload ---------------------------------
(***************************************************************************)
(* The upload of a score (the game over window of popup() in               *)
(* dino/index.js): a click asks the server for the secret key, signs the   *)
(* score with it and posts it.  The chain of promises goes on while the    *)
(* game is restarted and over again.  The server takes a signed score or   *)
(* refuses it; either answer may get lost.  Taken is not kept: it answers  *)
(* 200 to a score too low for its board too.                               *)
(*                                                                         *)
(* finals is history: the score with which each game was over.             *)
(***************************************************************************)
EXTENDS Integers, Sequences

CONSTANTS
    MaxGames,        \* bound on restarts
    MaxUploadScore,  \* bound on the score of a game
    MaxPosts         \* bound on uploads

ASSUME UploadAssumption == {MaxGames, MaxUploadScore, MaxPosts} \subseteq Nat

VARIABLES
    score,           \* the score of the game that runs or is over
    ended,           \* the game is over and its window open
    scoreUploaded,   \* Runner.scoreUploaded
    posts,           \* the uploads begun: [game, score, stage]
    leaderboard,     \* the posts that the server has ever stored
    finals           \* history

uploadVars == <<score, ended, scoreUploaded, posts, leaderboard, finals>>

Game == Len(finals) + (IF ended THEN 0 ELSE 1)

(* key: waiting for the secret key.  signed: posted.  answered and refused: the
   server has said so.  done and failed: the promise has settled. *)
Stages == {"key", "signed", "answered", "refused", "done", "failed"}

UploadInit ==
    /\ score = 0 /\ ended = FALSE /\ scoreUploaded = FALSE
    /\ posts = <<>> /\ leaderboard = {} /\ finals = <<>>

Run ==
    /\ ~ended /\ score < MaxUploadScore
    /\ score' = score + 1
    /\ UNCHANGED <<ended, scoreUploaded, posts, leaderboard, finals>>

(* gameOver() opens the window. *)
UploadGameOver ==
    /\ ~ended
    /\ ended' = TRUE
    /\ finals' = Append(finals, score)
    /\ UNCHANGED <<score, scoreUploaded, posts, leaderboard>>

(* The upload button, with a username.  A second click only says that the score
   has been uploaded. *)
ClickUpload ==
    /\ ended /\ ~scoreUploaded /\ Len(posts) < MaxPosts
    /\ scoreUploaded' = TRUE
    /\ posts' = Append(posts, [game |-> Game, score |-> score, stage |-> "key"])
    /\ UNCHANGED <<score, ended, leaderboard, finals>>

At(i, stage) == posts[i].stage = stage

To(i, stage) == posts' = [posts EXCEPT ![i].stage = stage]

(* Slip: the score is read when the key arrives. *)
KeyArrivesThenScore(i) ==
    /\ At(i, "key")
    /\ posts' = [posts EXCEPT ![i].stage = "signed", ![i].score = score]
    /\ UNCHANGED <<score, ended, scoreUploaded, leaderboard, finals>>

(* The secret key arrives and the score, taken at the click, is posted. *)
KeyArrives(i) ==
    /\ At(i, "key") /\ To(i, "signed")
    /\ UNCHANGED <<score, ended, scoreUploaded, leaderboard, finals>>

Entry(i) == [game |-> posts[i].game, score |-> posts[i].score]

(* The server answers 200: it has stored the score, or its board is full of
   better ones, or nobody saw that the file was not written. *)
ServerAnswers(i) ==
    /\ At(i, "signed") /\ To(i, "answered")
    /\ leaderboard' \in {leaderboard, leaderboard \cup {Entry(i)}}
    /\ UNCHANGED <<score, ended, scoreUploaded, finals>>

(* The hash is wrong, the entry invalid or the server in trouble. *)
ServerRefuses(i) ==
    /\ At(i, "signed") /\ To(i, "refused")
    /\ UNCHANGED <<score, ended, scoreUploaded, leaderboard, finals>>

(* response.ok: "Success!" *)
AnswerArrives(i) ==
    /\ \/ At(i, "answered") /\ To(i, "done")
       \/ At(i, "refused") /\ To(i, "failed")
    /\ UNCHANGED <<score, ended, scoreUploaded, leaderboard, finals>>

(* catch: whatever fails on the way is written to the console; the score stays
   marked as uploaded.  A post that fails may have reached the server. *)
FetchFails(i) ==
    /\ ~At(i, "done") /\ ~At(i, "failed") /\ To(i, "failed")
    /\ leaderboard' \in {leaderboard}
            \cup (IF At(i, "signed") THEN {leaderboard \cup {Entry(i)}} ELSE {})
    /\ UNCHANGED <<score, ended, scoreUploaded, finals>>

UploadRestart ==
    /\ ended /\ Len(finals) < MaxGames
    /\ ended' = FALSE /\ scoreUploaded' = FALSE /\ score' = 0
    /\ UNCHANGED <<posts, leaderboard, finals>>

UploadNext ==
    \/ Run \/ UploadGameOver \/ ClickUpload \/ UploadRestart
    \/ \E i \in DOMAIN posts :
          \/ KeyArrives(i) \/ ServerAnswers(i) \/ ServerRefuses(i)
          \/ AnswerArrives(i) \/ FetchFails(i)

UploadSpec == UploadInit /\ [][UploadNext]_uploadVars

------------------------------------------------------------------------------

(* Every upload sends the score with which its game was over, whatever game runs
   by the time the key arrives; a game is uploaded once, however often the game
   is restarted while uploads are on the way; and every score that the server
   has stored is the one with which its game was over. *)
UploadsAreFinal ==
    /\ \A i \in DOMAIN posts :
          /\ posts[i].game <= Len(finals) /\ posts[i].score = finals[posts[i].game]
          /\ \A j \in DOMAIN posts : posts[j].game = posts[i].game => i = j
    /\ \A entry \in leaderboard : entry.score = finals[entry.game]
==============================================================================
