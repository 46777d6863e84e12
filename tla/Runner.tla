-------------------------------- MODULE Runner --------------------------------
(***************************************************************************)
(* The control of the Dino game: Runner in dino/index.js with its T-rex.   *)
(* One browser page runs its handlers one at a time: animation frames,     *)
(* keys, the restart button of the game over window, the end of the intro  *)
(* animation, the debounced resize, and the events that tell that the      *)
(* player left the page or came back.  The order is the browser's.         *)
(*                                                                         *)
(* game is the Runner object.  Two of its fields stand for the frames the  *)
(* browser still has to call: current, the one raqId names, and strays,    *)
(* how many older ones nobody can cancel.  raq tells whether raqId is set, *)
(* which it stays after its frame was called.  What is drawn, the speed    *)
(* (it grows by a thousandth per frame) and the obstacles are left out:    *)
(* whether the T-rex hits one is a free choice once there are any.         *)
(*                                                                         *)
(* left, resumed, returns and resizes are history: the last stop was for   *)
(* leaving the page, play() was called since the game began, and how often *)
(* the player came back and resized the window.                            *)
(***************************************************************************)
EXTENDS Trex

CONSTANTS
    Elapsed,         \* the times in ms that may pass between two updates
    ClearTime,       \* config.CLEAR_TIME
    MaxTime,         \* runningTime is not told apart beyond this
    MaxDistance,     \* nor is distanceRan beyond this
    MaxBlinkCount,   \* config.MAX_BLINK_COUNT
    Speed,           \* currentSpeed, in tenths
    MaxGames,        \* bound on restarts
    MaxReturns,      \* bound on returns to the page
    MaxResizes       \* bound on resizes

ASSUME RunnerAssumption ==
    /\ Elapsed \subseteq Nat /\ 0 \in Elapsed
    /\ ClearTime \in Nat /\ MaxTime \in Nat /\ ClearTime < MaxTime
    /\ MaxDistance \in Nat /\ MaxBlinkCount \in Nat /\ Speed \in Nat
    /\ MaxGames \in Nat /\ MaxReturns \in Nat /\ MaxResizes \in Nat

VARIABLES
    game,            \* the Runner object, see Games
    window,          \* what the page knows of the player: focused, hidden
    resizeTimer,     \* resizeTimerId_ is set
    returns,         \* history
    resizes          \* history

vars == <<game, window, resizeTimer, returns, resizes>>

Games == [playing : BOOLEAN, paused : BOOLEAN, crashed : BOOLEAN,
          activated : BOOLEAN, playingIntro : BOOLEAN, intro : BOOLEAN,
          visibility : BOOLEAN, listening : BOOLEAN, popups : Nat,
          playCount : Nat, runningTime : 0 .. MaxTime,
          distance : 0 .. MaxDistance, trex : Trexes, blinks : Nat,
          updatePending : BOOLEAN, raq : BOOLEAN, current : BOOLEAN,
          strays : Nat, left : BOOLEAN, resumed : BOOLEAN]

AtMost(bound, n) == IF n > bound THEN bound ELSE n

------------------------------------------------------------------------------
(* The methods of Runner, as functions of the object.                      *)

(* Slip: the frame that is pending is not cancelled. *)
StopUncancelled(g) == [g EXCEPT !.playing = FALSE, !.paused = TRUE, !.raq = FALSE]

(* stop() *)
Stop(g) == [g EXCEPT !.playing = FALSE, !.paused = TRUE,
                     !.current = FALSE, !.raq = FALSE]

(* Slip: raqId is taken for the flag that a frame is pending. *)
ScheduleByRaqId(g) ==
    IF g.raq THEN g
    ELSE [g EXCEPT !.updatePending = TRUE, !.raq = TRUE, !.current = TRUE,
                   !.strays = IF g.current THEN @ + 1 ELSE @]

(* scheduleNextUpdate(): the frame raqId named goes out of reach. *)
Schedule(g) ==
    IF g.updatePending THEN g
    ELSE [g EXCEPT !.updatePending = TRUE, !.raq = TRUE, !.current = TRUE,
                   !.strays = IF g.current THEN @ + 1 ELSE @]

(* Slip: the game is not marked as activated. *)
PlayIntroUnmarked(g) ==
    IF g.activated \/ g.crashed THEN g
    ELSE [g EXCEPT !.playingIntro = TRUE, !.intro = TRUE, !.playing = TRUE]

(* playIntro().  It runs while the game plays, so its call of restart() for
   a crashed game is never reached. *)
PlayIntro(g) ==
    IF g.activated \/ g.crashed THEN g
    ELSE [g EXCEPT !.playingIntro = TRUE, !.intro = TRUE,
                   !.playing = TRUE, !.activated = TRUE]

(* gameOver() and the popup() it opens. *)
GameOver(g) ==
    [Stop(g) EXCEPT !.listening = FALSE, !.crashed = TRUE,
                    !.trex = WithStatus(@, "CRASHED"), !.popups = @ + 1]

(* tRex.update(deltaTime): a waiting T-rex may have blinked. *)
TRexUpdated(g, blink) ==
    [g EXCEPT !.trex = Settled(@),
              !.blinks = IF blink /\ g.trex.status = "WAITING"
                         THEN AtMost(MaxBlinkCount, @ + 1) ELSE @]

(* The part of update() that a game which is not playing skips.  Nothing is
   scored before the first jump has brought the intro. *)
Advance(g, dt, hit) ==
    LET jumped == [g EXCEPT !.trex = IF @.jumping THEN UpdateJump(@, dt) ELSE @,
                            !.runningTime = AtMost(MaxTime, @ + dt)]
        hasObstacles == jumped.runningTime > ClearTime
        begun == IF jumped.trex.jumpCount = 1 /\ ~g.playingIntro
                 THEN PlayIntro(jumped) ELSE jumped
        collision == hit /\ hasObstacles /\ begun.activated /\ ~begun.playingIntro
    IN  IF collision THEN GameOver(begun)
        ELSE IF begun.activated
             THEN [begun EXCEPT !.distance = AtMost(MaxDistance, @ + dt)]
             ELSE begun

(* update(), dt after the one before. *)
Update(g, dt, hit, blink) ==
    LET begun == [g EXCEPT !.updatePending = FALSE, !.left = FALSE]
        moved == IF g.playing THEN Advance(begun, dt, hit) ELSE begun
    IN  IF moved.playing \/ (~moved.activated /\ moved.blinks < MaxBlinkCount)
        THEN Schedule(TRexUpdated(moved, blink)) ELSE moved

(* Slip: play() leaves the clock at the time the game stopped. *)
PlayLate(g, hit) ==
    IF g.crashed THEN g
    ELSE Update([g EXCEPT !.playing = TRUE, !.paused = FALSE, !.resumed = TRUE,
                          !.trex = WithStatus(@, "RUNNING")],
                CHOOSE dt \in Elapsed : \A e \in Elapsed : e <= dt, hit, FALSE)

(* play(): the time spent away is forgotten. *)
Play(g, hit) ==
    IF g.crashed THEN g
    ELSE Update([g EXCEPT !.playing = TRUE, !.paused = FALSE, !.resumed = TRUE,
                          !.trex = WithStatus(@, "RUNNING")], 0, hit, FALSE)

(* restart() *)
Restart(g) ==
    IF g.raq THEN g
    ELSE Update([g EXCEPT !.listening = TRUE, !.playCount = @ + 1,
                          !.runningTime = 0, !.playing = TRUE, !.crashed = FALSE,
                          !.distance = 0, !.resumed = FALSE,
                          !.trex = Reset(@)], 0, FALSE, FALSE)

(* startGame() *)
StartGame(g) ==
    [g EXCEPT !.runningTime = 0, !.playingIntro = FALSE, !.intro = FALSE,
              !.playCount = @ + 1, !.visibility = TRUE]

(* adjustDimensions(): a game that had begun stops and waits for a key. *)
AdjustDimensions(g, blink) ==
    LET redrawn == TRexUpdated(g, blink)
    IN  IF g.playing \/ g.crashed \/ g.paused THEN Stop(redrawn) ELSE redrawn

(* Slip: coming back plays on, crashed or not. *)
OnVisibilityChangeAlways(g, away, hit) ==
    IF away THEN [Stop(g) EXCEPT !.left = TRUE]
    ELSE Play([g EXCEPT !.trex = Reset(@), !.crashed = FALSE], hit)

(* onVisibilityChange(e), away when the page is hidden or e is a blur. *)
OnVisibilityChange(g, away, hit) ==
    IF away THEN [Stop(g) EXCEPT !.left = TRUE]
    ELSE IF g.crashed THEN g ELSE Play([g EXCEPT !.trex = Reset(@)], hit)

(* onKeyDown(e), a jump key.  A game that was not playing starts. *)
Started(g, dt, hit, blink) ==
    IF g.playing \/ g.crashed THEN g
    ELSE Update([g EXCEPT !.playing = TRUE], dt, hit, blink)

(* Slip: a ducking T-rex jumps. *)
JumpKeyDownDucking(g, dt, hit, blink) ==
    LET started == Started(g, dt, hit, blink)
    IN  IF g.crashed THEN g
        ELSE [started EXCEPT !.trex = StartJump(@, Speed)]

JumpKeyDown(g, dt, hit, blink) ==
    LET started == Started(g, dt, hit, blink)
    IN  IF g.crashed \/ started.trex.jumping \/ started.trex.ducking THEN started
        ELSE [started EXCEPT !.trex = StartJump(@, Speed)]

(* onKeyDown(e), a duck key. *)
DuckKeyDown(g) ==
    [g EXCEPT !.trex = CASE ~g.playing \/ g.crashed -> @
                         [] g.playing /\ ~g.crashed /\ @.jumping -> SetSpeedDrop(@)
                         [] OTHER -> IF @.ducking THEN @ ELSE SetDuck(@, TRUE)]

(* onKeyUp(e), a jump key.  A crashed game does not listen. *)
JumpKeyUp(g, hit) ==
    IF g.raq THEN [g EXCEPT !.trex = EndJump(@)]
    ELSE IF g.paused THEN Play([g EXCEPT !.trex = Reset(@)], hit) ELSE g

(* onKeyUp(e), a duck key. *)
DuckKeyUp(g) ==
    [g EXCEPT !.trex = SetDuck([@ EXCEPT !.speedDrop = FALSE], FALSE)]

------------------------------------------------------------------------------

(* The game after init(): the T-rex waits and its first frame is asked for. *)
NewGame ==
    [playing |-> FALSE, paused |-> FALSE, crashed |-> FALSE,
     activated |-> FALSE, playingIntro |-> FALSE, intro |-> FALSE,
     visibility |-> FALSE, listening |-> TRUE, popups |-> 0, playCount |-> 0,
     runningTime |-> 0, distance |-> 0, trex |-> NewTrex, blinks |-> 0,
     updatePending |-> TRUE, raq |-> TRUE, current |-> TRUE, strays |-> 0,
     left |-> FALSE, resumed |-> FALSE]

Init ==
    /\ game = NewGame
    /\ window = [focused |-> TRUE, hidden |-> FALSE]
    /\ resizeTimer = FALSE
    /\ returns = 0
    /\ resizes = 0

(* The browser calls the frame raqId names.  No frame is called on a hidden
   page. *)
CurrentFrame(dt, hit, blink) ==
    /\ ~window.hidden /\ game.current
    /\ game' = Update([game EXCEPT !.current = FALSE], dt, hit, blink)
    /\ UNCHANGED <<window, resizeTimer, returns, resizes>>

StrayFrame(dt, hit, blink) ==
    /\ ~window.hidden /\ game.strays > 0
    /\ game' = Update([game EXCEPT !.strays = @ - 1], dt, hit, blink)
    /\ UNCHANGED <<window, resizeTimer, returns, resizes>>

(* A key reaches the game when the page has the focus and the game listens.
   Keys repeat, and a key may be released that was pressed elsewhere. *)
KeyAllowed == window.focused /\ ~window.hidden /\ game.listening

Key(dt, hit, blink) ==
    /\ KeyAllowed
    /\ game' \in {JumpKeyDown(game, dt, hit, blink), DuckKeyDown(game),
                  JumpKeyUp(game, hit), DuckKeyUp(game)}
    /\ UNCHANGED <<window, resizeTimer, returns, resizes>>

(* The restart button closes its window before it restarts. *)
ClickRestart ==
    /\ window.focused /\ ~window.hidden
    /\ game.popups > 0 /\ game.playCount < MaxGames
    /\ game' = Restart([game EXCEPT !.popups = @ - 1])
    /\ UNCHANGED <<window, resizeTimer, returns, resizes>>

AnimationEnds ==
    /\ game.intro
    /\ game' = StartGame(game)
    /\ UNCHANGED <<window, resizeTimer, returns, resizes>>

(* The page loses or gets the focus, is hidden or shown.  Each event calls
   onVisibilityChange once startGame() has asked for it. *)
Seen(away, hit) ==
    game' = IF game.visibility THEN OnVisibilityChange(game, away, hit) ELSE game

Leave ==
    /\ returns < MaxReturns
    /\ \/ window.focused /\ window' = [window EXCEPT !.focused = FALSE]
       \/ ~window.hidden /\ window' = [window EXCEPT !.hidden = TRUE]
    /\ Seen(TRUE, FALSE)
    /\ UNCHANGED <<resizeTimer, returns, resizes>>

Return(hit) ==
    /\ \/ window.hidden /\ window' = [window EXCEPT !.hidden = FALSE]
       \/ ~window.hidden /\ ~window.focused
          /\ window' = [window EXCEPT !.focused = TRUE]
    /\ Seen(FALSE, hit)
    /\ returns' = returns + 1
    /\ UNCHANGED <<resizeTimer, resizes>>

(* debounceResize() *)
DebounceResize ==
    /\ resizes < MaxResizes
    /\ resizeTimer' = TRUE
    /\ resizes' = resizes + 1
    /\ UNCHANGED <<game, window, returns>>

ResizeTimer(blink) ==
    /\ resizeTimer
    /\ resizeTimer' = FALSE
    /\ game' = AdjustDimensions(game, blink)
    /\ UNCHANGED <<window, returns, resizes>>

Next ==
    \/ \E dt \in Elapsed, hit, blink \in BOOLEAN :
          \/ CurrentFrame(dt, hit, blink)
          \/ StrayFrame(dt, hit, blink)
          \/ Key(dt, hit, blink)
    \/ ClickRestart
    \/ AnimationEnds
    \/ Leave
    \/ \E hit \in BOOLEAN : Return(hit)
    \/ DebounceResize
    \/ \E blink \in BOOLEAN : ResizeTimer(blink)

Spec == Init /\ [][Next]_vars

------------------------------------------------------------------------------

(* Types. *)
RunnerTypeOK ==
    /\ game \in Games
    /\ window \in [focused : BOOLEAN, hidden : BOOLEAN]
    /\ resizeTimer \in BOOLEAN
    /\ returns \in Nat
    /\ resizes \in Nat

(* A game that is over waits for its one window and nothing else: no frame it
   could cancel, no key and no return to the page brings it back, and the
   restart button, which asks raqId for leave, always works (gameOver, restart,
   onVisibilityChange). *)
CrashIsFinal ==
    /\ game.popups = IF game.crashed THEN 1 ELSE 0
    /\ game.crashed => ~game.playing /\ ~game.raq /\ ~game.listening /\ game.activated

(* A game that plays has a frame to come that stop() can cancel: the flags
   updatePending and raqId, which stop, play, restart and a key change in any
   order, never leave it frozen or out of control. *)
NeverFreezes == game.playing => game.current /\ game.raq /\ game.updatePending

(* The loops that nobody can cancel are at most one for the frame the waiting
   T-rex had asked for when the first key came, and one for every return to the
   page. *)
LoopsAreFew == game.strays <= 1 + returns

(* Nothing is scored and no game is counted before the first jump has brought the
   intro, and leaving the page is noticed exactly from the end of the intro on,
   whatever crash or resize came in between (update, playIntro, startGame). *)
ScoreNeedsIntro ==
    /\ game.distance > 0 \/ game.playCount > 0 => game.activated
    /\ game.intro <=> game.playingIntro
    /\ game.visibility <=> game.playCount > 0

(* Unless the game was resumed, a T-rex that ducks has the status that
   releasing the key takes back: it can be made to stand up and jump. *)
DuckCanBeReleased ==
    game.playing /\ game.trex.ducking /\ ~game.resumed => game.trex.status = "DUCKING"

(* What passes while the player is away does not count: the distance of a game
   that stopped because the page was left is what it was when it goes on
   (onVisibilityChange, play). *)
AwayIsNotScored ==
    [][game.left => game'.distance \in {game.distance, 0}]_vars

(* "Reset the t-rex to running at start of game." (index.js:1982): whenever the
   game restarts, the T-rex runs. *)
ResetMeansRunning ==
    [][game.crashed /\ game'.playing
       => game'.trex.status = "RUNNING" /\ ~game'.trex.ducking]_vars
==============================================================================
