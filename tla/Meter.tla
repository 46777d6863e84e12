--------------------------------- MODULE Meter ---------------------------------
(***************************************************************************)
(* The score of the Dino game: DistanceMeter, the night that the score     *)
(* brings (invert in Runner, NightMode) and the high score, in             *)
(* dino/index.js.  run, distances and the meter's score are numbers of     *)
(* pixels and of units of 40 pixels; a frame of FrameMs ms brings FramePx  *)
(* pixels or, for a second loop in the same frame, nothing.  A key that    *)
(* starts a stopped game again brings the whole time since it was stopped  *)
(* in one late frame.  The score is a number here; the digits shown are    *)
(* its last maxScoreUnits.                                                 *)
(*                                                                         *)
(* best, nights, interrupted and doubtful are history: the furthest run    *)
(* that ended, the nights of this game (while nothing interrupted it),     *)
(* that a resize has redrawn this game or a key has started it again, and  *)
(* that so it was in the furthest run.                                     *)
(***************************************************************************)
EXTENDS Trex

CONSTANTS
    FrameMs, FramePx,         \* what a frame brings
    LateFrames,               \* what the late ones may bring, [ms, px]
    MaxRun,                   \* runs are not told apart beyond this
    MaxDistanceUnits,         \* MAX_DISTANCE_UNITS
    AchievementDistance,      \* ACHIEVEMENT_DISTANCE
    FlashDuration,            \* FLASH_DURATION
    FlashIterations,          \* FLASH_ITERATIONS
    InvertDistance,           \* INVERT_DISTANCE
    InvertFadeDuration,       \* INVERT_FADE_DURATION
    FadeSteps,                \* frames that the moon takes to fade in
    Phases                    \* NightMode.phases.length

ASSUME MeterAssumption ==
    /\ LateFrames \subseteq [ms : Nat, px : Nat]
    /\ {FrameMs, FramePx, MaxRun, MaxDistanceUnits, AchievementDistance,
        FlashDuration, FlashIterations, InvertDistance, InvertFadeDuration,
        FadeSteps, Phases} \subseteq Nat \ {0}

VARIABLES
    run,             \* Runner.distanceRan
    over,            \* Runner.crashed
    playing,         \* Runner.playing
    meter,           \* the DistanceMeter, see NewMeter
    highestScore,    \* Runner.highestScore
    night,           \* invertTimer, inverted and the NightMode, see Day
    best,            \* history
    nights,          \* history
    interrupted,     \* history
    doubtful         \* history

meterVars == <<run, over, playing, meter, highestScore, night, best, nights,
               interrupted, doubtful>>

------------------------------------------------------------------------------

(* getActualDistance: a unit is 1 / COEFFICIENT pixels. *)
Score(px) == RoundDiv(px, 40)

MaxScore(units) == 10^units - 1

Shown(score, units) == score % 10^units

(* The frames of a flash, dark and bright, and of a night. *)
RoundFrames == (FlashDuration * 2) \div FrameMs + 1
NightFrames == InvertFadeDuration \div FrameMs + 1

NewMeter == [units |-> MaxDistanceUnits, shown |-> 0, highScore |-> 0,
             acheivement |-> FALSE, flashTimer |-> 0, flashIterations |-> 0]

(* Of the numbers in the code: the last score before another digit is not one
   that flashes, and the digits flash for less than the way to the next; the
   bound on a run has no more digits than the meter. *)
ASSUME ScoreNumbers ==
    /\ {10^MaxDistanceUnits, 10^(MaxDistanceUnits + 1)} \subseteq Nat
    /\ 0 < 10^MaxDistanceUnits /\ 10^MaxDistanceUnits <= 10^(MaxDistanceUnits + 1)
    /\ 10^MaxDistanceUnits % AchievementDistance = 0
    /\ FramePx * ((FlashIterations + 2) * RoundFrames) <= 40 * (AchievementDistance - 1)
    /\ \A px \in {FramePx} \cup {late.px : late \in LateFrames} :
          Score(MaxRun + px) <= MaxScore(MaxDistanceUnits + 1)

(* A night is longer than the score stands at one number, and over, its moon
   faded, before the next; none begins at the bound on a run. *)
ASSUME NightNumbers ==
    /\ FadeSteps > 1
    /\ FramePx * (NightFrames - 1) >= 40
    /\ FramePx * (NightFrames + FadeSteps) <= 40 * (InvertDistance - 1)
    /\ \A px \in MaxRun .. MaxRun + FramePx : Score(px) % InvertDistance # 0

(* Slip: the flashes are not counted. *)
FlashedOnAndOn(m, dt) ==
    LET timer == m.flashTimer + dt
    IN  IF m.flashIterations > FlashIterations
        THEN [m EXCEPT !.acheivement = FALSE, !.flashIterations = 0, !.flashTimer = 0]
        ELSE [m EXCEPT !.flashTimer = IF timer > FlashDuration * 2 THEN 0 ELSE timer]

(* A frame of the flashing. *)
Flashed(m, dt) ==
    LET timer == m.flashTimer + dt
    IN  IF m.flashIterations > FlashIterations
        THEN [m EXCEPT !.acheivement = FALSE, !.flashIterations = 0, !.flashTimer = 0]
        ELSE IF timer > FlashDuration * 2
             THEN [m EXCEPT !.flashTimer = 0, !.flashIterations = @ + 1]
             ELSE [m EXCEPT !.flashTimer = timer]

(* A frame otherwise: one more digit when the score needs it, for once, and
   an achievement at every so many units. *)
Counted(m, score) ==
    LET units == IF score > MaxScore(m.units) /\ m.units = MaxDistanceUnits
                 THEN m.units + 1 ELSE m.units
        reached == score > 0 /\ score % AchievementDistance = 0
    IN  [m EXCEPT !.units = units, !.shown = Shown(score, units),
                  !.acheivement = reached,
                  !.flashTimer = IF reached THEN 0 ELSE @]

(* update(deltaTime, distance) *)
MeterUpdate(m, dt, px) == IF m.acheivement THEN Flashed(m, dt) ELSE Counted(m, Score(px))

(* gameOver keeps the greater one, *)
Highest(px, highest) == IF px > highest THEN px ELSE highest

(* Slip: the flashing goes on. *)
MeterOverFlashing(m, px) ==
    IF px > highestScore THEN [m EXCEPT !.highScore = Shown(Score(px), m.units)] ELSE m

(* and the meter shows it and stops flashing. *)
MeterOver(m, px) ==
    LET quiet == [m EXCEPT !.acheivement = FALSE]
    IN  IF px > highestScore
        THEN [quiet EXCEPT !.highScore = Shown(Score(px), m.units)] ELSE quiet

(* DistanceMeter.reset(): update(0) and no achievement. *)
MeterReset(m) == [MeterUpdate(m, 0, 0) EXCEPT !.acheivement = FALSE]

------------------------------------------------------------------------------

Day == [timer |-> 0, inverted |-> FALSE, opacity |-> 0, phase |-> 0]

(* NightMode.update(activated): the opacity is a number of steps, which goes
   up and down around its greatest. *)
MoonUpdate(n, activated) ==
    LET phase == IF activated /\ n.opacity = 0 THEN (n.phase + 1) % Phases ELSE n.phase
    IN  [n EXCEPT !.phase = phase,
                  !.opacity = IF activated /\ @ < FadeSteps THEN @ + 1
                              ELSE IF @ > 0 THEN @ - 1 ELSE 0]

(* The end of Runner.update: the night begins at every InvertDistance units
   and lasts InvertFadeDuration. *)
NightUpdate(n, dt, score) ==
    IF n.timer > InvertFadeDuration THEN [n EXCEPT !.timer = 0, !.inverted = FALSE]
    ELSE IF n.timer > 0 THEN [n EXCEPT !.timer = @ + dt]
    ELSE IF score > 0 /\ score % InvertDistance = 0
         THEN [n EXCEPT !.timer = @ + dt, !.inverted = TRUE] ELSE n

(* Slip: the page is bright again but the timer runs on. *)
NightResetTimed(n) == [Day EXCEPT !.timer = n.timer]

(* horizon.reset() and invert(true), as restart() calls them. *)
NightReset(n) == Day

------------------------------------------------------------------------------

MeterInit ==
    /\ run = 0 /\ over = FALSE /\ playing = TRUE /\ meter = NewMeter /\ highestScore = 0
    /\ night = Day /\ best = 0 /\ nights = 0 /\ interrupted = FALSE /\ doubtful = FALSE

(* What update() does to the score, having moved the horizon. *)
Scored(dt, px, m) ==
    LET moon == MoonUpdate(night, night.inverted)
    IN  /\ run' = px
        /\ meter' = MeterUpdate(m, dt, px)
        /\ night' = NightUpdate(moon, dt, Score(px))
        /\ nights' = IF night'.inverted /\ ~night.inverted /\ ~interrupted
                     THEN nights + 1 ELSE nights

(* update() of dt ms and px pixels, *)
GoesOn(dt, px) ==
    /\ playing' = TRUE
    /\ Scored(dt, IF run < MaxRun THEN run + px ELSE run, meter)
    /\ UNCHANGED <<over, highestScore, best, doubtful>>

(* and one that ends in a collision: gameOver() comes first. *)
Crashes(dt) ==
    /\ over' = TRUE /\ playing' = FALSE
    /\ highestScore' = Highest(run, highestScore)
    /\ best' = IF run > best THEN run ELSE best
    /\ doubtful' = IF run > best THEN interrupted ELSE doubtful
    /\ Scored(dt, run, MeterOver(meter, run))

(* A frame, with time since the one before or without. *)
MeterFrame(passed) ==
    /\ playing
    /\ IF passed THEN GoesOn(FrameMs, FramePx) ELSE GoesOn(0, 0)
    /\ UNCHANGED interrupted

MeterGameOver(passed) ==
    /\ playing
    /\ Crashes(IF passed THEN FrameMs ELSE 0)
    /\ UNCHANGED interrupted

(* The page is left: stop(). *)
MeterLeave ==
    /\ playing /\ playing' = FALSE
    /\ UNCHANGED <<run, over, meter, highestScore, night, best, nights, interrupted, doubtful>>

(* The page is looked at again: play() and its update(), of no time. *)
MeterReturn ==
    /\ ~playing /\ ~over
    /\ GoesOn(0, 0) \/ Crashes(0)
    /\ UNCHANGED interrupted

(* A jump key instead, in onKeyDown: its update() is late. *)
MeterKey ==
    /\ ~playing /\ ~over
    /\ \E late \in LateFrames : GoesOn(late.ms, late.px) \/ Crashes(late.ms)
    /\ interrupted' = TRUE

(* adjustDimensions() while a game has begun, which it stops; the horizon is
   redrawn with no night mode passed to it. *)
MeterResize ==
    /\ playing' = FALSE
    /\ meter' = MeterUpdate(meter, 0, run)
    /\ night' = MoonUpdate(night, FALSE)
    /\ interrupted' = TRUE
    /\ UNCHANGED <<run, over, highestScore, best, nights, doubtful>>

(* restart(), with the update() it ends with. *)
MeterRestart ==
    /\ over /\ over' = FALSE /\ playing' = TRUE
    /\ run' = 0
    /\ meter' = MeterUpdate(MeterReset(meter), 0, 0)
    /\ night' = MoonUpdate(NightReset(night), FALSE)
    /\ nights' = 0 /\ interrupted' = FALSE
    /\ UNCHANGED <<highestScore, best, doubtful>>

MeterNext ==
    \/ \E passed \in BOOLEAN : MeterFrame(passed) \/ MeterGameOver(passed)
    \/ MeterLeave \/ MeterReturn \/ MeterKey
    \/ MeterResize
    \/ MeterRestart

(* While the game is played the browser calls frames, and time passes between
   them. *)
MeterFairness == WF_meterVars(MeterFrame(TRUE))

MeterSpec == MeterInit /\ [][MeterNext]_meterVars /\ MeterFairness

------------------------------------------------------------------------------

(* When the game is over the meter shows the score that the upload button will
   send, however the digits were flashing and however late the frames were, and
   the high score is that of the furthest run so far.  Of a furthest run that
   was interrupted it may lack the first digit: a late frame may bring another
   one while the digits flash, and gameOver() stores the high score before the
   meter has grown. *)
CrashIsScored ==
    /\ over => meter.shown = Shown(Score(run), meter.units) /\ Score(run) <= MaxScore(meter.units)
    /\ ~doubtful => meter.highScore = Shown(Score(best), meter.units)

(* A timer that runs to end a night finds the page dark.  In a game that
   nothing interrupted, left and looked at again or not, no page is dark
   without one, and the moon that is up has the phase of this night.  (After a
   late frame from one multiple of InvertDistance to another a frame of no time
   may begin a night whose timer never runs.) *)
NightIsTimed ==
    /\ night.timer > 0 => night.inverted
    /\ ~interrupted /\ night.inverted => night.timer > 0
    /\ ~interrupted /\ night.opacity > 0 => night.phase = nights % Phases

(* The digits stop flashing and the timer ends the night, unless the game stops
   first (DistanceMeter.update, invertTimer in Runner.update). *)
EffectsEnd ==
    /\ meter.acheivement ~> ~meter.acheivement \/ ~playing
    /\ night.timer > 0 ~> ~night.inverted \/ ~playing
==============================================================================
