-------------------------------- MODULE Passing --------------------------------
(***************************************************************************)
(* Whether the Dino game can be played: one obstacle after another comes   *)
(* towards the T-rex, and chances is the set of the T-rexes that a player  *)
(* can have made of it without a collision, whichever keys were pressed    *)
(* between the frames.                                                     *)
(***************************************************************************)
EXTENDS Obstacles

CONSTANTS
    StepTime,        \* the milliseconds between two frames
    TrexXs,          \* where the T-rex may stand after the intro
    Comers           \* how many obstacles come

VARIABLES
    chances,         \* the T-rexes that have hit nothing
    trexX,           \* Trex.xPos
    passed           \* how many obstacles have left the canvas

passingVars == <<obstacleVars, chances, trexX, passed>>

(* What one key between two frames makes of a T-rex (onKeyDown, onKeyUp).  The
   player presses the duck key once in a jump and does not cut a jump short. *)
AfterKey(t) ==
    {t} \cup (IF t.jumping \/ t.ducking THEN {} ELSE {StartJump(t, speed)})
        \cup (IF t.jumping /\ ~t.speedDrop THEN {SetSpeedDrop(t)} ELSE {})
        \cup (IF t.jumping THEN {} ELSE {SetDuck(t, ~t.ducking)})

(* The T-rex half of a frame. *)
AfterFrame(t) == IF t.jumping THEN Settled(UpdateJump(t, StepTime)) ELSE Settled(t)

Survivors(o) ==
    {u \in {AfterFrame(t) : t \in UNION {AfterKey(t) : t \in chances}} :
        ~Collides(o, u, trexX)}

PassingInit ==
    /\ speed \in Speeds
    /\ trexX \in TrexXs
    /\ obstacles = <<>> /\ history = <<>> /\ quick = FALSE
    /\ chances = {[NewTrex EXCEPT !.status = "RUNNING"]}
    /\ passed = 0

(* One frame of update(): the T-rex moves, then the obstacles, then the first
   of these is checked. *)
PassingFrame ==
    /\ passed < Comers
    /\ LET row == Forward(obstacles, 100 * StepTime, speed)
           due == NextIsDue(row) /\ passed + Len(row) < Comers
       IN  /\ \/ ~due /\ obstacles' = row /\ UNCHANGED history
              \/ /\ due
                 /\ \E type \in NextTypes(history, speed) :
                      \E o \in NewObstacles(type, speed) :
                         /\ o.gap = MinGap(type, o.size, speed)
                         /\ obstacles' = Followed(row, o)
                         /\ history' = Remember(type, history)
           /\ passed' = passed + Len(obstacles) - Len(row)
    /\ chances' = IF obstacles' = <<>> THEN chances ELSE Survivors(obstacles'[1])
    /\ UNCHANGED <<speed, quick, trexX>>

PassingSpec == PassingInit /\ [][PassingFrame]_passingVars

(* Some play survives: whatever obstacle comes after whatever other one, at
   every speed the right keys at the right time bring the T-rex past both. *)
CanBePassed == chances # {}
==============================================================================
