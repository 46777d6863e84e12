--------------------------------- MODULE Trex ---------------------------------
(***************************************************************************)
(* The T-rex of the Dino game (Trex in dino/index.js) with the numbers of  *)
(* its configuration: what every method does to the fields that decide     *)
(* where it is and which keys it obeys.  Animation frames are left out.    *)
(*                                                                         *)
(* A length is in pixels, a time in milliseconds, a speed in tenths of a   *)
(* pixel per frame, a velocity in thousandths of a pixel per frame.        *)
(***************************************************************************)
EXTENDS Integers

GroundY == 93           \* HEIGHT 150 - Trex HEIGHT 47 - BOTTOM_PAD 10
MinJumpY == 63          \* groundYPos - MIN_JUMP_HEIGHT
MaxJumpY == 30          \* MAX_JUMP_HEIGHT
JumpVelocity == -10000
DropVelocity == -5000
SpeedDropCoefficient == 3

(* Math.round(n / d), for an even d: halves go up. *)
RoundDiv(n, d) == (n + d \div 2) \div d

(* 1000 / Trex.animFrames[status].msPerFrame *)
FramesPerSecond == [WAITING |-> 3, RUNNING |-> 12, CRASHED |-> 60,
                    JUMPING |-> 60, DUCKING |-> 8]
Statuses == DOMAIN FramesPerSecond

Trexes == [status : Statuses, jumping : BOOLEAN, ducking : BOOLEAN,
           speedDrop : BOOLEAN, reachedMinHeight : BOOLEAN,
           jumpCount : {0, 1}, yPos : Int, jumpVelocity : Int]

NewTrex == [status |-> "WAITING", jumping |-> FALSE, ducking |-> FALSE,
            speedDrop |-> FALSE, reachedMinHeight |-> FALSE,
            jumpCount |-> 0, yPos |-> GroundY, jumpVelocity |-> 0]

------------------------------------------------------------------------------

(* setDuck(true) as update calls it, with speedDrop cleared.  Called on a
   T-rex that ducks already, it makes it run. *)
ToggledDuck(t) ==
    IF t.status # "DUCKING" THEN [t EXCEPT !.status = "DUCKING", !.ducking = TRUE]
    ELSE [t EXCEPT !.status = "RUNNING", !.ducking = FALSE]

(* The end of update: speed drop becomes duck on the ground. *)
Settled(t) ==
    IF t.speedDrop /\ t.yPos = GroundY
    THEN ToggledDuck([t EXCEPT !.speedDrop = FALSE]) ELSE t

(* update(deltaTime, status) *)
WithStatus(t, status) == Settled([t EXCEPT !.status = status])

SetDuck(t, isDucking) ==
    CASE isDucking /\ t.status # "DUCKING" ->
            [WithStatus(t, "DUCKING") EXCEPT !.ducking = TRUE]
      [] ~(isDucking /\ t.status # "DUCKING") /\ t.status = "DUCKING" ->
            [WithStatus(t, "RUNNING") EXCEPT !.ducking = FALSE]
      [] OTHER -> t

StartJump(t, speed) ==
    IF t.jumping THEN t
    ELSE [WithStatus(t, "JUMPING") EXCEPT
            !.jumpVelocity = JumpVelocity - 10 * speed,
            !.jumping = TRUE, !.reachedMinHeight = FALSE, !.speedDrop = FALSE]

EndJump(t) ==
    IF t.reachedMinHeight /\ t.jumpVelocity < DropVelocity
    THEN [t EXCEPT !.jumpVelocity = DropVelocity] ELSE t

SetSpeedDrop(t) == [t EXCEPT !.speedDrop = TRUE, !.jumpVelocity = 1000]

Reset(t) ==
    [WithStatus([t EXCEPT !.yPos = GroundY, !.jumpVelocity = 0,
                          !.jumping = FALSE, !.ducking = FALSE], "RUNNING")
     EXCEPT !.speedDrop = FALSE, !.jumpCount = 0]

(* updateJump(deltaTime): one step of the flight.  frames is framesElapsed in
   thousandths; the gravity is 0.6 pixels per frame and frame. *)
UpdateJump(t, dt) ==
    LET frames == dt * FramesPerSecond[t.status]
        fall == IF t.speedDrop THEN SpeedDropCoefficient ELSE 1
        y == t.yPos + RoundDiv(t.jumpVelocity * fall * frames, 1000000)
        flown == [t EXCEPT !.yPos = y,
                           !.jumpVelocity = @ + (6 * frames) \div 10,
                           !.reachedMinHeight = @ \/ y < MinJumpY \/ t.speedDrop]
        cut == IF y < MaxJumpY \/ t.speedDrop THEN EndJump(flown) ELSE flown
    IN  Settled(IF y > GroundY THEN [Reset(cut) EXCEPT !.jumpCount = @ + 1] ELSE cut)
==============================================================================
