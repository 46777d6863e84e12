------------------------------- MODULE Obstacles -------------------------------
(***************************************************************************)
(* The obstacles of the Dino game (Obstacle and the obstacle half of       *)
(* Horizon in dino/index.js) on a canvas of the default width, and the     *)
(* collision check, with the numbers of the code: lengths in pixels, times *)
(* in hundredths of a millisecond, speeds in tenths of a pixel per frame.  *)
(*                                                                         *)
(* Of the gaps that getRandomNum can draw the model takes the shortest and *)
(* the longest.  quick, born and idle are history: a frame of this game    *)
(* was shorter than Steady, the speed of the game when an obstacle was     *)
(* made, and that it was made by the redraw that follows a resize, which   *)
(* takes the speed to be zero.                                             *)
(***************************************************************************)
EXTENDS Trex, Sequences, FiniteSetsExt

CONSTANTS
    Speeds,          \* the speeds at which the game is looked at
    Sizes,           \* the sizes that are drawn, of 1 .. MAX_OBSTACLE_LENGTH
    FrameTimes       \* the times between two frames

ASSUME ObstaclesAssumption ==
    /\ Speeds \subseteq 60 .. 130 /\ 60 \in Speeds
    /\ Sizes \subseteq 1 .. 3
    /\ FrameTimes \subseteq Nat

VARIABLES
    obstacles,       \* Horizon.obstacles, from left to right
    history,         \* Horizon.obstacleHistory, the last type first
    speed,           \* Runner.currentSpeed
    quick            \* history

obstacleVars == <<obstacles, history, speed, quick>>

FirstSpeed == 60               \* SPEED
Width == 600                   \* DEFAULT_WIDTH
MaxDuplication == 2            \* MAX_OBSTACLE_DUPLICATION

(* The speed grows by a hundredth of a tenth in every frame, so by less than
   this while an obstacle crosses the canvas, or until the first one comes. *)
Growth == 10

(* In frames of this time or more, 170 in a second, a pterodactyl moves by one
   pixel in three more than a cactus at most, of which each frame takes whole
   ones. *)
Steady == 589

Box(x, y, w, h) == [x |-> x, y |-> y, w |-> w, h |-> h]

(* Obstacle.types *)
Types ==
    [CACTUS_SMALL |->
        [width |-> 17, height |-> 35, yPos |-> {105}, multipleSpeed |-> 40,
         minGap |-> 120, minSpeed |-> 0, speedOffsets |-> {0},
         boxes |-> <<Box(0, 7, 5, 27), Box(4, 0, 6, 34), Box(10, 4, 7, 14)>>],
     CACTUS_LARGE |->
        [width |-> 25, height |-> 50, yPos |-> {90}, multipleSpeed |-> 70,
         minGap |-> 120, minSpeed |-> 0, speedOffsets |-> {0},
         boxes |-> <<Box(0, 12, 7, 38), Box(8, 0, 7, 49), Box(13, 10, 10, 38)>>],
     PTERODACTYL |->
        [width |-> 46, height |-> 40, yPos |-> {100, 75, 50}, multipleSpeed |-> 9990,
         minGap |-> 150, minSpeed |-> 85, speedOffsets |-> {8, -8},
         boxes |-> <<Box(15, 15, 16, 5), Box(18, 21, 24, 6), Box(2, 14, 4, 3),
                     Box(6, 10, 4, 7), Box(10, 8, 6, 9)>>]]

ObstacleWidth(o) == Types[o.type].width * o.size

IsVisible(o) == o.xPos + ObstacleWidth(o) > 0

------------------------------------------------------------------------------
(* The collision check.                                                    *)

(* Slip: one of the four sides is forgotten. *)
BoxCompareThreeSides(a, b) ==
    a.x < b.x + b.w /\ a.x + a.w > b.x /\ a.y < b.y + b.h

(* boxCompare *)
BoxCompare(a, b) ==
    /\ a.x < b.x + b.w /\ a.x + a.w > b.x
    /\ a.y < b.y + b.h /\ a.h + a.y > b.y

(* createAdjustedCollisionBox *)
Adjusted(box, origin) == [box EXCEPT !.x = @ + origin.x, !.y = @ + origin.y]

(* Trex.collisionBoxes *)
TrexBoxes(t) ==
    IF t.ducking THEN {Box(1, 18, 55, 25)}
    ELSE {Box(22, 0, 17, 16), Box(1, 18, 30, 9), Box(10, 35, 14, 8),
          Box(1, 24, 29, 5), Box(5, 30, 21, 4), Box(9, 34, 15, 4)}

(* The boxes of an obstacle.  For a group the second one is widened and the
   third moved to the end. *)
ObstacleBoxes(o) ==
    LET boxes == Types[o.type].boxes
        middle == ObstacleWidth(o) - boxes[1].w - boxes[3].w
        end == ObstacleWidth(o) - boxes[3].w
    IN  IF o.size = 1 THEN {boxes[i] : i \in DOMAIN boxes}
        ELSE {boxes[1], [boxes[2] EXCEPT !.w = middle], [boxes[3] EXCEPT !.x = end]}

(* checkForCollision(obstacle, tRex) for a T-rex whose xPos is x. *)
Collides(o, t, x) ==
    LET tRexBox == Box(x + 1, t.yPos + 1, 42, 45)
        obstacleBox == Box(o.xPos + 1, o.yPos + 1,
                           ObstacleWidth(o) - 2, Types[o.type].height - 2)
    IN  /\ BoxCompare(tRexBox, obstacleBox)
        /\ \E a \in TrexBoxes(t), b \in ObstacleBoxes(o) :
              BoxCompare(Adjusted(a, tRexBox), Adjusted(b, obstacleBox))

------------------------------------------------------------------------------
(* The row of obstacles.                                                   *)

(* The shortest gap that getGap draws from. *)
MinGap(type, size, v) ==
    RoundDiv(Types[type].width * size * v + Types[type].minGap * 6, 10)

(* Groups are allowed from some speed on. *)
AllowedSize(type, drawn, v) == IF Types[type].multipleSpeed > v THEN 1 ELSE drawn

(* What the constructor and init(v) of an obstacle of this type can make. *)
NewObstacles(type, v) ==
    UNION {LET size == AllowedSize(type, drawn, v)
               gap == MinGap(type, size, v)
           IN  [type : {type}, size : {size}, yPos : Types[type].yPos,
                xPos : {Width + Types[type].width},
                gap : {gap, RoundDiv(gap * 3, 2)},
                speedOffset : Types[type].speedOffsets,
                remove : {FALSE}, followed : {FALSE},
                born : {speed}, idle : {v = 0}]
           : drawn \in Sizes}

(* Slip: the first entry of the history is not looked at. *)
DuplicateAfterThree(type, past) ==
    Len(past) > MaxDuplication /\ \A i \in DOMAIN past : past[i] = type

(* duplicateObstacleCheck: the count starts again at every other type, so it
   ends as the length of the run of this type the history ends with. *)
Duplicate(type, past) ==
    /\ Len(past) >= MaxDuplication
    /\ \A i \in Len(past) - MaxDuplication + 1 .. Len(past) : past[i] = type

(* addNewObstacle draws until a type may appear. *)
NextTypes(past, v) ==
    {type \in DOMAIN Types : ~Duplicate(type, past) /\ v >= Types[type].minSpeed}

Remember(type, past) == SubSeq(<<type>> \o past, 1,
                               IF Len(past) < MaxDuplication THEN Len(past) + 1
                               ELSE MaxDuplication)

(* Obstacle.update *)
Moved(o, dt, v) ==
    LET x == o.xPos - ((v + o.speedOffset) * 6 * dt) \div 100000
        there == [o EXCEPT !.xPos = x]
    IN  IF o.remove THEN o ELSE [there EXCEPT !.remove = ~IsVisible(there)]

(* Slip: what left the canvas stays in the row. *)
ForwardKeeping(row, dt, v) == [i \in DOMAIN row |-> Moved(row[i], dt, v)]

(* The first half of updateObstacles: as many are taken from the front as have
   left the canvas. *)
Forward(row, dt, v) ==
    LET moved == [i \in DOMAIN row |-> Moved(row[i], dt, v)]
        gone == Cardinality({i \in DOMAIN moved : moved[i].remove})
    IN  SubSeq(moved, gone + 1, Len(moved))

(* The second half asks for one more when the last one has left its gap. *)
NextIsDue(row) ==
    \A i \in DOMAIN row : i = Len(row) =>
        /\ ~row[i].followed /\ IsVisible(row[i])
        /\ row[i].xPos + ObstacleWidth(row[i]) + row[i].gap < Width

Followed(row, o) ==
    Append([i \in DOMAIN row |->
              IF i = Len(row) THEN [row[i] EXCEPT !.followed = TRUE] ELSE row[i]], o)

(* updateObstacles(dt, v) *)
UpdateObstacles(dt, v) ==
    LET row == Forward(obstacles, dt, v)
    IN  \/ ~NextIsDue(row) /\ obstacles' = row /\ UNCHANGED history
        \/ /\ NextIsDue(row)
           /\ \E type \in NextTypes(history, v) : \E o \in NewObstacles(type, v) :
                 /\ obstacles' = Followed(row, o)
                 /\ history' = Remember(type, history)

------------------------------------------------------------------------------

ObstaclesInit ==
    /\ obstacles = <<>> /\ history = <<>>
    /\ speed = FirstSpeed /\ quick = FALSE

(* A frame once CLEAR_TIME has passed; a second loop in it takes no time. *)
ObstaclesFrame ==
    \E dt \in FrameTimes :
        /\ UpdateObstacles(dt, speed)
        /\ quick' = (quick \/ (dt > 0 /\ dt < Steady))
        /\ UNCHANGED speed

(* adjustDimensions() redraws the horizon with horizon.update(0, 0, true). *)
ObstaclesResize == UpdateObstacles(0, 0) /\ UNCHANGED <<speed, quick>>

(* The speed grows a little in every frame. *)
Accelerate ==
    /\ \E v \in Speeds :
          /\ v > speed /\ speed' = v
          /\ \A i \in DOMAIN obstacles : v - obstacles[i].born <= Growth
          /\ obstacles = <<>> => v - FirstSpeed <= Growth
    /\ UNCHANGED <<obstacles, history, quick>>

(* restart(): horizon.reset() empties the row and keeps the history. *)
ObstaclesRestart ==
    /\ obstacles' = <<>> /\ speed' = FirstSpeed /\ quick' = FALSE
    /\ UNCHANGED history

ObstaclesNext == ObstaclesFrame \/ ObstaclesResize \/ Accelerate \/ ObstaclesRestart

ObstaclesSpec == ObstaclesInit /\ [][ObstaclesNext]_obstacleVars

------------------------------------------------------------------------------

(* The row is in order and holds nothing that has left the canvas, though
   updateObstacles takes as many from its front as have left, whichever they
   are; a pterodactyl is faster or slower than the cacti around it. *)
RowInOrder ==
    \A i \in DOMAIN obstacles :
        /\ IsVisible(obstacles[i]) /\ ~obstacles[i].remove
        /\ i < Len(obstacles) =>
              obstacles[i].xPos + ObstacleWidth(obstacles[i]) <= obstacles[i + 1].xPos

(* update() looks for a collision with the first obstacle alone.  Nothing is
   missed, the others being to the right of the T-rex (which stands at 50 at
   most and is 44 wide), unless the obstacle before was made by a resize. *)
OnlyFirstIsNear ==
    \A i \in 2 .. Len(obstacles) :
        obstacles[i].xPos >= 50 + 44 \/ \E j \in 1 .. i - 1 : obstacles[j].idle

(* The row is what update() takes it for, in a game on a canvas of the default
   width whose frames are none of them shorter than Steady, such as 144 or 60 in
   a second.  (In shorter ones a cactus loses so much of its way to the whole
   pixels that a pterodactyl behind it may overtake it.) *)
RowInPlace == ~quick => RowInOrder /\ OnlyFirstIsNear

(* No three obstacles of a row are alike (MAX_OBSTACLE_DUPLICATION). *)
NoThreeAlike ==
    \A i \in 1 .. Len(obstacles) - 2 :
        Cardinality({obstacles[j].type : j \in i .. i + 2}) > 1
==============================================================================
