-------------------------------- MODULE Scenery --------------------------------
(***************************************************************************)
(* The ground and the clouds of the Dino game (HorizonLine, Cloud and the  *)
(* cloud half of Horizon in dino/index.js).  They share no state with the  *)
(* obstacles, which the same Horizon.update moves.                         *)
(*                                                                         *)
(* A frame moves the line by floor(speed * FPS * dt / 1000) and every      *)
(* cloud by ceil of a far smaller product, so by one pixel as a rule.      *)
(***************************************************************************)
EXTENDS Integers, Sequences, SequencesExt

CONSTANTS
    LineWidth,       \* HorizonLine.dimensions.WIDTH, also the canvas width
    CloudWidth,      \* Cloud.config.WIDTH
    CloudGaps,       \* the gaps that are drawn, of MIN_ .. MAX_CLOUD_GAP
    MaxClouds,       \* Horizon.config.MAX_CLOUDS
    Moves,           \* what frames move the line and the clouds by
    LateMoves,       \* the same for a frame that comes late
    MaxLate          \* bound on late

ASSUME SceneryAssumption ==
    /\ LineWidth \in Nat \ {0}
    /\ CloudWidth \in Nat \ {0} /\ MaxClouds \in Nat \ {0} /\ CloudGaps \subseteq Nat
    /\ Moves \subseteq [line : 0 .. LineWidth, clouds : Nat]
    /\ LateMoves \subseteq [line : Nat, clouds : Nat]
    /\ MaxLate \in Nat

VARIABLES
    xPos,            \* HorizonLine.xPos: where its two pieces begin
    clouds,          \* Horizon.clouds, from left to right: [xPos, gap]
    late             \* history: the frames that late ones give the line to come back

sceneryVars == <<xPos, clouds, late>>

------------------------------------------------------------------------------

(* Slip: a piece that has left is put right of the canvas, not of the other. *)
LineAfterAtEdge(x, line1, increment) ==
    LET line2 == 3 - line1
        moved == x[line1] - increment
    IN  IF moved > -LineWidth
        THEN [x EXCEPT ![line1] = moved, ![line2] = moved + LineWidth]
        ELSE [x EXCEPT ![line1] = LineWidth, ![line2] = moved + LineWidth]

(* updateXPos(pos, increment): a piece that has left goes behind the other. *)
LineAfter(x, line1, increment) ==
    LET line2 == 3 - line1
        moved == x[line1] - increment
    IN  IF moved > -LineWidth
        THEN [x EXCEPT ![line1] = moved, ![line2] = moved + LineWidth]
        ELSE [x EXCEPT ![line1] = moved + 2 * LineWidth, ![line2] = moved + LineWidth]

(* HorizonLine.update: the piece that is left on the canvas leads. *)
LineUpdate(x, increment) ==
    LineAfter(x, IF x[1] <= 0 THEN 1 ELSE 2, increment)

NewClouds == [xPos : {LineWidth}, gap : CloudGaps]

CloudIsDue(row) ==
    Len(row) < MaxClouds /\ LineWidth - Last(row).xPos > Last(row).gap

Visible(cloud) == cloud.xPos + CloudWidth > 0

(* filter: the clouds that do not have to be removed. *)
InSight(row) ==
    LET kept[i \in 0 .. Len(row)] ==
            IF i = 0 THEN <<>>
            ELSE IF Visible(row[i]) THEN Append(kept[i - 1], row[i]) ELSE kept[i - 1]
    IN  kept[Len(row)]

(* updateClouds: a cloud that is due comes with probability CLOUD_FREQUENCY;
   the last one gone, the next comes a frame later. *)
CloudsAfter(step) ==
    LET moved == [i \in DOMAIN clouds |-> [clouds[i] EXCEPT !.xPos = @ - step]]
    IN  IF clouds = <<>> THEN {<<c>> : c \in NewClouds}
        ELSE {InSight(row) :
                 row \in {moved} \cup (IF CloudIsDue(moved)
                                       THEN {Append(moved, c) : c \in NewClouds} ELSE {})}

------------------------------------------------------------------------------

SceneryInit ==
    /\ xPos = <<0, LineWidth>>
    /\ clouds \in {<<c>> : c \in NewClouds}
    /\ late = 0

(* One piece begins left of the canvas and the other where it ends. *)
Covers(x) ==
    \E i \in {1, 2} : -LineWidth <= x[i] /\ x[i] <= 0 /\ x[3 - i] = x[i] + LineWidth

(* Horizon.update; moving nothing it is the redraw after a resize. *)
SceneryFrame(move) ==
    /\ xPos' = LineUpdate(xPos, move.line)
    /\ clouds' \in CloudsAfter(move.clouds)

OnTime ==
    /\ \E move \in Moves : SceneryFrame(move)
    /\ late' = IF late > 0 THEN late - 1 ELSE 0

(* A key starts a game again that a resize had stopped: update() takes the
   whole pause for one frame, which moves the line by some of its widths. *)
Late ==
    \E move \in LateMoves :
        LET widths == move.line \div LineWidth
        IN  /\ late + widths + 1 <= MaxLate
            /\ SceneryFrame(move)
            /\ late' = late + widths + 1

(* Horizon.reset leaves the clouds where they are. *)
SceneryRestart == xPos' = <<0, LineWidth>> /\ late' = 0 /\ UNCHANGED clouds

SceneryNext == OnTime \/ Late \/ SceneryRestart

ScenerySpec == SceneryInit /\ [][SceneryNext]_sceneryVars

------------------------------------------------------------------------------

(* The two pieces of the line follow each other without a gap and cover the
   canvas.  Late frames may leave it uncovered, for no more ordinary frames than
   the widths that each moved the line by and one: however far away the pieces
   are, every further frame brings them nearer by a width at least. *)
LineCoversScreen == late = 0 => Covers(xPos)

(* Clouds keep the gap that was drawn for the one before, there are at most
   MAX_CLOUDS of them, and none that has left the canvas is kept. *)
CloudsApart ==
    /\ Len(clouds) <= MaxClouds
    /\ \A i \in DOMAIN clouds :
          /\ Visible(clouds[i])
          /\ i < Len(clouds) => clouds[i + 1].xPos - clouds[i].xPos > clouds[i].gap

(* The ground and the sky stay in place, and come back when a late frame has
   moved them away. *)
SceneryInPlace == LineCoversScreen /\ CloudsApart
==============================================================================
