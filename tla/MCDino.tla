--------------------------------- MODULE MCDino ---------------------------------
(***************************************************************************)
(* The parts of the Dino game beside its control, checked side by side.    *)
(* They share no state (Passing looks at the row of Obstacles on its own), *)
(* so a behaviour is one of one part, and the others keep their first      *)
(* state.                                                                  *)
(***************************************************************************)
EXTENDS Passing, Scenery, Meter, Upload

VARIABLE part

dinoVars == <<part, passingVars, sceneryVars, meterVars, uploadVars>>

(* Frames that move the line by nothing, a pixel or more than half its width,
   and late ones that move it by one or by several widths. *)
MovesDef ==
    {[line |-> 0, clouds |-> 0], [line |-> 1, clouds |-> 1], [line |-> 5, clouds |-> 1]}
LateMovesDef == {[line |-> 9, clouds |-> 1], [line |-> 40, clouds |-> 2]}

(* The time of eleven frames, enough for another digit. *)
LateFramesDef == {[ms |-> 1100, px |-> 286]}

Init ==
    /\ part \in {"obstacles", "passing", "scenery", "meter", "upload"}
    /\ PassingInit
    /\ part # "passing" => speed = FirstSpeed /\ trexX = Min(TrexXs)
    /\ SceneryInit
    /\ part # "scenery" => Last(clouds).gap = Min(CloudGaps)
    /\ MeterInit
    /\ UploadInit

Next ==
    /\ UNCHANGED part
    /\ \/ /\ part = "obstacles" /\ ObstaclesNext
          /\ UNCHANGED <<chances, trexX, passed, sceneryVars, meterVars, uploadVars>>
       \/ /\ part = "passing" /\ PassingFrame
          /\ UNCHANGED <<sceneryVars, meterVars, uploadVars>>
       \/ /\ part = "scenery" /\ SceneryNext
          /\ UNCHANGED <<passingVars, meterVars, uploadVars>>
       \/ /\ part = "meter" /\ MeterNext
          /\ UNCHANGED <<passingVars, sceneryVars, uploadVars>>
       \/ /\ part = "upload" /\ UploadNext
          /\ UNCHANGED <<passingVars, sceneryVars, meterVars>>

(* MeterFairness for the part that has frames to be fair to. *)
Fairness ==
    WF_dinoVars(/\ part = "meter" /\ MeterFrame(TRUE)
                /\ UNCHANGED <<part, passingVars, sceneryVars, uploadVars>>)

Spec == Init /\ [][Next]_dinoVars /\ Fairness
==============================================================================
