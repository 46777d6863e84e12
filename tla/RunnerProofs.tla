------------------------------ MODULE RunnerProofs ------------------------------
(***************************************************************************)
(* Theorems about Runner for every set of elapsed times, every speed and   *)
(* every bound on games, returns and resizes.                              *)
(***************************************************************************)
EXTENDS Runner, TLAPS

(* A T-rex in order: it ducks with the status that goes with it, and a speed
   drop is part of a jump.  Together with ~resumed this makes DuckCanBeReleased
   inductive. *)
InOrder(t) == /\ t.ducking => t.status = "DUCKING"
              /\ t.speedDrop => t.jumping

LEMMA TrexNumbers ==
    /\ GroundY \in Int /\ MinJumpY \in Int /\ MaxJumpY \in Int
    /\ JumpVelocity \in Int /\ DropVelocity \in Int /\ SpeedDropCoefficient \in Int
  BY DEF GroundY, MinJumpY, MaxJumpY, JumpVelocity, DropVelocity, SpeedDropCoefficient

LEMMA StatusNames ==
    Statuses = {"WAITING", "RUNNING", "CRASHED", "JUMPING", "DUCKING"}
  BY DEF Statuses, FramesPerSecond

LEMMA FramesType == \A s \in Statuses : FramesPerSecond[s] \in Int
  BY DEF Statuses, FramesPerSecond

(* Integer division by the two divisors of UpdateJump. *)
LEMMA RoundDivType == \A n \in Int : RoundDiv(n, 1000000) \in Int
  BY SMT DEF RoundDiv

LEMMA ToggledDuckType ==
    ASSUME NEW t \in Trexes, t.speedDrop = FALSE
    PROVE  /\ ToggledDuck(t) \in Trexes
           /\ ToggledDuck(t).speedDrop = FALSE
           /\ ToggledDuck(t).jumpCount = t.jumpCount
           /\ ToggledDuck(t).ducking => ToggledDuck(t).status = "DUCKING"
  BY StatusNames DEF ToggledDuck, Trexes

LEMMA SettledType ==
    ASSUME NEW t \in Trexes
    PROVE  /\ Settled(t) \in Trexes
           /\ Settled(t).jumpCount = t.jumpCount
           /\ Settled(t).jumping = t.jumping
           /\ InOrder(t) => InOrder(Settled(t))
           /\ Settled(t).ducking => Settled(t).status = "DUCKING" \/ t.ducking
           /\ ~t.speedDrop => Settled(t) = t
           /\ t.yPos = GroundY => ~Settled(t).speedDrop
  BY StatusNames DEF Settled, ToggledDuck, Trexes, InOrder

LEMMA WithStatusType ==
    ASSUME NEW t \in Trexes, NEW s \in Statuses
    PROVE  /\ WithStatus(t, s) \in Trexes
           /\ WithStatus(t, s).jumpCount = t.jumpCount
           /\ WithStatus(t, s).jumping = t.jumping
           /\ ~t.speedDrop => WithStatus(t, s) = [t EXCEPT !.status = s]
<1> DEFINE u == [t EXCEPT !.status = s]
<1>1. u \in Trexes /\ u.jumpCount = t.jumpCount /\ u.jumping = t.jumping
      /\ u.speedDrop = t.speedDrop
  BY DEF Trexes
<1> QED BY <1>1, SettledType DEF WithStatus

LEMMA SetDuckType ==
    ASSUME NEW t \in Trexes, NEW isDucking \in BOOLEAN
    PROVE  /\ SetDuck(t, isDucking) \in Trexes
           /\ InOrder(t) /\ ~t.speedDrop => InOrder(SetDuck(t, isDucking))
<1>1. WithStatus(t, "DUCKING") \in Trexes /\ WithStatus(t, "RUNNING") \in Trexes
  BY WithStatusType, StatusNames
<1>2. SetDuck(t, isDucking) \in Trexes
  BY <1>1 DEF SetDuck, Trexes
<1>3. ASSUME InOrder(t), ~t.speedDrop
      PROVE  InOrder(SetDuck(t, isDucking))
  <2>1. /\ WithStatus(t, "DUCKING") = [t EXCEPT !.status = "DUCKING"]
        /\ WithStatus(t, "RUNNING") = [t EXCEPT !.status = "RUNNING"]
    BY <1>3, WithStatusType, StatusNames
  <2>2. CASE isDucking /\ t.status # "DUCKING"
    BY <1>3, <2>1, <2>2 DEF SetDuck, Trexes, InOrder
  <2>3. CASE ~(isDucking /\ t.status # "DUCKING") /\ t.status = "DUCKING"
    BY <1>3, <2>1, <2>3 DEF SetDuck, Trexes, InOrder
  <2>4. CASE ~(isDucking /\ t.status # "DUCKING") /\ t.status # "DUCKING"
    BY <1>3, <2>4 DEF SetDuck
  <2> QED BY <2>2, <2>3, <2>4
<1> QED BY <1>2, <1>3

LEMMA StartJumpType ==
    ASSUME NEW t \in Trexes
    PROVE  /\ StartJump(t, Speed) \in Trexes
           /\ InOrder(t) /\ ~t.ducking /\ ~t.jumping => InOrder(StartJump(t, Speed))
<1>1. WithStatus(t, "JUMPING") \in Trexes
  BY WithStatusType, StatusNames
<1>2. JumpVelocity - 10 * Speed \in Int
  BY RunnerAssumption, TrexNumbers
<1>3. StartJump(t, Speed) \in Trexes
  BY <1>1, <1>2 DEF StartJump, Trexes
<1>4. ASSUME InOrder(t), ~t.ducking, ~t.jumping
      PROVE  InOrder(StartJump(t, Speed))
  <2>1. WithStatus(t, "JUMPING") = [t EXCEPT !.status = "JUMPING"]
    BY <1>4, WithStatusType, StatusNames DEF InOrder
  <2>2. StartJump(t, Speed).ducking = t.ducking /\ StartJump(t, Speed).speedDrop = FALSE
    BY <1>4, <2>1 DEF StartJump, Trexes
  <2> QED BY <1>4, <2>2 DEF InOrder
<1> QED BY <1>3, <1>4

LEMMA EndJumpType ==
    ASSUME NEW t \in Trexes
    PROVE  /\ EndJump(t) \in Trexes
           /\ EndJump(t).jumpCount = t.jumpCount
           /\ InOrder(t) => InOrder(EndJump(t))
  BY TrexNumbers DEF EndJump, Trexes, InOrder

LEMMA VelocityType ==
    ASSUME NEW t \in Trexes, NEW v \in Int
    PROVE  [t EXCEPT !.jumpVelocity = v] \in Trexes
  BY DEF Trexes

LEMMA SetSpeedDropType ==
    ASSUME NEW t \in Trexes
    PROVE  /\ SetSpeedDrop(t) \in Trexes
           /\ InOrder(t) /\ t.jumping => InOrder(SetSpeedDrop(t))
<1>1. SetSpeedDrop(t) \in Trexes
  <2> DEFINE u == [t EXCEPT !.speedDrop = TRUE]
  <2>1. u \in Trexes
    BY DEF Trexes
  <2> HIDE DEF u
  <2>2. [u EXCEPT !.jumpVelocity = 1000] \in Trexes
    BY <2>1, VelocityType
  <2> QED BY <2>2 DEF SetSpeedDrop, u
<1>2. /\ SetSpeedDrop(t).jumping = t.jumping /\ SetSpeedDrop(t).ducking = t.ducking
      /\ SetSpeedDrop(t).status = t.status
  BY DEF SetSpeedDrop, Trexes
<1> QED BY <1>1, <1>2 DEF InOrder

(* Whatever the T-rex was doing, a reset leaves it in order. *)
LEMMA ResetType ==
    ASSUME NEW t \in Trexes
    PROVE  /\ Reset(t) \in Trexes
           /\ Reset(t).jumpCount = 0
           /\ InOrder(Reset(t))
<1> DEFINE u == [t EXCEPT !.yPos = GroundY, !.jumpVelocity = 0,
                          !.jumping = FALSE, !.ducking = FALSE]
           v == [u EXCEPT !.status = "RUNNING"]
<1>1. u \in Trexes
  <2> DEFINE w == [t EXCEPT !.yPos = GroundY]
             x == [w EXCEPT !.jumpVelocity = 0]
  <2>1. w \in Trexes
    BY TrexNumbers DEF Trexes
  <2> HIDE DEF w
  <2>2. x \in Trexes
    BY <2>1, VelocityType
  <2>3. u = [x EXCEPT !.jumping = FALSE, !.ducking = FALSE]
    BY DEF w
  <2> HIDE DEF x
  <2>4. [x EXCEPT !.jumping = FALSE, !.ducking = FALSE] \in Trexes
    BY <2>2 DEF Trexes
  <2> QED BY <2>3, <2>4
<1>2. v \in Trexes /\ v.ducking = FALSE
  BY <1>1, StatusNames, TrexNumbers DEF Trexes
<1>3. WithStatus(u, "RUNNING") = Settled(v)
  BY DEF WithStatus
<1> HIDE DEF u, v
<1>4. /\ Settled(v) \in Trexes
      /\ Settled(v).ducking => Settled(v).status = "DUCKING"
  BY <1>2, SettledType
<1>5. Reset(t) = [Settled(v) EXCEPT !.speedDrop = FALSE, !.jumpCount = 0]
  BY <1>3 DEF Reset, u
<1> QED BY <1>4, <1>5 DEF Trexes, InOrder

LEMMA UpdateJumpType ==
    ASSUME NEW t \in Trexes, NEW dt \in Nat
    PROVE  /\ UpdateJump(t, dt) \in Trexes
           /\ InOrder(t) => InOrder(UpdateJump(t, dt))
<1> DEFINE frames == dt * FramesPerSecond[t.status]
           fall == IF t.speedDrop THEN SpeedDropCoefficient ELSE 1
           y == t.yPos + RoundDiv(t.jumpVelocity * fall * frames, 1000000)
           flown == [t EXCEPT !.yPos = y,
                              !.jumpVelocity = @ + (6 * frames) \div 10,
                              !.reachedMinHeight = @ \/ y < MinJumpY \/ t.speedDrop]
           cut == IF y < MaxJumpY \/ t.speedDrop THEN EndJump(flown) ELSE flown
           landed == IF y > GroundY THEN [Reset(cut) EXCEPT !.jumpCount = @ + 1] ELSE cut
<1>1. t.status \in Statuses /\ t.jumpVelocity \in Int /\ t.yPos \in Int
  BY DEF Trexes
<1>2. frames \in Int
  BY <1>1, FramesType
<1>3. fall \in Int
  BY TrexNumbers
<1> HIDE DEF frames, fall
<1>4. t.jumpVelocity * fall * frames \in Int
  BY <1>1, <1>2, <1>3
<1>5. y \in Int
  BY <1>1, <1>4, RoundDivType
<1>6. t.jumpVelocity + (6 * frames) \div 10 \in Int
  BY <1>1, <1>2, SMT
<1> HIDE DEF y
<1>7. flown \in Trexes /\ (InOrder(t) => InOrder(flown))
  BY <1>5, <1>6, TrexNumbers DEF Trexes, InOrder
<1> HIDE DEF flown
<1>8. cut \in Trexes /\ (InOrder(t) => InOrder(cut))
  BY <1>7, EndJumpType
<1> HIDE DEF cut
<1>9. landed \in Trexes /\ (InOrder(t) => InOrder(landed))
  BY <1>8, ResetType DEF Trexes, InOrder
<1>10. UpdateJump(t, dt) = Settled(landed)
  BY DEF UpdateJump, landed, cut, flown, y, fall, frames
<1> HIDE DEF landed
<1> QED BY <1>9, <1>10, SettledType

------------------------------------------------------------------------------

(* What holds of the game between any two calls of its methods. *)
Sound(g) ==
    /\ g \in Games
    /\ g.popups = IF g.crashed THEN 1 ELSE 0
    /\ g.crashed => ~g.playing /\ ~g.raq /\ ~g.listening /\ g.activated /\ g.visibility
    /\ ~g.raq => ~g.current
    /\ g.intro <=> g.playingIntro
    /\ g.visibility <=> g.playCount > 0
    /\ g.activated <=> g.playingIntro \/ g.visibility
    /\ g.distance > 0 => g.activated
    /\ ~g.crashed /\ ~g.resumed => InOrder(g.trex)

(* The frames the browser still has to call. *)
Load(g) == g.strays + (IF g.current THEN 1 ELSE 0)

(* What update() needs, and what it leaves. *)
Ready(g) ==
    /\ ~g.playing => ~g.current /\ (~g.activated => g.strays = 0)
    /\ ~g.activated => Load(g) <= 1

Framed(g) ==
    /\ g.playing => g.current /\ g.raq /\ g.updatePending
    /\ ~g.playing /\ g.current => ~g.activated /\ g.strays = 0
    /\ ~g.activated => g.strays <= 1

(* The fields that a method of the T-rex leaves alone. *)
SameControl(r, g) ==
    /\ r.playing = g.playing /\ r.crashed = g.crashed /\ r.activated = g.activated
    /\ r.playingIntro = g.playingIntro /\ r.visibility = g.visibility
    /\ r.current = g.current /\ r.raq = g.raq /\ r.strays = g.strays
    /\ r.updatePending = g.updatePending /\ r.left = g.left
    /\ r.distance = g.distance /\ r.resumed = g.resumed

LEMMA AtMostType ==
    ASSUME NEW b \in Nat, NEW n \in Nat
    PROVE  AtMost(b, n) \in 0 .. b /\ (n <= b => AtMost(b, n) = n)
  BY DEF AtMost

(* Changing the T-rex for one as good keeps the game sound. *)
LEMMA TrexSound ==
    ASSUME NEW g, Sound(g), NEW t \in Trexes,
           ~g.crashed /\ ~g.resumed => InOrder(t)
    PROVE  Sound([g EXCEPT !.trex = t]) /\ SameControl([g EXCEPT !.trex = t], g)
<1> DEFINE r == [g EXCEPT !.trex = t]
<1>1. r \in Games
  BY DEF Sound, Games
<1>2. SameControl(r, g) /\ r.trex = t /\ r.popups = g.popups /\ r.intro = g.intro
      /\ r.playCount = g.playCount /\ r.listening = g.listening
  BY DEF Sound, Games, SameControl
<1> HIDE DEF r
<1>3. Sound(r)
  BY <1>1, <1>2 DEF Sound, SameControl
<1> QED BY <1>2, <1>3 DEF r

LEMMA TRexUpdatedSound ==
    ASSUME NEW g, Sound(g), NEW blink \in BOOLEAN
    PROVE  Sound(TRexUpdated(g, blink)) /\ SameControl(TRexUpdated(g, blink), g)
<1> DEFINE h == [g EXCEPT !.trex = Settled(@)]
           b == IF blink /\ g.trex.status = "WAITING"
                THEN AtMost(MaxBlinkCount, g.blinks + 1) ELSE g.blinks
           r == [h EXCEPT !.blinks = b]
<1>1. g \in Games /\ g.trex \in Trexes /\ g.blinks \in Nat
  BY DEF Sound, Games
<1>2. Sound(h) /\ SameControl(h, g)
  BY <1>1, TrexSound, SettledType DEF Sound
<1>3. b \in Nat
  BY <1>1, AtMostType, RunnerAssumption
<1>4. h.blinks = g.blinks
  BY <1>1 DEF Games
<1>5. TRexUpdated(g, blink) = r
  BY <1>1, <1>4 DEF TRexUpdated, Games
<1> HIDE DEF h, b
<1>6. r \in Games
  BY <1>2, <1>3 DEF Sound, Games
<1>7. SameControl(r, h) /\ r.trex = h.trex /\ r.popups = h.popups /\ r.intro = h.intro
      /\ r.playCount = h.playCount /\ r.listening = h.listening
  BY <1>2 DEF Sound, Games, SameControl
<1> HIDE DEF r
<1>8. Sound(r)
  BY <1>2, <1>6, <1>7 DEF Sound, SameControl
<1>9. SameControl(r, g)
  BY <1>2, <1>7 DEF SameControl
<1> QED BY <1>5, <1>8, <1>9

LEMMA StopSound ==
    ASSUME NEW g, Sound(g)
    PROVE  /\ Sound(Stop(g))
           /\ ~Stop(g).playing /\ ~Stop(g).current /\ ~Stop(g).raq
           /\ Stop(g).crashed = g.crashed /\ Stop(g).activated = g.activated
           /\ Stop(g).visibility = g.visibility /\ Stop(g).playingIntro = g.playingIntro
           /\ Stop(g).strays = g.strays /\ Stop(g).left = g.left
           /\ Stop(g).distance = g.distance /\ Stop(g).updatePending = g.updatePending
           /\ Stop(g).popups = g.popups
<1> DEFINE r == Stop(g)
<1>1. r \in Games
  BY DEF Sound, Games, Stop
<1>2. /\ ~r.playing /\ ~r.current /\ ~r.raq
      /\ r.crashed = g.crashed /\ r.activated = g.activated
      /\ r.visibility = g.visibility /\ r.playingIntro = g.playingIntro
      /\ r.strays = g.strays /\ r.left = g.left
      /\ r.distance = g.distance /\ r.updatePending = g.updatePending
      /\ r.popups = g.popups
      /\ r.trex = g.trex /\ r.intro = g.intro /\ r.resumed = g.resumed
      /\ r.playCount = g.playCount /\ r.listening = g.listening
  BY DEF Sound, Games, Stop
<1> HIDE DEF r
<1>3. Sound(r)
  BY <1>1, <1>2 DEF Sound
<1> QED BY <1>2, <1>3 DEF r

LEMMA ScheduleSound ==
    ASSUME NEW g, Sound(g), ~g.updatePending, ~g.crashed
    PROVE  /\ Sound(Schedule(g))
           /\ Schedule(g).current /\ Schedule(g).raq /\ Schedule(g).updatePending
           /\ Schedule(g).playing = g.playing /\ Schedule(g).activated = g.activated
           /\ Schedule(g).strays = Load(g)
           /\ Schedule(g).left = g.left /\ Schedule(g).distance = g.distance
<1> DEFINE r == Schedule(g)
<1>1. r \in Games
  <2> DEFINE n == IF g.current THEN g.strays + 1 ELSE g.strays
             f == [g EXCEPT !.updatePending = TRUE, !.raq = TRUE, !.current = TRUE]
  <2>1. g \in Games /\ n \in Nat
    BY DEF Sound, Games
  <2>2. r = [f EXCEPT !.strays = n]
    BY <2>1 DEF Schedule, Games
  <2>3. f \in Games
    BY <2>1 DEF Games
  <2> HIDE DEF r, n, f
  <2> QED BY <2>1, <2>2, <2>3 DEF Games
<1>2. /\ r.current /\ r.raq /\ r.updatePending
      /\ r.playing = g.playing /\ r.activated = g.activated
      /\ r.strays = Load(g)
      /\ r.left = g.left /\ r.distance = g.distance
      /\ r.crashed = g.crashed /\ r.popups = g.popups
      /\ r.visibility = g.visibility /\ r.playingIntro = g.playingIntro
      /\ r.trex = g.trex /\ r.intro = g.intro /\ r.resumed = g.resumed
      /\ r.playCount = g.playCount /\ r.listening = g.listening
  BY DEF Sound, Games, Schedule, Load
<1> HIDE DEF r
<1>3. Sound(r)
  BY <1>1, <1>2 DEF Sound
<1> QED BY <1>2, <1>3 DEF r

LEMMA PlayIntroSound ==
    ASSUME NEW g, Sound(g)
    PROVE  /\ Sound(PlayIntro(g))
           /\ PlayIntro(g).strays = g.strays /\ PlayIntro(g).left = g.left
           /\ PlayIntro(g).distance = g.distance /\ PlayIntro(g).current = g.current
           /\ PlayIntro(g).updatePending = g.updatePending
           /\ g.playing => PlayIntro(g).playing
           /\ g.activated => PlayIntro(g).activated
<1> DEFINE r == PlayIntro(g)
<1>1. CASE g.activated \/ g.crashed
  BY <1>1 DEF PlayIntro
<1>2. CASE ~(g.activated \/ g.crashed)
  <2>1. r \in Games
    BY <1>2 DEF Sound, Games, PlayIntro
  <2>2. /\ r.playing /\ r.activated /\ r.playingIntro /\ r.intro
        /\ r.current = g.current /\ r.raq = g.raq /\ r.updatePending = g.updatePending
        /\ r.strays = g.strays
        /\ r.left = g.left /\ r.distance = g.distance
        /\ r.crashed = g.crashed /\ r.popups = g.popups /\ r.visibility = g.visibility
        /\ r.trex = g.trex /\ r.resumed = g.resumed
        /\ r.playCount = g.playCount /\ r.listening = g.listening
    BY <1>2 DEF Sound, Games, PlayIntro
  <2> HIDE DEF r
  <2>3. Sound(r)
    BY <1>2, <2>1, <2>2 DEF Sound
  <2> QED BY <2>2, <2>3 DEF r
<1> QED BY <1>1, <1>2

(* The game over of a game that plays on after its intro. *)
LEMMA GameOverSound ==
    ASSUME NEW g, Sound(g), g.playing, g.activated, ~g.playingIntro
    PROVE  /\ Sound(GameOver(g))
           /\ ~GameOver(g).playing /\ ~GameOver(g).current /\ GameOver(g).crashed
           /\ GameOver(g).activated
           /\ GameOver(g).strays = g.strays /\ GameOver(g).left = g.left
           /\ GameOver(g).distance = g.distance
           /\ GameOver(g).updatePending = g.updatePending
<1> DEFINE s == Stop(g)
           t == WithStatus(s.trex, "CRASHED")
           n == s.popups + 1
           r == [s EXCEPT !.listening = FALSE, !.crashed = TRUE,
                          !.trex = t, !.popups = n]
<1>1. /\ Sound(s) /\ s.popups = g.popups /\ s.crashed = g.crashed
      /\ ~s.playing /\ ~s.current /\ ~s.raq
      /\ s.activated = g.activated /\ s.visibility = g.visibility
      /\ s.playingIntro = g.playingIntro
      /\ s.strays = g.strays /\ s.left = g.left
      /\ s.distance = g.distance /\ s.updatePending = g.updatePending
  BY StopSound
<1> HIDE DEF s
<1>2. s \in Games /\ s.trex \in Trexes
  BY <1>1 DEF Sound, Games
<1>3. t \in Trexes
  BY <1>2, WithStatusType, StatusNames
<1>4. g.visibility /\ ~g.crashed /\ s.popups = 0
  BY <1>1 DEF Sound
<1>5. GameOver(g) = r
  BY <1>2 DEF GameOver, s, Games
<1> HIDE DEF t
<1>6. n = 1
  BY <1>4
<1> HIDE DEF n
<1>7. r \in Games
  BY <1>2, <1>3, <1>6 DEF Games
<1>8. /\ r.crashed /\ ~r.listening /\ r.popups = 1
      /\ r.playing = s.playing /\ r.current = s.current /\ r.raq = s.raq
      /\ r.activated = s.activated /\ r.visibility = s.visibility
      /\ r.playingIntro = s.playingIntro /\ r.intro = s.intro
      /\ r.strays = s.strays /\ r.left = s.left
      /\ r.distance = s.distance /\ r.updatePending = s.updatePending
      /\ r.resumed = s.resumed /\ r.playCount = s.playCount
  BY <1>2, <1>6 DEF Games
<1> HIDE DEF r
<1>9. Sound(r)
  BY <1>1, <1>4, <1>7, <1>8 DEF Sound
<1> QED BY <1>1, <1>5, <1>8, <1>9

(* The moving part of update() loses no frame: the game plays on with the
   frames it had, or it is over. *)
LEMMA AdvanceSound ==
    ASSUME NEW g, Sound(g), g.playing, NEW dt \in Nat, NEW hit \in BOOLEAN
    PROVE  LET r == Advance(g, dt, hit)
           IN  /\ Sound(r)
               /\ r.strays = g.strays /\ r.left = g.left
               /\ r.updatePending = g.updatePending
               /\ r.playing => r.current = g.current
               /\ ~r.playing => ~r.current /\ r.crashed
               /\ g.activated => r.activated
               /\ dt = 0 => r.distance = g.distance
<1> DEFINE t == IF g.trex.jumping THEN UpdateJump(g.trex, dt) ELSE g.trex
           h == [g EXCEPT !.trex = t]
           jumped == [h EXCEPT !.runningTime = AtMost(MaxTime, g.runningTime + dt)]
           begun == IF jumped.trex.jumpCount = 1 /\ ~g.playingIntro
                    THEN PlayIntro(jumped) ELSE jumped
           scored == [begun EXCEPT !.distance = AtMost(MaxDistance, begun.distance + dt)]
           r == Advance(g, dt, hit)
<1>1. g \in Games /\ g.trex \in Trexes /\ g.runningTime \in Nat
  BY RunnerAssumption DEF Sound, Games
<1>2. t \in Trexes /\ (~g.crashed /\ ~g.resumed => InOrder(t))
  BY <1>1, UpdateJumpType DEF Sound
<1>3. Sound(h) /\ SameControl(h, g)
  BY <1>2, TrexSound
<1>4. AtMost(MaxTime, g.runningTime + dt) \in 0 .. MaxTime
  BY <1>1, AtMostType, RunnerAssumption
<1>5. Sound(jumped) /\ SameControl(jumped, g)
  <2> HIDE DEF h
  <2>1. jumped \in Games
    BY <1>3, <1>4 DEF Sound, Games
  <2>2. SameControl(jumped, h) /\ jumped.trex = h.trex /\ jumped.popups = h.popups
        /\ jumped.intro = h.intro /\ jumped.playCount = h.playCount
        /\ jumped.listening = h.listening
    BY <1>3 DEF Sound, Games, SameControl
  <2> HIDE DEF jumped
  <2> QED BY <1>3, <2>1, <2>2 DEF Sound, SameControl
<1>6. r = IF hit /\ jumped.runningTime > ClearTime /\ begun.activated
             /\ ~begun.playingIntro
          THEN GameOver(begun) ELSE IF begun.activated THEN scored ELSE begun
  BY <1>1 DEF Advance, Games
<1> HIDE DEF t, h, jumped, r
<1>7. /\ Sound(begun) /\ begun.playing
      /\ begun.strays = g.strays /\ begun.left = g.left
      /\ begun.updatePending = g.updatePending
      /\ begun.current = g.current
      /\ g.activated => begun.activated
      /\ begun.distance = g.distance
  BY <1>5, PlayIntroSound DEF SameControl
<1> HIDE DEF begun
<1>8. CASE hit /\ jumped.runningTime > ClearTime /\ begun.activated /\ ~begun.playingIntro
  BY <1>6, <1>7, <1>8, GameOverSound DEF r
<1>9. CASE ~(hit /\ jumped.runningTime > ClearTime /\ begun.activated
             /\ ~begun.playingIntro) /\ begun.activated
  <2>1. begun \in Games /\ begun.distance \in Nat /\ begun.distance <= MaxDistance
    BY <1>7, RunnerAssumption DEF Sound, Games
  <2>2. AtMost(MaxDistance, begun.distance + dt) \in 0 .. MaxDistance
        /\ (dt = 0 => AtMost(MaxDistance, begun.distance + dt) = begun.distance)
    BY <2>1, AtMostType, RunnerAssumption
  <2>3. scored \in Games
    BY <2>1, <2>2 DEF Games
  <2>4. /\ scored.playing = begun.playing /\ scored.crashed = begun.crashed
        /\ scored.activated = begun.activated
        /\ scored.playingIntro = begun.playingIntro
        /\ scored.visibility = begun.visibility /\ scored.current = begun.current
        /\ scored.raq = begun.raq /\ scored.strays = begun.strays
        /\ scored.updatePending = begun.updatePending /\ scored.left = begun.left
        /\ scored.resumed = begun.resumed /\ scored.trex = begun.trex
        /\ scored.popups = begun.popups /\ scored.intro = begun.intro
        /\ scored.playCount = begun.playCount /\ scored.listening = begun.listening
        /\ (dt = 0 => scored.distance = begun.distance)
    BY <2>1, <2>2 DEF Games
  <2>5. r = scored
    BY <1>6, <1>9
  <2> HIDE DEF scored
  <2>6. Sound(scored)
    BY <1>7, <1>9, <2>3, <2>4 DEF Sound
  <2> QED BY <1>7, <2>4, <2>5, <2>6 DEF r
<1>10. CASE ~(hit /\ jumped.runningTime > ClearTime /\ begun.activated
              /\ ~begun.playingIntro) /\ ~begun.activated
  BY <1>6, <1>7, <1>10 DEF r
<1> QED BY <1>8, <1>9, <1>10

(* update() leaves a frame to come exactly where one is wanted. *)
LEMMA UpdateSound ==
    ASSUME NEW g, Sound(g), Ready(g),
           NEW dt \in Nat, NEW hit \in BOOLEAN, NEW blink \in BOOLEAN
    PROVE  LET r == Update(g, dt, hit, blink)
           IN  /\ Sound(r) /\ Framed(r)
               /\ r.strays <= Load(g)
               /\ ~r.left
               /\ dt = 0 \/ ~g.playing => r.distance = g.distance
<1> DEFINE begun == [g EXCEPT !.updatePending = FALSE, !.left = FALSE]
           moved == IF g.playing THEN Advance(begun, dt, hit) ELSE begun
           u == TRexUpdated(moved, blink)
           r == Update(g, dt, hit, blink)
<1>1. r = IF moved.playing \/ (~moved.activated /\ moved.blinks < MaxBlinkCount)
          THEN Schedule(u) ELSE moved
  BY DEF Update
<1> HIDE DEF r
<1>2. g \in Games /\ g.strays \in Nat
  BY DEF Sound, Games
<1>3. /\ Sound(begun) /\ ~begun.left /\ ~begun.updatePending
      /\ begun.playing = g.playing /\ begun.activated = g.activated
      /\ begun.current = g.current /\ begun.strays = g.strays
      /\ begun.distance = g.distance
  <2>1. begun \in Games
    BY <1>2 DEF Games
  <2>2. /\ ~begun.left /\ ~begun.updatePending
        /\ begun.playing = g.playing /\ begun.activated = g.activated
        /\ begun.current = g.current /\ begun.strays = g.strays
        /\ begun.distance = g.distance /\ begun.crashed = g.crashed
        /\ begun.playingIntro = g.playingIntro /\ begun.visibility = g.visibility
        /\ begun.raq = g.raq /\ begun.resumed = g.resumed /\ begun.trex = g.trex
        /\ begun.popups = g.popups /\ begun.intro = g.intro
        /\ begun.playCount = g.playCount /\ begun.listening = g.listening
    BY <1>2 DEF Games
  <2> HIDE DEF begun
  <2> QED BY <2>1, <2>2 DEF Sound
<1> HIDE DEF begun
<1>4. CASE g.playing
  <2>1. /\ Sound(moved)
        /\ moved.strays = g.strays /\ ~moved.left /\ ~moved.updatePending
        /\ moved.playing => moved.current = g.current
        /\ ~moved.playing => ~moved.current /\ moved.crashed
        /\ g.activated => moved.activated
        /\ dt = 0 => moved.distance = g.distance
    <3>1. begun.playing
      BY <1>3, <1>4
    <3> DEFINE a == Advance(begun, dt, hit)
    <3>2. /\ Sound(a)
          /\ a.strays = begun.strays /\ a.left = begun.left
          /\ a.updatePending = begun.updatePending
          /\ a.playing => a.current = begun.current
          /\ ~a.playing => ~a.current /\ a.crashed
          /\ begun.activated => a.activated
          /\ dt = 0 => a.distance = begun.distance
      BY <1>3, <3>1, AdvanceSound
    <3>3. moved = a
      BY <1>4
    <3> HIDE DEF a, moved
    <3> QED BY <1>3, <3>2, <3>3
  <2> HIDE DEF moved
  <2>2. CASE moved.playing
    <3>1. Sound(u) /\ SameControl(u, moved)
      BY <2>1, TRexUpdatedSound
    <3>2. ~moved.crashed
      BY <2>1, <2>2 DEF Sound
    <3> HIDE DEF u
    <3>3. /\ Sound(Schedule(u))
          /\ Schedule(u).current /\ Schedule(u).raq /\ Schedule(u).updatePending
          /\ Schedule(u).playing = u.playing /\ Schedule(u).activated = u.activated
          /\ Schedule(u).strays = Load(u)
          /\ Schedule(u).left = u.left /\ Schedule(u).distance = u.distance
      BY <2>1, <3>1, <3>2, ScheduleSound DEF SameControl
    <3>4. Load(u) = Load(g)
      BY <2>1, <2>2, <3>1 DEF SameControl, Load
    <3>5. r = Schedule(u)
      BY <1>1, <2>2
    <3>6. ~r.activated => Load(g) <= 1
      BY <2>1, <3>1, <3>3, <3>5 DEF Ready, SameControl
    <3>7. Load(g) \in Nat
      BY <1>2 DEF Load
    <3>8. Framed(r)
      BY <2>2, <3>1, <3>3, <3>4, <3>5, <3>6 DEF Framed, SameControl
    <3> QED BY <1>4, <2>1, <3>1, <3>3, <3>4, <3>5, <3>7, <3>8 DEF r, SameControl
  <2>3. CASE ~moved.playing
    <3>1. moved.activated
      BY <2>1, <2>3 DEF Sound
    <3>2. r = moved
      BY <1>1, <2>3, <3>1
    <3>3. Framed(r)
      BY <2>1, <2>3, <3>1, <3>2 DEF Framed
    <3>4. r.strays <= Load(g)
      BY <1>2, <2>1, <3>2 DEF Load
    <3> QED BY <1>4, <2>1, <3>2, <3>3, <3>4 DEF r
  <2> QED BY <2>2, <2>3
<1>5. CASE ~g.playing
  <2>1. moved = begun /\ ~moved.playing /\ ~moved.current /\ moved.strays = g.strays
        /\ (~moved.activated => moved.strays = 0) /\ Load(g) = g.strays
    BY <1>2, <1>3, <1>5 DEF Ready, Load
  <2> HIDE DEF moved
  <2>2. CASE ~moved.activated /\ moved.blinks < MaxBlinkCount
    <3>1. Sound(u) /\ SameControl(u, moved)
      BY <1>3, <2>1, TRexUpdatedSound
    <3>2. ~moved.crashed
      BY <1>3, <2>1, <2>2 DEF Sound
    <3> HIDE DEF u
    <3>3. /\ Sound(Schedule(u))
          /\ Schedule(u).current /\ Schedule(u).raq /\ Schedule(u).updatePending
          /\ Schedule(u).playing = u.playing /\ Schedule(u).activated = u.activated
          /\ Schedule(u).strays = Load(u)
          /\ Schedule(u).left = u.left /\ Schedule(u).distance = u.distance
      BY <1>3, <2>1, <3>1, <3>2, ScheduleSound DEF SameControl
    <3>4. Load(u) = 0 /\ Load(g) = 0
      BY <2>1, <2>2, <3>1 DEF SameControl, Load
    <3>5. r = Schedule(u)
      BY <1>1, <2>2
    <3>6. Framed(r)
      BY <2>1, <2>2, <3>1, <3>3, <3>4, <3>5 DEF Framed, SameControl
    <3> QED BY <1>3, <2>1, <3>1, <3>3, <3>4, <3>5, <3>6 DEF r, SameControl
  <2>3. CASE ~(~moved.activated /\ moved.blinks < MaxBlinkCount)
    <3>1. r = moved
      BY <1>1, <2>1, <2>3
    <3>2. Framed(r)
      BY <2>1, <3>1 DEF Framed
    <3>3. r.strays <= Load(g)
      BY <1>2, <2>1, <3>1
    <3> QED BY <1>3, <2>1, <3>1, <3>2, <3>3 DEF r
  <2> QED BY <2>2, <2>3
<1> QED BY <1>4, <1>5 DEF Sound, Games

------------------------------------------------------------------------------

(* A game as it is between two handlers. *)
Good(g) == /\ Sound(g) /\ Framed(g)
           /\ g.left => ~g.playing /\ g.visibility

LEMMA SameControlGood ==
    ASSUME NEW g, NEW r, Good(g), Sound(r), SameControl(r, g)
    PROVE  Good(r)
  BY DEF Good, Framed, SameControl

LEMMA CurrentFrameGood ==
    ASSUME NEW g, Good(g), g.current,
           NEW dt \in Nat, NEW hit \in BOOLEAN, NEW blink \in BOOLEAN
    PROVE  LET r == Update([g EXCEPT !.current = FALSE], dt, hit, blink)
           IN  /\ Good(r) /\ r.strays <= g.strays /\ ~r.left
               /\ ~g.playing => r.distance = g.distance
<1> DEFINE h == [g EXCEPT !.current = FALSE]
           r == Update(h, dt, hit, blink)
<1>1. g \in Games /\ g.strays \in Nat
  BY DEF Good, Sound, Games
<1>2. h \in Games
  BY <1>1 DEF Games
<1>3. /\ ~h.current /\ h.strays = g.strays /\ h.playing = g.playing
      /\ h.activated = g.activated /\ h.distance = g.distance
      /\ h.popups = g.popups /\ h.crashed = g.crashed /\ h.raq = g.raq
      /\ h.listening = g.listening /\ h.visibility = g.visibility
      /\ h.intro = g.intro /\ h.playingIntro = g.playingIntro
      /\ h.playCount = g.playCount /\ h.resumed = g.resumed /\ h.trex = g.trex
  BY <1>1 DEF Games
<1> HIDE DEF h
<1>4. Sound(h)
  BY <1>2, <1>3 DEF Good, Sound
<1>5. Load(h) = g.strays
  BY <1>1, <1>3 DEF Load
<1>6. Ready(h)
  BY <1>1, <1>3, <1>5 DEF Good, Framed, Ready
<1>7. /\ Sound(r) /\ Framed(r) /\ r.strays <= Load(h) /\ ~r.left
      /\ ~h.playing => r.distance = h.distance
  BY <1>4, <1>6, UpdateSound
<1> HIDE DEF r
<1>8. Good(r)
  BY <1>7 DEF Good
<1> QED BY <1>3, <1>5, <1>7, <1>8 DEF r, h

LEMMA StrayFrameGood ==
    ASSUME NEW g, Good(g), g.strays > 0,
           NEW dt \in Nat, NEW hit \in BOOLEAN, NEW blink \in BOOLEAN
    PROVE  LET r == Update([g EXCEPT !.strays = @ - 1], dt, hit, blink)
           IN  /\ Good(r) /\ r.strays <= g.strays /\ ~r.left
               /\ ~g.playing => r.distance = g.distance
<1> DEFINE n == g.strays - 1
           h == [g EXCEPT !.strays = n]
           r == Update(h, dt, hit, blink)
<1>1. g \in Games /\ g.strays \in Nat /\ n \in Nat
  BY DEF Good, Sound, Games
<1>2. [g EXCEPT !.strays = @ - 1] = h
  BY <1>1 DEF Games
<1>3. n + 1 = g.strays /\ (g.strays <= 1 => n = 0)
  BY <1>1
<1> HIDE DEF n
<1>4. h \in Games
  BY <1>1 DEF Games
<1>5. /\ h.strays = n /\ h.current = g.current /\ h.playing = g.playing
      /\ h.activated = g.activated /\ h.distance = g.distance
      /\ h.popups = g.popups /\ h.crashed = g.crashed /\ h.raq = g.raq
      /\ h.listening = g.listening /\ h.visibility = g.visibility
      /\ h.intro = g.intro /\ h.playingIntro = g.playingIntro
      /\ h.playCount = g.playCount /\ h.resumed = g.resumed /\ h.trex = g.trex
  BY <1>1 DEF Games
<1> HIDE DEF h
<1>6. Sound(h)
  BY <1>4, <1>5 DEF Good, Sound
<1>7. Load(h) <= g.strays /\ Load(h) \in Nat
  BY <1>1, <1>3, <1>5 DEF Load
<1>8. Ready(h)
  BY <1>1, <1>3, <1>5, <1>7 DEF Good, Framed, Ready
<1>9. /\ Sound(r) /\ Framed(r) /\ r.strays <= Load(h) /\ ~r.left
      /\ ~h.playing => r.distance = h.distance
  BY <1>6, <1>8, UpdateSound
<1>10. r \in Games
  BY <1>9 DEF Sound
<1> HIDE DEF r
<1>11. Good(r) /\ r.strays <= g.strays
  <2>1. r.strays \in Nat
    BY <1>10 DEF Games
  <2> QED BY <1>1, <1>7, <1>9, <2>1 DEF Good
<1> QED BY <1>2, <1>5, <1>9, <1>11 DEF r

(* play() of a game that is not over. *)
LEMMA PlayGood ==
    ASSUME NEW g, Sound(g), ~g.crashed, ~g.activated => Load(g) <= 1, NEW hit \in BOOLEAN
    PROVE  /\ Good(Play(g, hit)) /\ Play(g, hit).strays <= Load(g)
           /\ ~Play(g, hit).left /\ Play(g, hit).distance = g.distance
<1> DEFINE t == WithStatus(g.trex, "RUNNING")
           h == [g EXCEPT !.playing = TRUE, !.paused = FALSE, !.resumed = TRUE,
                          !.trex = t]
           r == Update(h, 0, hit, FALSE)
<1>1. g \in Games /\ g.trex \in Trexes
  BY DEF Sound, Games
<1>2. t \in Trexes
  BY <1>1, WithStatusType, StatusNames
<1>3. Play(g, hit) = r
  BY <1>1 DEF Play, Games
<1> HIDE DEF t
<1>4. h \in Games
  BY <1>1, <1>2 DEF Games
<1>5. /\ h.playing /\ h.resumed
      /\ h.strays = g.strays /\ h.current = g.current
      /\ h.activated = g.activated /\ h.distance = g.distance
      /\ h.popups = g.popups /\ h.crashed = g.crashed /\ h.raq = g.raq
      /\ h.listening = g.listening /\ h.visibility = g.visibility
      /\ h.intro = g.intro /\ h.playingIntro = g.playingIntro
      /\ h.playCount = g.playCount
  BY <1>1 DEF Games
<1> HIDE DEF h
<1>6. Sound(h)
  BY <1>4, <1>5 DEF Sound
<1>7. Load(h) = Load(g)
  BY <1>5 DEF Load
<1>8. Ready(h)
  BY <1>5, <1>7 DEF Ready
<1>9. /\ Sound(r) /\ Framed(r) /\ r.strays <= Load(h) /\ ~r.left
      /\ r.distance = h.distance
  BY <1>6, <1>8, UpdateSound
<1> HIDE DEF r
<1> QED BY <1>3, <1>5, <1>7, <1>9 DEF Good

(* reset() and play(), as a key and a return to the page call them. *)
LEMMA ResetPlayGood ==
    ASSUME NEW g, Sound(g), ~g.crashed, ~g.activated => Load(g) <= 1, NEW hit \in BOOLEAN
    PROVE  LET r == Play([g EXCEPT !.trex = Reset(@)], hit)
           IN  Good(r) /\ r.strays <= Load(g) /\ ~r.left /\ r.distance = g.distance
<1> DEFINE h == [g EXCEPT !.trex = Reset(g.trex)]
<1>1. g \in Games /\ g.trex \in Trexes
  BY DEF Sound, Games
<1>2. Sound(h) /\ SameControl(h, g)
  BY <1>1, ResetType, TrexSound
<1>3. [g EXCEPT !.trex = Reset(@)] = h
  BY <1>1 DEF Games
<1> HIDE DEF h
<1>4. Load(h) = Load(g) /\ ~h.crashed /\ (~h.activated => Load(h) <= 1)
      /\ h.distance = g.distance
  BY <1>2 DEF SameControl, Load
<1> QED BY <1>2, <1>3, <1>4, PlayGood

(* The restart button, on the game whose window it closes. *)
LEMMA RestartGood ==
    ASSUME NEW g, Good(g), g.popups > 0
    PROVE  LET r == Restart([g EXCEPT !.popups = @ - 1])
           IN  Good(r) /\ r.strays <= g.strays /\ ~r.left /\ r.distance = 0
<1> DEFINE f == [g EXCEPT !.popups = 0]
           t == Reset(g.trex)
           n == g.playCount + 1
           h == [f EXCEPT !.listening = TRUE, !.playCount = n,
                          !.runningTime = 0, !.playing = TRUE, !.crashed = FALSE,
                          !.distance = 0, !.resumed = FALSE, !.trex = t]
           r == Update(h, 0, FALSE, FALSE)
<1>1. g \in Games /\ g.trex \in Trexes /\ g.playCount \in Nat
  BY DEF Good, Sound, Games
<1>2. g.crashed /\ g.popups = 1 /\ ~g.raq /\ ~g.current /\ g.activated /\ g.visibility
  BY <1>1 DEF Good, Sound
<1>3. [g EXCEPT !.popups = @ - 1] = f
  BY <1>1, <1>2 DEF Games
<1>4. f \in Games /\ f.raq = g.raq /\ f.trex = g.trex /\ f.playCount = g.playCount
  BY <1>1 DEF Games
<1>5. Restart(f) = r
  <2> HIDE DEF f
  <2> QED BY <1>2, <1>4 DEF Restart, Games
<1>6. t \in Trexes /\ InOrder(t)
  BY <1>1, ResetType
<1>7. n \in Nat /\ n > 0
  BY <1>1
<1>8. 0 \in 0 .. MaxTime /\ 0 \in 0 .. MaxDistance
  BY RunnerAssumption
<1> HIDE DEF t, n
<1>9. h \in Games
  <2> HIDE DEF f
  <2> QED BY <1>4, <1>6, <1>7, <1>8 DEF Games
<1>10. /\ h.playing /\ ~h.crashed /\ h.popups = 0 /\ h.distance = 0 /\ h.trex = t
       /\ h.playCount = n
       /\ h.current = g.current /\ h.raq = g.raq /\ h.strays = g.strays
       /\ h.activated = g.activated /\ h.visibility = g.visibility
       /\ h.intro = g.intro /\ h.playingIntro = g.playingIntro
  BY <1>1 DEF Games
<1> HIDE DEF h
<1>11. Sound(h)
  BY <1>2, <1>6, <1>7, <1>9, <1>10 DEF Good, Sound
<1>12. g.strays \in Nat /\ Load(h) = g.strays /\ Ready(h)
  BY <1>1, <1>2, <1>10 DEF Load, Ready, Games
<1>13. /\ Sound(r) /\ Framed(r) /\ r.strays <= Load(h) /\ ~r.left
       /\ r.distance = h.distance
  BY <1>11, <1>12, UpdateSound
<1> HIDE DEF r, f
<1> QED BY <1>3, <1>5, <1>10, <1>12, <1>13 DEF Good

LEMMA StartGameGood ==
    ASSUME NEW g, Good(g), g.intro
    PROVE  LET r == StartGame(g)
           IN  /\ Good(r) /\ r.strays = g.strays /\ r.distance = g.distance
               /\ r.left = g.left /\ r.crashed = g.crashed
<1> DEFINE n == g.playCount + 1
           r == [g EXCEPT !.runningTime = 0, !.playingIntro = FALSE, !.intro = FALSE,
                          !.playCount = n, !.visibility = TRUE]
<1>1. g \in Games /\ g.playCount \in Nat
  BY DEF Good, Sound, Games
<1>2. StartGame(g) = r
  BY <1>1 DEF StartGame, Games
<1>3. n \in Nat /\ n > 0 /\ 0 \in 0 .. MaxTime
  BY <1>1, RunnerAssumption
<1> HIDE DEF n
<1>4. r \in Games
  BY <1>1, <1>3 DEF Games
<1>5. /\ r.visibility /\ ~r.playingIntro /\ ~r.intro /\ r.playCount = n
      /\ r.playing = g.playing /\ r.crashed = g.crashed /\ r.popups = g.popups
      /\ r.current = g.current /\ r.raq = g.raq /\ r.strays = g.strays
      /\ r.updatePending = g.updatePending /\ r.left = g.left
      /\ r.activated = g.activated /\ r.listening = g.listening
      /\ r.distance = g.distance /\ r.resumed = g.resumed /\ r.trex = g.trex
  BY <1>1 DEF Games
<1> HIDE DEF r
<1>6. g.activated
  BY DEF Good, Sound
<1>7. Sound(r)
  BY <1>3, <1>4, <1>5, <1>6 DEF Good, Sound
<1>8. Good(r)
  BY <1>5, <1>7 DEF Good, Framed
<1> QED BY <1>2, <1>5, <1>8

LEMMA AdjustDimensionsGood ==
    ASSUME NEW g, Good(g), NEW blink \in BOOLEAN
    PROVE  LET r == AdjustDimensions(g, blink)
           IN  /\ Good(r) /\ r.strays = g.strays /\ r.distance = g.distance
               /\ r.left = g.left /\ r.crashed = g.crashed
<1> DEFINE u == TRexUpdated(g, blink)
<1>1. Sound(u) /\ SameControl(u, g)
  BY TRexUpdatedSound DEF Good
<1>2. Good(u)
  BY <1>1, SameControlGood
<1>3. AdjustDimensions(g, blink) = IF g.playing \/ g.crashed \/ g.paused THEN Stop(u) ELSE u
  BY DEF AdjustDimensions
<1> HIDE DEF u
<1>4. /\ Sound(Stop(u)) /\ ~Stop(u).playing /\ ~Stop(u).current
      /\ Stop(u).activated = u.activated /\ Stop(u).crashed = u.crashed
      /\ Stop(u).visibility = u.visibility
      /\ Stop(u).strays = u.strays /\ Stop(u).left = u.left
      /\ Stop(u).distance = u.distance
  BY <1>1, StopSound
<1>5. Good(Stop(u))
  BY <1>2, <1>4 DEF Good, Framed
<1> QED BY <1>1, <1>2, <1>3, <1>4, <1>5 DEF SameControl

LEMMA LeaveGood ==
    ASSUME NEW g, Good(g), g.visibility, NEW hit \in BOOLEAN
    PROVE  LET r == OnVisibilityChange(g, TRUE, hit)
           IN  /\ Good(r) /\ r.strays = g.strays /\ r.distance = g.distance
               /\ r.crashed = g.crashed
<1> DEFINE s == Stop(g)
           r == [s EXCEPT !.left = TRUE]
<1>1. /\ Sound(s) /\ ~s.playing /\ ~s.current
      /\ s.activated = g.activated /\ s.crashed = g.crashed
      /\ s.visibility = g.visibility
      /\ s.strays = g.strays /\ s.distance = g.distance
  BY StopSound DEF Good
<1>2. OnVisibilityChange(g, TRUE, hit) = r
  BY DEF OnVisibilityChange
<1> HIDE DEF s
<1>3. s \in Games
  BY <1>1 DEF Sound
<1>4. r \in Games
  BY <1>3 DEF Games
<1>5. /\ r.left /\ r.playing = s.playing /\ r.crashed = s.crashed /\ r.popups = s.popups
      /\ r.current = s.current /\ r.raq = s.raq /\ r.strays = s.strays
      /\ r.activated = s.activated /\ r.listening = s.listening
      /\ r.visibility = s.visibility /\ r.playingIntro = s.playingIntro
      /\ r.intro = s.intro /\ r.playCount = s.playCount
      /\ r.distance = s.distance /\ r.resumed = s.resumed /\ r.trex = s.trex
  BY <1>3 DEF Games
<1> HIDE DEF r
<1>6. Sound(r)
  BY <1>1, <1>4, <1>5 DEF Sound
<1>7. Good(r)
  BY <1>1, <1>5, <1>6 DEF Good, Framed
<1> QED BY <1>1, <1>2, <1>5, <1>7

LEMMA ReturnGood ==
    ASSUME NEW g, Good(g), g.visibility, NEW hit \in BOOLEAN
    PROVE  LET r == OnVisibilityChange(g, FALSE, hit)
           IN  /\ Good(r) /\ r.strays <= g.strays + 1 /\ r.distance = g.distance
               /\ r.left => r.crashed
<1> DEFINE r == OnVisibilityChange(g, FALSE, hit)
<1>1. g \in Games /\ g.strays \in Nat /\ g.activated
  BY DEF Good, Sound, Games
<1>2. CASE g.crashed
  BY <1>1, <1>2 DEF OnVisibilityChange
<1>3. CASE ~g.crashed
  <2>1. Load(g) <= g.strays + 1 /\ Load(g) \in Nat
    BY <1>1 DEF Load
  <2>2. /\ Good(r) /\ r.strays <= Load(g) /\ ~r.left /\ r.distance = g.distance
    BY <1>1, <1>3, ResetPlayGood DEF OnVisibilityChange, Good
  <2>3. r.strays \in Nat
    BY <2>2 DEF Good, Sound, Games
  <2> HIDE DEF r
  <2>4. r.strays <= g.strays + 1
    BY <1>1, <2>1, <2>2, <2>3
  <2> QED BY <2>2, <2>4 DEF r
<1> QED BY <1>2, <1>3

(* A game that a key starts: the frame a waiting T-rex had asked for is the one
   that is not counted. *)
LEMMA StartedGood ==
    ASSUME NEW g, Good(g), ~g.left, NEW b \in Nat, g.strays <= b, 1 <= b,
           NEW dt \in Nat, NEW hit \in BOOLEAN, NEW blink \in BOOLEAN
    PROVE  LET r == Started(g, dt, hit, blink)
           IN  Good(r) /\ r.strays <= b /\ ~r.left
<1> DEFINE h == [g EXCEPT !.playing = TRUE]
           r == Update(h, dt, hit, blink)
<1>1. CASE g.playing \/ g.crashed
  BY <1>1 DEF Started
<1>2. CASE ~(g.playing \/ g.crashed)
  <2>1. g \in Games /\ g.strays \in Nat
    BY DEF Good, Sound, Games
  <2>2. Started(g, dt, hit, blink) = r
    BY <1>2 DEF Started
  <2>3. h \in Games
    BY <2>1 DEF Games
  <2>4. /\ h.playing
        /\ h.current = g.current /\ h.strays = g.strays /\ h.activated = g.activated
        /\ h.distance = g.distance
        /\ h.popups = g.popups /\ h.crashed = g.crashed /\ h.raq = g.raq
        /\ h.listening = g.listening /\ h.visibility = g.visibility
        /\ h.intro = g.intro /\ h.playingIntro = g.playingIntro
        /\ h.playCount = g.playCount /\ h.resumed = g.resumed /\ h.trex = g.trex
    BY <2>1 DEF Games
  <2> HIDE DEF h
  <2>5. Sound(h)
    BY <1>2, <2>3, <2>4 DEF Good, Sound
  <2>6. Load(h) <= b /\ Load(h) \in Nat /\ Ready(h)
    BY <1>2, <2>1, <2>4 DEF Load, Ready, Good, Framed
  <2>7. Sound(r) /\ Framed(r) /\ r.strays <= Load(h) /\ ~r.left
    BY <2>5, <2>6, UpdateSound
  <2>8. r.strays \in Nat
    BY <2>7 DEF Sound, Games
  <2> HIDE DEF r
  <2>9. Good(r) /\ r.strays <= b
    BY <2>6, <2>7, <2>8 DEF Good
  <2> QED BY <2>2, <2>7, <2>9
<1> QED BY <1>1, <1>2

LEMMA JumpKeyDownGood ==
    ASSUME NEW g, Good(g), ~g.left, NEW b \in Nat, g.strays <= b, 1 <= b,
           NEW dt \in Nat, NEW hit \in BOOLEAN, NEW blink \in BOOLEAN
    PROVE  LET r == JumpKeyDown(g, dt, hit, blink)
           IN  Good(r) /\ r.strays <= b /\ ~r.left
<1> DEFINE s == Started(g, dt, hit, blink)
           t == StartJump(s.trex, Speed)
           h == [s EXCEPT !.trex = t]
<1>1. Good(s) /\ s.strays <= b /\ ~s.left
  BY StartedGood
<1>2. JumpKeyDown(g, dt, hit, blink)
        = IF g.crashed \/ s.trex.jumping \/ s.trex.ducking THEN s ELSE [s EXCEPT !.trex = StartJump(@, Speed)]
  BY DEF JumpKeyDown
<1> HIDE DEF s
<1>3. s \in Games /\ s.trex \in Trexes
  BY <1>1 DEF Good, Sound, Games
<1>4. [s EXCEPT !.trex = StartJump(@, Speed)] = h
  BY <1>3 DEF Games
<1>5. CASE g.crashed \/ s.trex.jumping \/ s.trex.ducking
  BY <1>1, <1>2, <1>5
<1>6. CASE ~(g.crashed \/ s.trex.jumping \/ s.trex.ducking)
  <2>1. t \in Trexes /\ (~s.crashed /\ ~s.resumed => InOrder(t))
    BY <1>1, <1>3, <1>6, StartJumpType DEF Good, Sound
  <2> HIDE DEF t
  <2>2. Sound(h) /\ SameControl(h, s)
    BY <1>1, <2>1, TrexSound DEF Good
  <2> HIDE DEF h
  <2>3. Good(h) /\ h.strays <= b /\ ~h.left
    BY <1>1, <2>2, SameControlGood DEF SameControl
  <2> QED BY <1>2, <1>4, <1>6, <2>3
<1> QED BY <1>5, <1>6

LEMMA DuckKeyDownGood ==
    ASSUME NEW g, Good(g)
    PROVE  LET r == DuckKeyDown(g)
           IN  Good(r) /\ r.strays = g.strays /\ r.left = g.left
<1> DEFINE t == CASE ~g.playing \/ g.crashed -> g.trex
                  [] g.playing /\ ~g.crashed /\ g.trex.jumping -> SetSpeedDrop(g.trex)
                  [] OTHER -> IF g.trex.ducking THEN g.trex ELSE SetDuck(g.trex, TRUE)
           h == [g EXCEPT !.trex = t]
<1>1. g \in Games /\ g.trex \in Trexes /\ (~g.crashed /\ ~g.resumed => InOrder(g.trex))
  BY DEF Good, Sound, Games
<1>2. DuckKeyDown(g) = h
  BY <1>1 DEF DuckKeyDown, Games
<1>3. t \in Trexes /\ (~g.crashed /\ ~g.resumed => InOrder(t))
  <2>1. CASE ~g.playing \/ g.crashed
    BY <1>1, <2>1
  <2>2. CASE g.playing /\ ~g.crashed /\ g.trex.jumping
    <3>1. t = SetSpeedDrop(g.trex)
      BY <2>2
    <3> HIDE DEF t
    <3> QED BY <1>1, <2>2, <3>1, SetSpeedDropType
  <2>3. CASE g.playing /\ ~g.crashed /\ ~g.trex.jumping
    <3>1. t = IF g.trex.ducking THEN g.trex ELSE SetDuck(g.trex, TRUE)
      BY <2>3
    <3> HIDE DEF t
    <3>2. InOrder(g.trex) => ~g.trex.speedDrop
      BY <2>3 DEF InOrder
    <3> QED BY <1>1, <2>3, <3>1, <3>2, SetDuckType
  <2> QED BY <2>1, <2>2, <2>3
<1> HIDE DEF t
<1>4. Sound(h) /\ SameControl(h, g)
  BY <1>3, TrexSound DEF Good
<1> HIDE DEF h
<1> QED BY <1>2, <1>4, SameControlGood DEF SameControl

LEMMA JumpKeyUpGood ==
    ASSUME NEW g, Good(g), g.listening, ~g.left, NEW hit \in BOOLEAN
    PROVE  LET r == JumpKeyUp(g, hit)
           IN  Good(r) /\ r.strays <= g.strays /\ ~r.left
<1> DEFINE h == [g EXCEPT !.trex = EndJump(g.trex)]
           r == Play([g EXCEPT !.trex = Reset(@)], hit)
<1>1. g \in Games /\ g.trex \in Trexes /\ g.strays \in Nat /\ ~g.crashed
      /\ (~g.crashed /\ ~g.resumed => InOrder(g.trex))
  BY DEF Good, Sound, Games
<1>2. CASE g.raq
  <2>1. JumpKeyUp(g, hit) = h
    BY <1>1, <1>2 DEF JumpKeyUp, Games
  <2>2. Sound(h) /\ SameControl(h, g)
    BY <1>1, EndJumpType, TrexSound DEF Good
  <2> HIDE DEF h
  <2>3. Good(h) /\ h.strays = g.strays /\ ~h.left
    BY <2>2, SameControlGood DEF SameControl
  <2> QED BY <1>1, <2>1, <2>3
<1>3. CASE ~g.raq /\ g.paused
  <2>1. JumpKeyUp(g, hit) = r
    BY <1>3 DEF JumpKeyUp
  <2>2. Load(g) = g.strays /\ (~g.activated => Load(g) <= 1)
    BY <1>1, <1>3 DEF Load, Good, Sound, Framed
  <2>3. Good(r) /\ r.strays <= Load(g) /\ ~r.left
    BY <1>1, <2>2, ResetPlayGood DEF Good
  <2> HIDE DEF r
  <2> QED BY <2>1, <2>2, <2>3
<1>4. CASE ~g.raq /\ ~g.paused
  BY <1>1, <1>4 DEF JumpKeyUp
<1> QED BY <1>2, <1>3, <1>4

LEMMA DuckKeyUpGood ==
    ASSUME NEW g, Good(g)
    PROVE  LET r == DuckKeyUp(g)
           IN  Good(r) /\ r.strays = g.strays /\ r.left = g.left
<1> DEFINE u == [g.trex EXCEPT !.speedDrop = FALSE]
           h == [g EXCEPT !.trex = SetDuck(u, FALSE)]
<1>1. g \in Games /\ g.trex \in Trexes /\ (~g.crashed /\ ~g.resumed => InOrder(g.trex))
  BY DEF Good, Sound, Games
<1>2. DuckKeyUp(g) = h
  BY <1>1 DEF DuckKeyUp, Games
<1>3. u \in Trexes /\ ~u.speedDrop
  BY <1>1 DEF Trexes
<1>4. InOrder(g.trex) => InOrder(u)
  BY <1>1 DEF Trexes, InOrder
<1> HIDE DEF u
<1>5. Sound(h) /\ SameControl(h, g)
  BY <1>1, <1>3, <1>4, SetDuckType, TrexSound DEF Good
<1> HIDE DEF h
<1> QED BY <1>2, <1>5, SameControlGood DEF SameControl

------------------------------------------------------------------------------

(* The inductive invariant: the game is good, its loops are counted by the
   returns, and a player who left is away or has lost. *)
IInv == /\ RunnerTypeOK
        /\ Good(game)
        /\ LoopsAreFew
        /\ game.left => game.crashed \/ window.hidden \/ ~window.focused

LEMMA InitIInv == Init => IInv
<1> SUFFICES ASSUME Init PROVE IInv
  OBVIOUS
<1>1. NewTrex \in Trexes /\ InOrder(NewTrex)
  BY TrexNumbers, StatusNames DEF NewTrex, Trexes, InOrder
<1>2. 0 \in 0 .. MaxTime /\ 0 \in 0 .. MaxDistance
  BY RunnerAssumption
<1>3. NewGame \in Games
  BY <1>1, <1>2 DEF NewGame, Games
<1>4. Good(NewGame) /\ ~NewGame.left /\ NewGame.strays = 0
  BY <1>1, <1>3 DEF NewGame, Good, Sound, Framed
<1>5. [focused |-> TRUE, hidden |-> FALSE] \in [focused : BOOLEAN, hidden : BOOLEAN]
  OBVIOUS
<1>6. /\ game = NewGame /\ window = [focused |-> TRUE, hidden |-> FALSE]
      /\ resizeTimer = FALSE /\ returns = 0 /\ resizes = 0
  BY DEF Init
<1>7. RunnerTypeOK
  BY <1>3, <1>5, <1>6 DEF RunnerTypeOK
<1>8. LoopsAreFew
  BY <1>4, <1>6 DEF LoopsAreFew
<1> QED BY <1>4, <1>6, <1>7, <1>8 DEF IInv

(* What a step does to the distance of a player who left. *)
AwayStep == game.left => game'.distance \in {game.distance, 0}

(* An action that leaves the page alone. *)
LEMMA SamePage ==
    ASSUME IInv, UNCHANGED window, returns' = returns, resizeTimer' \in BOOLEAN,
           resizes' \in Nat, Good(game'),
           game'.strays <= game.strays \/ game'.strays <= 1 + returns,
           game'.left => game.left /\ (game.crashed => game'.crashed)
    PROVE  IInv'
<1>1. game' \in Games /\ game'.strays \in Nat
  BY DEF Good, Sound, Games
<1>2. game.strays \in Nat /\ returns \in Nat /\ game.strays <= 1 + returns
  BY DEF IInv, Good, Sound, Games, RunnerTypeOK, LoopsAreFew
<1>3. LoopsAreFew'
  BY <1>1, <1>2 DEF LoopsAreFew
<1>4. RunnerTypeOK'
  BY <1>1 DEF IInv, RunnerTypeOK
<1> QED BY <1>3, <1>4 DEF IInv

LEMMA KeyStep ==
    ASSUME IInv, NEW dt \in Nat, NEW hit \in BOOLEAN, NEW blink \in BOOLEAN,
           Key(dt, hit, blink)
    PROVE  IInv' /\ AwayStep
<1>1. /\ Good(game) /\ game.listening /\ ~game.left
      /\ game.strays \in Nat /\ 1 + returns \in Nat /\ 1 <= 1 + returns
      /\ game.strays <= 1 + returns /\ resizes \in Nat /\ resizeTimer \in BOOLEAN
  <2>1. game.listening => ~game.crashed
    BY DEF IInv, Good, Sound
  <2> QED BY <2>1 DEF IInv, Key, KeyAllowed, RunnerTypeOK, LoopsAreFew, Good, Sound, Games
<1>2. Good(game') /\ ~game'.left
      /\ (game'.strays <= game.strays \/ game'.strays <= 1 + returns)
  <2>1. CASE game' = JumpKeyDown(game, dt, hit, blink)
    BY <1>1, <2>1, JumpKeyDownGood
  <2>2. CASE game' = DuckKeyDown(game)
    BY <1>1, <2>2, DuckKeyDownGood
  <2>3. CASE game' = JumpKeyUp(game, hit)
    BY <1>1, <2>3, JumpKeyUpGood
  <2>4. CASE game' = DuckKeyUp(game)
    BY <1>1, <2>4, DuckKeyUpGood
  <2> QED BY <2>1, <2>2, <2>3, <2>4 DEF Key
<1>3. UNCHANGED <<window, resizeTimer, returns, resizes>>
  BY DEF Key
<1>4. IInv'
  BY <1>1, <1>2, <1>3, SamePage
<1> QED BY <1>1, <1>4 DEF AwayStep

LEMMA FrameStep ==
    ASSUME IInv, NEW dt \in Nat, NEW hit \in BOOLEAN, NEW blink \in BOOLEAN,
           CurrentFrame(dt, hit, blink) \/ StrayFrame(dt, hit, blink)
    PROVE  IInv' /\ AwayStep
<1>1. /\ Good(game) /\ (game.left => ~game.playing)
      /\ resizes \in Nat /\ resizeTimer \in BOOLEAN
  BY DEF IInv, Good, RunnerTypeOK
<1>2. /\ Good(game') /\ game'.strays <= game.strays /\ ~game'.left
      /\ ~game.playing => game'.distance = game.distance
  <2>1. CASE CurrentFrame(dt, hit, blink)
    BY <1>1, <2>1, CurrentFrameGood DEF CurrentFrame
  <2>2. CASE StrayFrame(dt, hit, blink)
    BY <1>1, <2>2, StrayFrameGood DEF StrayFrame
  <2> QED BY <2>1, <2>2
<1>3. UNCHANGED <<window, resizeTimer, returns, resizes>>
  BY DEF CurrentFrame, StrayFrame
<1>4. IInv'
  BY <1>1, <1>2, <1>3, SamePage
<1> QED BY <1>1, <1>2, <1>4 DEF AwayStep

LEMMA ClickRestartStep == IInv /\ ClickRestart => IInv' /\ AwayStep
<1> SUFFICES ASSUME IInv, ClickRestart PROVE IInv' /\ AwayStep
  OBVIOUS
<1>1. Good(game) /\ resizes \in Nat /\ resizeTimer \in BOOLEAN
  BY DEF IInv, RunnerTypeOK
<1>2. Good(game') /\ game'.strays <= game.strays /\ ~game'.left /\ game'.distance = 0
  BY <1>1, RestartGood DEF ClickRestart
<1>3. IInv'
  BY <1>1, <1>2, SamePage DEF ClickRestart
<1> QED BY <1>2, <1>3 DEF AwayStep

LEMMA AnimationEndsStep == IInv /\ AnimationEnds => IInv' /\ AwayStep
<1> SUFFICES ASSUME IInv, AnimationEnds PROVE IInv' /\ AwayStep
  OBVIOUS
<1>1. Good(game) /\ resizes \in Nat /\ resizeTimer \in BOOLEAN /\ game.strays \in Nat
  BY DEF IInv, RunnerTypeOK, Good, Sound, Games
<1>2. /\ Good(game') /\ game'.strays = game.strays /\ game'.distance = game.distance
      /\ game'.left = game.left /\ game'.crashed = game.crashed
  BY <1>1, StartGameGood DEF AnimationEnds
<1>3. IInv'
  BY <1>1, <1>2, SamePage DEF AnimationEnds
<1> QED BY <1>2, <1>3 DEF AwayStep

LEMMA ResizeStep ==
    ASSUME IInv, DebounceResize \/ \E blink \in BOOLEAN : ResizeTimer(blink)
    PROVE  IInv' /\ AwayStep
<1>1. Good(game) /\ resizes \in Nat /\ resizeTimer \in BOOLEAN /\ game.strays \in Nat
  BY DEF IInv, RunnerTypeOK, Good, Sound, Games
<1>2. CASE DebounceResize
  <2>1. game' = game /\ window' = window /\ returns' = returns
        /\ resizeTimer' \in BOOLEAN /\ resizes' \in Nat
    BY <1>1, <1>2 DEF DebounceResize
  <2>2. IInv'
    BY <1>1, <2>1, SamePage
  <2> QED BY <2>1, <2>2 DEF AwayStep
<1>3. CASE \E blink \in BOOLEAN : ResizeTimer(blink)
  <2>1. PICK blink \in BOOLEAN : ResizeTimer(blink)
    BY <1>3
  <2>2. /\ Good(game') /\ game'.strays = game.strays /\ game'.distance = game.distance
        /\ game'.left = game.left /\ game'.crashed = game.crashed
    BY <1>1, <2>1, AdjustDimensionsGood DEF ResizeTimer
  <2>3. UNCHANGED window /\ returns' = returns /\ resizeTimer' \in BOOLEAN /\ resizes' \in Nat
    BY <1>1, <2>1 DEF ResizeTimer
  <2>4. game'.strays <= game.strays
    BY <1>1, <2>2
  <2>5. IInv'
    BY <2>2, <2>3, <2>4, SamePage
  <2> QED BY <2>2, <2>5 DEF AwayStep
<1> QED BY <1>2, <1>3

LEMMA LeaveStep == IInv /\ Leave => IInv' /\ AwayStep
<1> SUFFICES ASSUME IInv, Leave PROVE IInv' /\ AwayStep
  OBVIOUS
<1>1. Good(game) /\ resizes \in Nat /\ resizeTimer \in BOOLEAN /\ returns \in Nat
      /\ window \in [focused : BOOLEAN, hidden : BOOLEAN] /\ game.strays <= 1 + returns
  BY DEF IInv, RunnerTypeOK, LoopsAreFew
<1>2. window' \in [focused : BOOLEAN, hidden : BOOLEAN]
      /\ (window'.hidden \/ ~window'.focused)
  BY <1>1 DEF Leave
<1>3. /\ Good(game') /\ game'.strays = game.strays /\ game'.distance = game.distance
      /\ game'.crashed = game.crashed
  <2>1. CASE game.visibility
    BY <1>1, <2>1, LeaveGood DEF Leave, Seen
  <2>2. CASE ~game.visibility
    BY <1>1, <2>2 DEF Leave, Seen
  <2> QED BY <2>1, <2>2
<1>4. UNCHANGED <<resizeTimer, returns, resizes>>
  BY DEF Leave
<1>5. RunnerTypeOK' /\ LoopsAreFew'
  BY <1>1, <1>2, <1>3, <1>4 DEF RunnerTypeOK, LoopsAreFew, Good, Sound
<1> QED BY <1>2, <1>3, <1>5 DEF IInv, AwayStep

LEMMA ReturnStep ==
    ASSUME IInv, NEW hit \in BOOLEAN, Return(hit)
    PROVE  IInv' /\ AwayStep
<1>1. Good(game) /\ resizes \in Nat /\ resizeTimer \in BOOLEAN /\ returns \in Nat
      /\ window \in [focused : BOOLEAN, hidden : BOOLEAN] /\ game.strays <= 1 + returns
      /\ game.strays \in Nat
  BY DEF IInv, RunnerTypeOK, LoopsAreFew, Good, Sound, Games
<1>2. window' \in [focused : BOOLEAN, hidden : BOOLEAN]
  BY <1>1 DEF Return
<1>3. /\ Good(game') /\ game'.strays <= game.strays + 1 /\ game'.distance = game.distance
      /\ game'.left => game'.crashed
  <2>1. CASE game.visibility
    BY <1>1, <2>1, ReturnGood DEF Return, Seen
  <2>2. CASE ~game.visibility
    BY <1>1, <2>2 DEF Return, Seen, Good
  <2> QED BY <2>1, <2>2
<1>4. resizeTimer' = resizeTimer /\ returns' = returns + 1 /\ resizes' = resizes
  BY DEF Return
<1>5. game' \in Games /\ game'.strays \in Nat
  BY <1>3 DEF Good, Sound, Games
<1>6. RunnerTypeOK'
  BY <1>1, <1>2, <1>4, <1>5 DEF RunnerTypeOK
<1>7. LoopsAreFew'
  BY <1>1, <1>3, <1>4, <1>5 DEF LoopsAreFew
<1> QED BY <1>3, <1>6, <1>7 DEF IInv, AwayStep

LEMMA NextIInv == IInv /\ [Next]_vars => IInv' /\ (AwayStep \/ UNCHANGED vars)
<1> SUFFICES ASSUME IInv, [Next]_vars PROVE IInv' /\ (AwayStep \/ UNCHANGED vars)
  OBVIOUS
<1>1. \A dt \in Elapsed : dt \in Nat
  BY RunnerAssumption
<1>2. CASE \E dt \in Elapsed, hit, blink \in BOOLEAN :
              CurrentFrame(dt, hit, blink) \/ StrayFrame(dt, hit, blink)
  BY <1>1, <1>2, FrameStep
<1>3. CASE \E dt \in Elapsed, hit, blink \in BOOLEAN : Key(dt, hit, blink)
  BY <1>1, <1>3, KeyStep
<1>4. CASE ClickRestart
  BY <1>4, ClickRestartStep
<1>5. CASE AnimationEnds
  BY <1>5, AnimationEndsStep
<1>6. CASE Leave
  BY <1>6, LeaveStep
<1>7. CASE \E hit \in BOOLEAN : Return(hit)
  BY <1>7, ReturnStep
<1>8. CASE DebounceResize \/ \E blink \in BOOLEAN : ResizeTimer(blink)
  BY <1>8, ResizeStep
<1>9. CASE UNCHANGED vars
  BY <1>9 DEF vars, IInv, RunnerTypeOK, Good, LoopsAreFew
<1> QED BY <1>2, <1>3, <1>4, <1>5, <1>6, <1>7, <1>8, <1>9 DEF Next

LEMMA Invariance == Spec => []IInv
<1> QED BY InitIInv, NextIInv, PTL DEF Spec

(* What IInv says of the game, as the runs state it. *)
LEMMA IInvImplies ==
    IInv => RunnerTypeOK /\ CrashIsFinal /\ NeverFreezes /\ LoopsAreFew
            /\ ScoreNeedsIntro /\ DuckCanBeReleased
<1> SUFFICES ASSUME IInv
             PROVE  RunnerTypeOK /\ CrashIsFinal /\ NeverFreezes /\ LoopsAreFew
                    /\ ScoreNeedsIntro /\ DuckCanBeReleased
  OBVIOUS
<1>1. CrashIsFinal
  BY DEF IInv, Good, Sound, CrashIsFinal
<1>2. NeverFreezes
  BY DEF IInv, Good, Framed, NeverFreezes
<1>3. ScoreNeedsIntro
  BY DEF IInv, Good, Sound, ScoreNeedsIntro
<1>4. DuckCanBeReleased
  BY DEF IInv, Good, Sound, InOrder, DuckCanBeReleased
<1> QED BY <1>1, <1>2, <1>3, <1>4 DEF IInv

(* Every field of the game keeps its type, whatever the order of handlers. *)
THEOREM RunnerTypeCorrect == Spec => []RunnerTypeOK
<1> QED BY Invariance, IInvImplies, PTL

(* A crash ends the game for every handler but the restart button's. *)
THEOREM CrashStays == Spec => []CrashIsFinal
<1> QED BY Invariance, IInvImplies, PTL

(* A game that plays has a frame to come that stop() can cancel. *)
THEOREM FramesGoOn == Spec => []NeverFreezes
<1> QED BY Invariance, IInvImplies, PTL

(* However often the player leaves and presses keys, the loops that stop() does
   not reach are no more than the returns to the page and one. *)
THEOREM LoopsAreCounted == Spec => []LoopsAreFew
<1> QED BY Invariance, IInvImplies, PTL

(* No distance and no game before the intro. *)
THEOREM IntroComesFirst == Spec => []ScoreNeedsIntro
<1> QED BY Invariance, IInvImplies, PTL

(* Unless a pause came in between, releasing the duck key ends every duck. *)
THEOREM DucksEnd == Spec => []DuckCanBeReleased
<1> QED BY Invariance, IInvImplies, PTL

(* The distance does not change while the player is away. *)
THEOREM AwayIsFree == Spec => AwayIsNotScored
<1>1. IInv /\ [Next]_vars => [game.left => game'.distance \in {game.distance, 0}]_vars
  BY NextIInv DEF AwayStep
<1> QED BY <1>1, Invariance, PTL DEF Spec, AwayIsNotScored
==============================================================================
