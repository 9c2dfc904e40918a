------------------------------ MODULE HeadGaze ------------------------------
(***************************************************************************)
(* Two modules turn the robot's neck and know nothing of each other.       *)
(*                                                                         *)
(* headObstaclesScanner turns it every period: in the mode "sweep" from    *)
(* side to side, in the mode "trajectory" toward the path while the robot  *)
(* moves and, once, straight ahead when it no longer does.                 *)
(*                                                                         *)
(* eyeContactManager turns it, at each frame of the face detector, to the  *)
(* closest person who looks at a robot that does not move, and ahead again *)
(* when the robot moves or nobody has looked for 6 s.                      *)
(*                                                                         *)
(* Each reads the navigation's status and commands the neck afterwards.    *)
(***************************************************************************)
EXTENDS Naturals, Sequences, Navigation

CONSTANTS
  Frames, \* sequences of [who, looking, depth], the depth in decimetres
  Angles  \* angles the path may have to the robot: 0 is straight ahead

People == UNION {{frame[i].who : i \in DOMAIN frame} : frame \in Frames}
Reach == 12 \* farther people do not count

ASSUME GazeConstantsOK ==
  /\ Frames # {} /\ Frames \subseteq Seq([who : People, looking : BOOLEAN, depth : Nat])
  /\ People \cap {"read", "reset"} = {}

VARIABLES
  headMode, \* headModeName, never changed
  scan,     \* "period", "stopped", or the robot's status lookPoint has read
  side,     \* the last command of the sweep
  idleMove, \* head_movement_when_idle
  eye,      \* "read", or what updateModule has decided: a person or "reset"
  isReset,  \* m_isHeadReset
  expired,  \* 6 s have passed since m_lastEyeContactTime
  gaze,     \* external: the last command that has reached the neck
  frame     \* external: what the face detector sees

scanner == <<headMode, scan, side, idleMove>>
manager == <<eye, isReset, expired>>
gazeVars == <<scanner, manager, gaze, frame>>
hVars == <<moving, gazeVars>>

HeadModes == {"sweep", "trajectory"} \* any other does nothing
Sides == {"left", "right"}
(* Where a command turns the neck: a robot that moves looks at the floor,   *)
(* at the angle head_pitch, aside or along its own direction.              *)
Directions == {"ahead", "along", "aside"}
Toward(angle) == IF scan = "still" THEN "ahead" ELSE IF angle = 0 THEN "along" ELSE "aside"

GazeTypeOK ==
  /\ moving \in BOOLEAN /\ headMode \in HeadModes
  /\ scan \in {"period", "stopped", "moving", "still"}
  /\ side \in Sides \cup {"ahead"} /\ idleMove \in BOOLEAN
  /\ eye \in People \cup {"read", "reset"}
  /\ isReset \in BOOLEAN /\ expired \in BOOLEAN
  /\ gaze \in People \cup Sides \cup Directions
  /\ frame \in Frames

(* configure sends the neck ahead; the constructor of eyeContactManager    *)
(* leaves its flag and its time as they are.                               *)
GazeInit ==
  /\ headMode \in HeadModes
  /\ scan = "period" /\ side = "ahead" /\ idleMove = TRUE
  /\ eye = "read" /\ isReset \in BOOLEAN /\ expired \in BOOLEAN
  /\ gaze = "ahead" /\ frame \in Frames

----------------------------------------------------------------------------
(* headObstaclesScanner.                                                   *)

(* The next side, when the encoders are at the last command; a face the    *)
(* neck has been turned to may happen to be there, too.                    *)
SweepMode ==
  /\ headMode = "sweep" /\ scan = "period"
  /\ gaze \in People \cup {side}
  /\ side' = (IF side = "left" THEN "right" ELSE "left") /\ gaze' = side'
  /\ UNCHANGED <<moving, headMode, scan, idleMove, manager, frame>>

(* A module whose updateModule returns false is stopped.                   *)
GetRobotPosition ==
  /\ headMode = "trajectory" /\ scan = "period"
  /\ \/ scan' = IF moving THEN "moving" ELSE "still"
     \/ scan' = "stopped"
  /\ UNCHANGED <<moving, headMode, side, idleMove, manager, gaze, frame>>

(* The point to look at is on the path; a robot that is not moving looks   *)
(* ahead.                                                                  *)
PathAngles == IF scan = "moving" THEN Angles ELSE {0}

(* Mutant: the flag is set by configure only.                              *)
LookPointOnce ==
  /\ scan \in {"moving", "still"} /\ scan' = "period"
  /\ \E angle \in PathAngles :
       IF idleMove
       THEN gaze' = Toward(angle) /\ idleMove' = (angle # 0)
       ELSE UNCHANGED <<gaze, idleMove>>
  /\ UNCHANGED <<moving, headMode, side, manager, frame>>

(* Mutant: a still robot is told to look ahead in every period.            *)
LookPointAlways ==
  /\ scan \in {"moving", "still"} /\ scan' = "period"
  /\ \E angle \in PathAngles :
       gaze' = Toward(angle) /\ idleMove' = TRUE
  /\ UNCHANGED <<moving, headMode, side, manager, frame>>

(* The angle 0 is commanded, and the flag cleared, whether or not the      *)
(* robot moves; one that does not move then leaves the neck alone.         *)
LookPoint ==
  /\ scan \in {"moving", "still"} /\ scan' = "period"
  /\ \E angle \in PathAngles :
       IF idleMove \/ scan = "moving"
       THEN gaze' = Toward(angle) /\ idleMove' = (angle # 0)
       ELSE UNCHANGED <<gaze, idleMove>>
  /\ UNCHANGED <<moving, headMode, side, manager, frame>>

----------------------------------------------------------------------------
(* eyeContactManager.                                                      *)

(* Who looks at the robot and is near enough, by their place in the frame. *)
Looking(f) == {i \in DOMAIN f : f[i].looking /\ f[i].depth > 0 /\ f[i].depth < Reach}

(* The first of the closest.                                               *)
Precedes(f, i, j) ==
  f[i].depth < f[j].depth \/ (f[i].depth = f[j].depth /\ i <= j)
GetClosestPersonLooking(f) ==
  f[CHOOSE i \in Looking(f) : \A j \in Looking(f) : Precedes(f, i, j)].who

UpdateModule ==
  /\ eye = "read"
  /\ eye' = CASE Looking(frame) # {} /\ ~moving -> GetClosestPersonLooking(frame)
              [] Looking(frame) # {} /\ moving  -> "reset"
              [] Looking(frame) = {}            -> IF expired THEN "reset" ELSE "read"
  /\ UNCHANGED <<moving, scanner, isReset, expired, gaze, frame>>

(* Mutant: the head is still taken for reset.                              *)
LookAtPixelOnly(sent) ==
  /\ eye \in People /\ eye' = "read"
  /\ gaze' = IF sent THEN eye ELSE gaze
  /\ expired' = FALSE
  /\ UNCHANGED <<moving, scanner, isReset, frame>>

(* Whether or not the command could be sent.                               *)
LookAtPixel(sent) ==
  /\ eye \in People /\ eye' = "read"
  /\ gaze' = IF sent THEN eye ELSE gaze
  /\ isReset' = FALSE /\ expired' = FALSE
  /\ UNCHANGED <<moving, scanner, frame>>

ResetNeck(sent) ==
  /\ eye = "reset" /\ eye' = "read"
  /\ IF sent /\ ~isReset
     THEN gaze' = "ahead" /\ isReset' = TRUE
     ELSE UNCHANGED <<gaze, isReset>>
  /\ UNCHANGED <<moving, scanner, expired, frame>>

----------------------------------------------------------------------------
Expire ==
  /\ expired' = TRUE
  /\ UNCHANGED <<moving, scanner, eye, isReset, gaze, frame>>

Detect ==
  /\ frame' \in Frames
  /\ UNCHANGED <<moving, scanner, manager, gaze>>

Scanner == SweepMode \/ GetRobotPosition \/ LookPoint
EyeContact == UpdateModule \/ \E sent \in BOOLEAN : LookAtPixel(sent) \/ ResetNeck(sent)

----------------------------------------------------------------------------
(* Properties.                                                             *)

Someone == Looking(frame) # {}
Closest(p) ==
  \E i \in Looking(frame) :
    /\ frame[i].who = p
    /\ \A j \in Looking(frame) : frame[j].who = p \/ frame[i].depth < frame[j].depth
Localized == headMode = "trajectory" /\ []<>(scan = "period")

(* A robot that stands looks at the closest person who looks at it and     *)
(* does not turn away again, whatever the scanner has last commanded.      *)
LooksBack ==
  \A p \in People :
    headMode = "trajectory" /\ <>[](~moving /\ Closest(p)) => <>[](gaze = p)

(* Once it looks at them it does so for as long as they are the closest    *)
(* and it stands: no later command of either module turns the neck away.   *)
(* The scanner's one command to look ahead is the one that has to be past. *)
Watched(p) == ~moving /\ Closest(p)
Captured(p) ==
  /\ headMode = "trajectory" /\ ~idleMove /\ scan # "moving"
  /\ eye \in {"read", p} /\ gaze = p
KeepsEyeContact ==
  [][\A p \in People : Captured(p) /\ Watched(p) /\ Watched(p)' => Captured(p)']_hVars

(* A robot that moves looks where it goes, whoever looks at it.            *)
FollowsPath == Localized /\ <>[]moving => <>[](gaze \in {"aside", "along"})

(* The head that follows the path goes on with it while the robot moves:   *)
(* eyeContactManager has reset the neck and does not turn it again.        *)
OnPath ==
  /\ headMode = "trajectory" /\ scan # "still" /\ gaze \in {"aside", "along"}
  /\ isReset /\ eye \notin People
KeepsToPath == [][OnPath /\ moving /\ moving' => OnPath']_hVars

(* The head of a robot that stands and that nobody looks at points ahead,  *)
(* at the floor only if the path did, too.                                 *)
HeadAtRest == Localized /\ <>[](~moving /\ ~Someone) => <>[](gaze \in {"ahead", "along"})

(* And it stays there while the robot stands and nobody looks at it.       *)
AtRest ==
  /\ headMode = "trajectory" /\ scan # "moving" /\ gaze \in {"ahead", "along"}
  /\ isReset /\ eye \notin People
Alone == ~moving /\ ~Someone
KeepsAtRest == [][AtRest /\ Alone /\ Alone' => AtRest']_hVars
==============================================================================
