------------------------------ MODULE OnTheMove ------------------------------
(***************************************************************************)
(* The programs that follow the robot's motion, together: robotNotLost     *)
(* stops a robot that the two programs of HeadGaze watch.  Each belongs to *)
(* an application of its own (app/btStructure, app/navigation2 and         *)
(* app/headSynchronizer), and any of them may be running.                  *)
(***************************************************************************)
EXTENDS HeadGaze, RobotNotLost

CONSTANT Started \* the sets of programs that may have been started

Programs == {"robotNotLost", "headObstaclesScanner", "eyeContactManager"}
ASSUME StartedOK == Started \subseteq SUBSET Programs

VARIABLE running \* the programs that run

motionVars == <<moving, gazeVars, lostVars, running>>

MotionTypeOK == LostTypeOK /\ GazeTypeOK /\ running \in Started

MotionInit == LostInit /\ GazeInit /\ moving = FALSE /\ running \in Started

ByLost(action) == "robotNotLost" \in running /\ action /\ UNCHANGED <<gazeVars, running>>
ByScanner(action) ==
  "headObstaclesScanner" \in running /\ action /\ UNCHANGED <<lostVars, running>>
ByManager(action) ==
  "eyeContactManager" \in running /\ action /\ UNCHANGED <<lostVars, running>>

MotionNext ==
  \/ ByLost(Skill) \/ ByScanner(Scanner) \/ ByManager(EyeContact)
  \/ Travel /\ UNCHANGED <<gazeVars, running>>
  \/ (Expire \/ Detect) /\ UNCHANGED <<lostVars, running>>
MotionSpec == MotionInit /\ [][MotionNext]_motionVars

----------------------------------------------------------------------------
(* The periods of a program that runs and the 6 s pass, frames come, the   *)
(* odometry goes on, AMCL sends poses to a robot that moves again and      *)
(* again, callbacks end, an error that is reported stops the robot, and a  *)
(* connected port takes the neck's commands.  No report need return.       *)
FairMotionSpec ==
  /\ MotionSpec
  /\ WF_motionVars(ByLost(Update)) /\ WF_motionVars(ByLost(StopNavigation))
  /\ WF_motionVars(ByLost(OdometryOnRead)) /\ WF_motionVars(ByLost(JudgeOdometry))
  /\ SF_motionVars(ByLost(PoseOnRead)) /\ WF_motionVars(ByLost(JudgePose))
  /\ WF_motionVars(ByScanner(Scanner)) /\ WF_motionVars(ByManager(EyeContact))
  /\ WF_motionVars(Expire /\ UNCHANGED <<lostVars, running>>)
  /\ SF_motionVars(ByManager(LookAtPixel(TRUE)))
  /\ SF_motionVars(ByManager(ResetNeck(TRUE)))

----------------------------------------------------------------------------
(* Properties of the neck, where both of its programs run.                 *)
HeadRuns == {"headObstaclesScanner", "eyeContactManager"} \subseteq running

(* A robot that stands looks at the closest person who looks at it and     *)
(* does not turn away again, whatever the scanner has last commanded.      *)
HeadLooksBack == HeadRuns => LooksBack

(* A robot that moves looks where it goes, whoever looks at it.            *)
HeadFollowsPath == HeadRuns => FollowsPath

(* The head of a robot that stands and that nobody looks at comes to point *)
(* ahead, at the floor only if the path did, too.                          *)
HeadComesToRest == HeadRuns => HeadAtRest
==============================================================================
