-------------------------- MODULE OnTheMoveProofs --------------------------
(***************************************************************************)
(* The modules that turn the neck do not disturb robotNotLost; whom        *)
(* eyeContactManager chooses, and that it keeps looking at them.           *)
(***************************************************************************)
EXTENDS OnTheMove, RobotNotLostProofs, WellFoundedInduction

(* A step of the whole, seen from the neck and seen from robotNotLost.     *)
LEMMA NeckSteps ==
  ASSUME [MotionNext]_motionVars
  PROVE  Scanner \/ EyeContact \/ Expire \/ Detect \/ UNCHANGED gazeVars
BY DEF MotionNext, ByLost, ByScanner, ByManager, motionVars

LEMMA NeckStandsStill ==
  ASSUME Scanner \/ EyeContact \/ Expire \/ Detect PROVE UNCHANGED moving
BY DEF Scanner, EyeContact, Expire, Detect, SweepMode, GetRobotPosition, LookPoint,
       UpdateModule, LookAtPixel, ResetNeck

LEMMA LostSteps == ASSUME [MotionNext]_motionVars PROVE [LostNext]_mVars
<1>1. CASE ByLost(Skill) \/ Travel
  BY <1>1 DEF ByLost, LostNext
<1>2. CASE \/ ByScanner(Scanner) \/ ByManager(EyeContact)
           \/ (Expire \/ Detect) /\ UNCHANGED <<lostVars, running>>
  BY <1>2, NeckStandsStill DEF ByScanner, ByManager, mVars
<1>3. CASE UNCHANGED motionVars
  BY <1>3 DEF motionVars, mVars
<1> QED BY <1>1, <1>2, <1>3 DEF MotionNext

(* The robot with its neck implements robotNotLost alone, whichever        *)
(* programs run: those that turn the neck command no movement of the base  *)
(* and touch no fault.                                                     *)
THEOREM MotionImplementsLost == MotionSpec => Spec
<1>1. MotionInit => LostInit /\ moving = FALSE
  BY DEF MotionInit
<1>2. [MotionNext]_motionVars => [LostNext]_mVars
  BY LostSteps
<1> QED
  BY <1>1, <1>2, PTL DEF MotionSpec, Spec

(* So a robot whose neck is turned, too, stays lost while a flag is up.    *)
THEOREM StaysLostOnTheMove == MotionSpec => LostWhileFaulty
BY MotionImplementsLost, StaysLost
----------------------------------------------------------------------------
(* Whom eyeContactManager chooses in a frame.                              *)

LEMMA SmallestNumber ==
  ASSUME NEW S, S \subseteq Nat, S # {} PROVE \E n \in S : \A m \in S : n <= m
<1>1. PICK n \in S : \A m \in S : <<m, n>> \notin OpToRel(<, Nat)
  BY WFMin, NatLessThanWellFounded
<1>2. ASSUME NEW m \in S, m < n PROVE FALSE
  <2>1. <<m, n>> \in OpToRel(<, Nat)
    BY <1>2 DEF OpToRel
  <2> QED BY <1>1, <2>1
<1>3. \A m \in S : n <= m
  BY <1>2
<1> QED BY <1>3

LEMMA ElementTyped ==
  ASSUME NEW S, NEW s \in Seq(S), NEW i \in DOMAIN s PROVE s[i] \in S
OBVIOUS

LEMMA FrameTyped ==
  ASSUME NEW f \in Frames
  PROVE  /\ DOMAIN f \subseteq Nat /\ Looking(f) \subseteq DOMAIN f
         /\ \A i \in DOMAIN f : f[i].depth \in Nat /\ f[i].who \in People
<1>1. f \in Seq([who : People, looking : BOOLEAN, depth : Nat])
  BY GazeConstantsOK
<1>2. DOMAIN f \subseteq Nat /\ Looking(f) \subseteq DOMAIN f
  BY <1>1 DEF Looking
<1>3. ASSUME NEW i \in DOMAIN f PROVE f[i].depth \in Nat /\ f[i].who \in People
  <2>1. f[i] \in [who : People, looking : BOOLEAN, depth : Nat]
    BY <1>1, ElementTyped
  <2> QED BY <2>1
<1> QED BY <1>2, <1>3

(* There is a first one of the closest; the CHOOSE of                      *)
(* GetClosestPersonLooking finds it.                                       *)
LEMMA ClosestExists ==
  ASSUME NEW f \in Frames, Looking(f) # {}
  PROVE  \E i \in Looking(f) : \A j \in Looking(f) : Precedes(f, i, j)
<1> DEFINE depths == {f[i].depth : i \in Looking(f)}
<1>1. PICK d \in depths : \A e \in depths : d <= e
  BY FrameTyped, SmallestNumber
<1> DEFINE nearest == {i \in Looking(f) : f[i].depth = d}
<1>2. PICK i \in nearest : \A j \in nearest : i <= j
  <2>1. nearest \subseteq Nat /\ nearest # {}
    BY FrameTyped
  <2> HIDE DEF nearest
  <2> QED BY <2>1, SmallestNumber
<1>3. ASSUME NEW j \in Looking(f) PROVE Precedes(f, i, j)
  <2>1. f[i].depth = d /\ f[j].depth \in Nat /\ d \in Nat /\ d <= f[j].depth
    BY <1>1, FrameTyped
  <2>2. CASE f[j].depth = d
    BY <1>2, <2>1, <2>2 DEF Precedes
  <2>3. CASE f[j].depth # d
    BY <2>1, <2>3 DEF Precedes
  <2> QED BY <2>2, <2>3
<1> QED BY <1>3

(* It is a person of the frame, and one who is closest is the one.         *)
LEMMA ClosestChosen ==
  ASSUME NEW f \in Frames, Looking(f) # {}
  PROVE  \E i \in Looking(f) : /\ GetClosestPersonLooking(f) = f[i].who
                               /\ \A j \in Looking(f) : f[i].depth <= f[j].depth
<1> DEFINE i == CHOOSE i \in Looking(f) : \A j \in Looking(f) : Precedes(f, i, j)
<1>1. i \in Looking(f) /\ \A j \in Looking(f) : Precedes(f, i, j)
  BY ClosestExists
<1>2. GetClosestPersonLooking(f) = f[i].who
  BY DEF GetClosestPersonLooking
<1> HIDE DEF i
<1>3. \A j \in Looking(f) : f[i].depth <= f[j].depth
  BY <1>1, FrameTyped DEF Precedes
<1> QED BY <1>1, <1>2, <1>3

LEMMA ClosestIsChosen ==
  ASSUME frame \in Frames, NEW p, Closest(p)
  PROVE  Looking(frame) # {} /\ GetClosestPersonLooking(frame) = p
<1>1. PICK i \in Looking(frame) :
        /\ frame[i].who = p
        /\ \A j \in Looking(frame) : frame[j].who = p \/ frame[i].depth < frame[j].depth
  BY DEF Closest
<1>2. PICK k \in Looking(frame) :
        /\ GetClosestPersonLooking(frame) = frame[k].who
        /\ \A j \in Looking(frame) : frame[k].depth <= frame[j].depth
  BY <1>1, ClosestChosen
<1>3. frame[i].depth \in Nat /\ frame[k].depth \in Nat /\ frame[k].depth <= frame[i].depth
  BY <1>1, <1>2, FrameTyped
<1> QED BY <1>1, <1>2, <1>3

----------------------------------------------------------------------------
(* The types.                                                              *)

LEMMA GazeInitTyped == MotionInit => GazeTypeOK
BY DEF MotionInit, GazeInit, GazeTypeOK, HeadModes, Sides, Directions

LEMMA ScannerTyped == ASSUME GazeTypeOK, Scanner PROVE GazeTypeOK'
<1>1. UNCHANGED <<moving, headMode, manager, frame>>
  BY DEF Scanner, SweepMode, GetRobotPosition, LookPoint
<1>2. scan' \in {"period", "stopped", "moving", "still"}
  BY DEF Scanner, SweepMode, GetRobotPosition, LookPoint, GazeTypeOK
<1>3. side' \in Sides \cup {"ahead"} /\ gaze' \in People \cup Sides \cup Directions
  <2>1. \A angle : Toward(angle) \in Directions
    BY DEF Toward, Directions
  <2>2. "left" \in Sides /\ "right" \in Sides
    BY DEF Sides
  <2> QED BY <2>1, <2>2 DEF Scanner, SweepMode, GetRobotPosition, LookPoint, GazeTypeOK
<1>4. idleMove' \in BOOLEAN
  BY DEF Scanner, SweepMode, GetRobotPosition, LookPoint, GazeTypeOK
<1> QED BY <1>1, <1>2, <1>3, <1>4, Zenon DEF GazeTypeOK, manager

LEMMA EyeContactTyped == ASSUME GazeTypeOK, EyeContact PROVE GazeTypeOK'
<1>1. UNCHANGED <<moving, scanner, frame>>
  BY DEF EyeContact, UpdateModule, LookAtPixel, ResetNeck
<1>2. isReset' \in BOOLEAN /\ expired' \in BOOLEAN
  BY DEF EyeContact, UpdateModule, LookAtPixel, ResetNeck, GazeTypeOK
<1>3. gaze' \in People \cup Sides \cup Directions
  BY DEF EyeContact, UpdateModule, LookAtPixel, ResetNeck, GazeTypeOK, Directions
<1>4. eye' \in People \cup {"read", "reset"}
  <2>1. CASE UpdateModule
    <3>1. frame \in Frames
      BY DEF GazeTypeOK
    <3>2. Looking(frame) # {} => GetClosestPersonLooking(frame) \in People
      BY <3>1, ClosestChosen, FrameTyped
    <3> QED BY <2>1, <3>2 DEF UpdateModule, GazeTypeOK
  <2>2. CASE ~UpdateModule
    BY <2>2 DEF EyeContact, LookAtPixel, ResetNeck
  <2> QED BY <2>1, <2>2
<1> QED BY <1>1, <1>2, <1>3, <1>4, Zenon DEF GazeTypeOK, scanner

RunningOK == running \in Started

(* The types of robotNotLost and of the modules that turn the neck: what   *)
(* eyeContactManager has decided is a person of a frame.                   *)
THEOREM MotionTypeCorrect == MotionSpec => []MotionTypeOK
<1>1. GazeTypeOK /\ LostTypeOK' /\ [MotionNext]_motionVars => GazeTypeOK'
  <2> SUFFICES ASSUME GazeTypeOK, LostTypeOK', [MotionNext]_motionVars PROVE GazeTypeOK'
    OBVIOUS
  <2>1. CASE Scanner
    BY <2>1, ScannerTyped
  <2>2. CASE EyeContact
    BY <2>2, EyeContactTyped
  <2>3. CASE Expire \/ Detect
    BY <2>3 DEF Expire, Detect, GazeTypeOK, scanner, manager
  <2>4. CASE UNCHANGED gazeVars
    <3>1. moving' \in BOOLEAN
      BY DEF LostTypeOK
    <3> QED BY <2>4, <3>1, Zenon DEF gazeVars, scanner, manager, GazeTypeOK
  <2> QED BY <2>1, <2>2, <2>3, <2>4, NeckSteps
<1>2. RunningOK /\ [MotionNext]_motionVars => RunningOK'
  BY DEF RunningOK, MotionNext, ByLost, ByScanner, ByManager, motionVars
<1>3. MotionSpec => []LostTypeOK
  BY MotionImplementsLost, TypeCorrect
<1>4. MotionInit => RunningOK
  BY DEF MotionInit, RunningOK
<1>5. GazeTypeOK /\ LostTypeOK /\ RunningOK <=> MotionTypeOK
  BY DEF MotionTypeOK, RunningOK
<1> QED BY <1>1, <1>2, <1>3, <1>4, <1>5, GazeInitTyped, PTL DEF MotionSpec

----------------------------------------------------------------------------
(* Eye contact is kept: while the robot stands and the same person is the  *)
(* closest, eyeContactManager decides on nobody else and the scanner,      *)
(* having looked ahead once, leaves the neck alone.                        *)
THEOREM EyeContactIsKept == MotionSpec => KeepsEyeContact
<1> DEFINE Kept(p) == Captured(p) /\ Watched(p) /\ Watched(p)' => Captured(p)'
<1>1. MotionTypeOK /\ [MotionNext]_motionVars => [\A p \in People : Kept(p)]_hVars
  <2> SUFFICES ASSUME GazeTypeOK, [MotionNext]_motionVars, NEW p \in People,
                      Captured(p), Watched(p), Watched(p)'
               PROVE  Captured(p)'
    BY DEF MotionTypeOK
  <2>1. p # "read" /\ p # "reset"
    BY GazeConstantsOK
  <2>2. CASE Scanner
    <3>1. CASE GetRobotPosition
      BY <3>1 DEF GetRobotPosition, Captured, Watched, manager
    <3>2. ~SweepMode
      BY DEF SweepMode, Captured
    <3>3. CASE LookPoint
      BY <3>3 DEF LookPoint, Captured, manager
    <3> QED BY <2>2, <3>1, <3>2, <3>3 DEF Scanner
  <2>3. CASE UpdateModule
    <3>1. eye' = p
      <4>1. Looking(frame) # {} /\ GetClosestPersonLooking(frame) = p /\ ~moving
        BY ClosestIsChosen DEF GazeTypeOK, Watched
      <4> QED BY <2>3, <4>1 DEF UpdateModule
    <3> QED BY <2>3, <3>1 DEF UpdateModule, Captured, scanner
  <2>4. ASSUME NEW sent \in BOOLEAN, LookAtPixel(sent) PROVE Captured(p)'
    <3>1. eye = p
      BY <2>1, <2>4, GazeConstantsOK DEF LookAtPixel, Captured
    <3> QED BY <2>4, <3>1 DEF LookAtPixel, Captured, scanner
  <2>5. ASSUME NEW sent \in BOOLEAN, ResetNeck(sent) PROVE Captured(p)'
    BY <2>1, <2>5 DEF ResetNeck, Captured
  <2>6. CASE Expire \/ Detect \/ UNCHANGED gazeVars
    BY <2>6 DEF Expire, Detect, Captured, gazeVars, scanner, manager
  <2> QED BY <2>2, <2>3, <2>4, <2>5, <2>6, NeckSteps
      DEF EyeContact
<1> QED BY <1>1, MotionTypeCorrect, PTL DEF MotionSpec, KeepsEyeContact

(* While the robot moves the head stays with the path once it follows it,  *)
(* whoever looks at the robot: neither module turns it away.               *)
THEOREM PathIsKept == MotionSpec => KeepsToPath
<1>1. GazeTypeOK /\ [MotionNext]_motionVars => [OnPath /\ moving /\ moving' => OnPath']_hVars
  <2> SUFFICES ASSUME GazeTypeOK, [MotionNext]_motionVars,
                      OnPath, moving, moving'
               PROVE  OnPath'
    OBVIOUS
  <2>1. CASE Scanner
    <3>1. CASE GetRobotPosition
      BY <3>1 DEF GetRobotPosition, OnPath, manager
    <3>2. ~SweepMode
      BY DEF SweepMode, OnPath
    <3>3. CASE LookPoint
      BY <3>3 DEF LookPoint, PathAngles, Toward, OnPath, manager
    <3> QED BY <2>1, <3>1, <3>2, <3>3 DEF Scanner
  <2>2. CASE UpdateModule
    <3>1. eye' \in {"read", "reset"}
      BY <2>2 DEF UpdateModule
    <3> QED BY <2>2, <3>1, GazeConstantsOK DEF UpdateModule, OnPath, scanner
  <2>3. ASSUME NEW sent \in BOOLEAN, LookAtPixel(sent) \/ ResetNeck(sent) PROVE OnPath'
    BY <2>3, GazeConstantsOK DEF LookAtPixel, ResetNeck, OnPath, scanner
  <2>4. CASE Expire \/ Detect \/ UNCHANGED gazeVars
    BY <2>4 DEF Expire, Detect, OnPath, gazeVars, scanner, manager
  <2> QED BY <2>1, <2>2, <2>3, <2>4, NeckSteps DEF EyeContact
<1>2. MotionTypeOK => GazeTypeOK
  BY DEF MotionTypeOK
<1> QED BY <1>1, <1>2, MotionTypeCorrect, PTL DEF MotionSpec, KeepsToPath

(* While the robot stands and nobody looks at it the head that points      *)
(* ahead goes on to do so.                                                 *)
THEOREM RestIsKept == MotionSpec => KeepsAtRest
<1>1. GazeTypeOK /\ [MotionNext]_motionVars => [AtRest /\ Alone /\ Alone' => AtRest']_hVars
  <2> SUFFICES ASSUME GazeTypeOK, [MotionNext]_motionVars,
                      AtRest, Alone, Alone'
               PROVE  AtRest'
    OBVIOUS
  <2>1. CASE Scanner
    <3>1. CASE GetRobotPosition
      BY <3>1 DEF GetRobotPosition, AtRest, manager, Alone, Someone
    <3>2. ~SweepMode
      BY DEF SweepMode, AtRest
    <3>3. CASE LookPoint
      BY <3>3 DEF LookPoint, PathAngles, Toward, AtRest, manager
    <3> QED BY <2>1, <3>1, <3>2, <3>3 DEF Scanner
  <2>2. CASE UpdateModule
    <3>1. eye' \in {"read", "reset"}
      BY <2>2 DEF UpdateModule, Alone, Someone
    <3> QED BY <2>2, <3>1, GazeConstantsOK DEF UpdateModule, AtRest, scanner
  <2>3. ASSUME NEW sent \in BOOLEAN, LookAtPixel(sent) \/ ResetNeck(sent) PROVE AtRest'
    BY <2>3, GazeConstantsOK DEF LookAtPixel, ResetNeck, AtRest, scanner
  <2>4. CASE Expire \/ Detect \/ UNCHANGED gazeVars
    BY <2>4 DEF Expire, Detect, AtRest, gazeVars, scanner, manager
  <2> QED BY <2>1, <2>2, <2>3, <2>4, NeckSteps DEF EyeContact
<1>2. MotionTypeOK => GazeTypeOK
  BY DEF MotionTypeOK
<1> QED BY <1>1, <1>2, MotionTypeCorrect, PTL DEF MotionSpec, KeepsAtRest
==============================================================================
