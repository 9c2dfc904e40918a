------------------------- MODULE RobotNotLostProofs -------------------------
(* Theorems about RobotNotLost, for every Limit and Cap.                   *)
EXTENDS RobotNotLost, TLAPS

LEMMA CountedTyped ==
  ASSUME NEW flag \in BOOLEAN, NEW n \in 0..Cap
  PROVE  Counted(flag, n) \in 0..Cap
BY LostConstantsOK DEF Counted, OneMore

(* A raised flag's counter and another's do not fall below the limit       *)
(* together.                                                               *)
LEMMA CountersStay ==
  ASSUME NEW f \in BOOLEAN, NEW g \in BOOLEAN, f \/ g,
         NEW m \in 0..Cap, NEW n \in 0..Cap, m + n >= Limit
  PROVE  Counted(f, m) + Counted(g, n) >= Limit
BY LostConstantsOK DEF Counted, OneMore

(* Every variable has its type.                                            *)
THEOREM TypeCorrect == Spec => []LostTypeOK
<1>1. LostInit /\ moving = FALSE => LostTypeOK
  <2> SUFFICES ASSUME LostInit, moving = FALSE PROVE LostTypeOK
    OBVIOUS
  <2>1. 0 \in 0..Cap /\ {} \subseteq {"pose", "odometry"}
    BY LostConstantsOK
  <2> QED
    BY <2>1, Zenon DEF LostInit, LostTypeOK
<1>2. LostTypeOK /\ [LostNext]_mVars => LostTypeOK'
  <2> SUFFICES ASSUME LostTypeOK, [LostNext]_mVars PROVE LostTypeOK'
    OBVIOUS
  <2>1. CASE Callbacks
    <3>1. judging' \subseteq {"pose", "odometry"}
      BY <2>1 DEF Callbacks, PoseOnRead, JudgePose, OdometryOnRead, JudgeOdometry, LostTypeOK
    <3>2. poseFault' \in BOOLEAN /\ odomFault' \in BOOLEAN
      BY <2>1 DEF Callbacks, PoseOnRead, JudgePose, OdometryOnRead, JudgeOdometry, LostTypeOK
    <3>3. UNCHANGED <<moving, counters, report>>
      BY <2>1 DEF Callbacks, PoseOnRead, JudgePose, OdometryOnRead, JudgeOdometry
    <3> QED
      BY <3>1, <3>2, <3>3 DEF counters, LostTypeOK
  <2>2. CASE Update
    <3>1. poseFaults' \in 0..Cap /\ odomFaults' \in 0..Cap
      BY <2>2, CountedTyped DEF Update, LostTypeOK
    <3>2. notLost' \in BOOLEAN /\ report' \in {"none", "called", "stopped"}
      BY <2>2 DEF Update
    <3> QED
      BY <2>2, <3>1, <3>2 DEF Update, diagnostics, LostTypeOK
  <2>3. CASE StopNavigation \/ ErrorReturns \/ Travel
    BY <2>3
    DEF StopNavigation, ErrorReturns, Travel, Depart, Stop, lostVars, diagnostics, counters,
        LostTypeOK
  <2>4. CASE UNCHANGED mVars
    BY <2>4 DEF mVars, lostVars, diagnostics, counters, LostTypeOK
  <2> QED
    BY <2>1, <2>2, <2>3, <2>4 DEF LostNext, Skill
<1> QED
  BY <1>1, <1>2, PTL DEF Spec

(* Only updateModule counts and says whether the robot is lost.            *)
LEMMA OthersCountNothing ==
  ASSUME [LostNext]_mVars, ~Update PROVE UNCHANGED counters
BY DEF LostNext, Skill, Callbacks, PoseOnRead, JudgePose, OdometryOnRead, JudgeOdometry,
       StopNavigation, ErrorReturns, Travel, mVars, lostVars

(* Between two periods the counters are still those that the robot was     *)
(* found lost with.                                                        *)
LostInv == ~notLost => poseFaults + odomFaults >= Limit

LEMMA LostMeansFaults == Spec => []LostInv
<1>1. LostInit => LostInv
  BY DEF LostInit, LostInv
<1>2. LostTypeOK /\ LostInv /\ [LostNext]_mVars => LostInv'
  <2> SUFFICES ASSUME LostTypeOK, LostInv, [LostNext]_mVars PROVE LostInv'
    OBVIOUS
  <2>1. CASE Update
    <3>1. poseFaults' \in 0..Cap /\ odomFaults' \in 0..Cap
      BY <2>1, CountedTyped DEF Update, LostTypeOK
    <3>2. ~notLost' => ~(poseFaults' + odomFaults' < Limit)
      BY <2>1, Zenon DEF Update
    <3>3. \A m, n \in 0..Cap : m + n < Limit \/ m + n >= Limit
      BY LostConstantsOK
    <3> QED
      BY <3>1, <3>2, <3>3, Zenon DEF LostInv
  <2>2. CASE ~Update
    BY <2>2, OthersCountNothing DEF LostInv, counters
  <2> QED
    BY <2>1, <2>2
<1> QED
  BY <1>1, <1>2, TypeCorrect, PTL DEF Spec

(* A robot that is lost stays lost while either flag is raised: the module *)
(* takes no good odometry for the recovery of a bad pose, nor the reverse. *)
THEOREM StaysLost == Spec => LostWhileFaulty
<1> DEFINE Stays == ~notLost /\ (poseFault \/ odomFault) => ~notLost'
<1>1. LostTypeOK /\ LostInv /\ [LostNext]_mVars => [Stays]_mVars
  <2> SUFFICES ASSUME LostTypeOK, LostInv, [LostNext]_mVars, ~notLost, poseFault \/ odomFault
               PROVE  ~notLost'
    OBVIOUS
  <2>1. CASE Update
    <3>1. /\ poseFaults' = Counted(poseFault, poseFaults)
          /\ odomFaults' = Counted(odomFault, odomFaults)
          /\ notLost' => poseFaults' + odomFaults' < Limit
      BY <2>1, Zenon DEF Update
    <3>2. poseFaults' + odomFaults' >= Limit
      BY <3>1, CountersStay DEF LostTypeOK, LostInv
    <3>3. poseFaults' \in 0..Cap /\ odomFaults' \in 0..Cap
      BY <3>1, CountedTyped DEF LostTypeOK
    <3> QED
      BY <3>1, <3>2, <3>3, LostConstantsOK
  <2>2. CASE ~Update
    BY <2>2, OthersCountNothing DEF counters
  <2> QED
    BY <2>1, <2>2
<1> QED
  BY <1>1, TypeCorrect, LostMeansFaults, PTL DEF Spec, LostWhileFaulty
==============================================================================
