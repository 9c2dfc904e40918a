---------------------------- MODULE RobotNotLost ----------------------------
(***************************************************************************)
(* The skill robotNotLost.  Callbacks lower a flag, compare the poses of   *)
(* AMCL or the velocities of the odometry with the ones before, and raise  *)
(* it; every period the module counts the flags it finds raised up and the *)
(* others down, and reports an error while the counts add up to Limit.     *)
(* The report is a call of the tour manager's sendError, which stops the   *)
(* navigation first, says a sentence, and returns when that is over.       *)
(*                                                                         *)
(* A flag is lowered by the next message only, and AMCL sends a pose only  *)
(* while the robot moves: the counters count periods, not messages.  The   *)
(* four flags of a pose raise the same counter and are lowered together;   *)
(* they are one flag here, and the averages over the messages received so  *)
(* far that raise them any verdict.                                        *)
(***************************************************************************)
EXTENDS Integers, Navigation

CONSTANTS
  Limit, \* the faults that stop the tour (10)
  Cap    \* bound: a counter stops there

ASSUME LostConstantsOK ==
  Limit \in Nat \ {0} /\ Cap \in Nat /\ Cap >= Limit

VARIABLES
  poseFault,   \* one of amcl_temporal_..._fault, amcl_odom_..._fault
  odomFault,   \* odom_temporal_fault
  judging,     \* the callbacks that have lowered their flag and given no verdict
  poseFaults,  \* amcl_total_faults
  odomFaults,  \* odom_total_faults
  notLost,     \* m_robotNotLost
  report       \* sendError: "none", "called", or "stopped" when it has stopped the robot

diagnostics == <<poseFault, odomFault, judging>>
counters == <<poseFaults, odomFaults, notLost>>
lostVars == <<diagnostics, counters, report>>
mVars == <<moving, lostVars>>

LostTypeOK ==
  /\ moving \in BOOLEAN
  /\ poseFault \in BOOLEAN /\ odomFault \in BOOLEAN
  /\ poseFaults \in 0..Cap /\ odomFaults \in 0..Cap
  /\ judging \subseteq {"pose", "odometry"}
  /\ notLost \in BOOLEAN /\ report \in {"none", "called", "stopped"}

LostInit ==
  /\ poseFault = FALSE /\ odomFault = FALSE
  /\ poseFaults = 0 /\ odomFaults = 0 /\ notLost = TRUE
  /\ judging = {} /\ report = "none"

OneMore(n) == IF n < Cap THEN n + 1 ELSE n

----------------------------------------------------------------------------
(* Mutant: a new pose does not lower the flag.                             *)
PoseKeepsFault ==
  /\ moving /\ "pose" \notin judging
  /\ judging' = judging \cup {"pose"}
  /\ UNCHANGED <<moving, poseFault, odomFault, counters, report>>

(* AmclPort::onRead; the last pose may come after the robot has stopped,   *)
(* which is the same as its coming just before.                            *)
PoseOnRead ==
  /\ moving /\ "pose" \notin judging
  /\ judging' = judging \cup {"pose"}
  /\ poseFault' = FALSE
  /\ UNCHANGED <<moving, odomFault, counters, report>>

JudgePose ==
  /\ "pose" \in judging
  /\ judging' = judging \ {"pose"}
  /\ poseFault' \in {poseFault, TRUE}
  /\ UNCHANGED <<moving, odomFault, counters, report>>

(* OdomPort::onRead                                                        *)
OdometryOnRead ==
  /\ "odometry" \notin judging
  /\ judging' = judging \cup {"odometry"}
  /\ odomFault' = FALSE
  /\ UNCHANGED <<moving, poseFault, counters, report>>

JudgeOdometry ==
  /\ "odometry" \in judging
  /\ judging' = judging \ {"odometry"}
  /\ odomFault' \in {odomFault, TRUE}
  /\ UNCHANGED <<moving, poseFault, counters, report>>

(* Mutant: a flag that is down clears the counter.                         *)
Forgotten(flag, n) == IF flag THEN OneMore(n) ELSE 0

(* Mutant: the counter goes below zero.                                    *)
CountedBelow(flag, n) == IF flag THEN OneMore(n) ELSE n - 1

(* A counter goes up while its flag is raised and down while it is not.    *)
Counted(flag, n) ==
  IF flag THEN OneMore(n) ELSE IF n > 0 THEN n - 1 ELSE 0

(* Mutant: the error is reported once.                                     *)
UpdateReportsOnce ==
  /\ report = "none"
  /\ poseFaults' = Counted(poseFault, poseFaults)
  /\ odomFaults' = Counted(odomFault, odomFaults)
  /\ notLost' = (poseFaults' + odomFaults' < Limit)
  /\ report' = IF notLost' \/ ~notLost THEN "none" ELSE "called"
  /\ UNCHANGED <<moving, diagnostics>>

(* updateModule; there is no other period before its call has returned.    *)
Update ==
  /\ report = "none"
  /\ poseFaults' = Counted(poseFault, poseFaults)
  /\ odomFaults' = Counted(odomFault, odomFaults)
  /\ notLost' = (poseFaults' + odomFaults' < Limit)
  /\ report' = IF notLost' THEN "none" ELSE "called"
  /\ UNCHANGED <<moving, diagnostics>>

(* The tour manager's sendError.                                           *)
StopNavigation ==
  /\ report = "called" /\ report' = "stopped"
  /\ Stop
  /\ UNCHANGED <<diagnostics, counters>>

ErrorReturns ==
  /\ report = "stopped" /\ report' = "none"
  /\ UNCHANGED <<moving, diagnostics, counters>>

Callbacks == PoseOnRead \/ JudgePose \/ OdometryOnRead \/ JudgeOdometry
Skill == Callbacks \/ Update \/ StopNavigation \/ ErrorReturns
Travel == (Depart \/ Stop) /\ UNCHANGED lostVars

LostNext == Skill \/ Travel

Spec == LostInit /\ moving = FALSE /\ [][LostNext]_mVars

----------------------------------------------------------------------------
(* Properties.                                                             *)

(* A robot that is lost stays lost while either flag is raised, even if    *)
(* the other counter goes down meanwhile.                                  *)
LostWhileFaulty == [][~notLost /\ (poseFault \/ odomFault) => ~notLost']_mVars

(* Nothing in the code ensures that sendError returns: it waits for a      *)
(* sentence, and while it does the skill counts nothing (line 367).        *)
ReportsReturn == []<>(report = "none")

(* If its reports return, who stays lost is stopped again each time        *)
(* someone sends the robot off.                                            *)
StopsWhenLost == ReportsReturn /\ <>[]~notLost => []<>~moving

(* When messages raise no flag any more, the robot is still sent off and   *)
(* the reports return, it is not lost for ever, although only a pose       *)
(* lowers the poses' flag.                                                 *)
RaisesNone == (poseFault' => poseFault) /\ (odomFault' => odomFault)
Recovers ==
  ReportsReturn /\ <>[][RaisesNone]_mVars /\ []<>moving => <>[]notLost
==============================================================================
