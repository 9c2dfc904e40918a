---------------------------- MODULE BehaviorTree ----------------------------
(***************************************************************************)
(* bt_server ticks the tree GoAndExecPoi.xml every 500 ms; each leaf is a  *)
(* call of a skill, and the skills call TourManager, which this module     *)
(* extends:                                                                *)
(*                                                                         *)
(*   ReactiveSequence                                                      *)
(*     motorsNotInFault, batteryCharged                                    *)
(*     Fallback                                                            *)
(*       AtPoI_Cond                                                        *)
(*       ReactiveSequence                                                  *)
(*         ReactiveFallback: goalAvailable, waitGoalAvailability           *)
(*         GoToPoI_Act                                                     *)
(*                                                                         *)
(* A condition is a call that returns at once.  An action calls start() on *)
(* a thread of its own and is RUNNING until it has returned; a halt does   *)
(* not stop that thread, and the next start() waits for it.  The Fallback  *)
(* remembers a RUNNING child.  batteryCharged always answers true.         *)
(*                                                                         *)
(* A watchdog skill (motorsNotInFault, robotNotTouched and                 *)
(* failureNetworkNotReceived have the same loop) reports its fault to the  *)
(* tour manager on a thread of its own, in the tree or not.                *)
(***************************************************************************)
EXTENDS TourManager

CONSTANTS
  Readings, \* what the devices of each watchdog may read
  Crowds    \* the places where people may stand, 0 for none

Motors == "motors"  \* the watchdog that is in the tree
Modes == {"velocity", "position", "idle", "fault", "unknown"}

ASSUME TreeConstantsOK ==
  /\ Watchdogs \subseteq {Motors, "touched", "network"}
  /\ DOMAIN Readings = Watchdogs /\ Crowds \subseteq Places

VARIABLES
  tree,          \* what the tick does next; "sleep" between two ticks
  going,         \* GoToPoI_Act is RUNNING
  waiting,       \* waitGoalAvailability is RUNNING
  starts,        \* the calls of GoToPoI_Act's start() that have not returned
  serving,       \* whether one of them is in sendToPoI
  condition,     \* m_condition, m_notTouched, m_flag of each watchdog
  dog,           \* where each watchdog's updateModule is
  reading,       \* external: what the watchdog's devices read
  goalAvailable, \* m_goalAvailable
  watched,       \* targetname of goalAvailable, 0 while it is empty
  crowd          \* external: the place people stand at

node == <<going, waiting, starts, serving>>
watchdogs == <<condition, dog, reading>>
goalSkill == <<goalAvailable, watched, crowd>>
treeVars == <<tree, node, watchdogs, goalSkill>>
allVars == <<vars, treeVars>>

TreeTypeOK ==
  /\ tree \in {"sleep", "atPoI", "goal", "answer", "wait", "go", "join", "look"}
  /\ going \in BOOLEAN /\ waiting \in BOOLEAN
  /\ starts \in 0..2 /\ serving \in BOOLEAN
  /\ condition \in [Watchdogs -> BOOLEAN]
  /\ dog \in [Watchdogs -> {"watch", "loop", "look"}]
  /\ DOMAIN reading = Watchdogs /\ \A w \in Watchdogs : reading[w] \in Readings[w]
  /\ goalAvailable \in BOOLEAN /\ watched \in Places /\ crowd \in Crowds

----------------------------------------------------------------------------
(* The tick.                                                               *)

(* Mutant: the tree goes on whatever the motors say.                       *)
AskNoMotors ==
  /\ tree = "sleep"
  /\ tree' = IF going \/ waiting THEN "goal" ELSE "atPoI"
  /\ UNCHANGED <<vars, node, watchdogs, goalSkill>>

(* halt calls stop(): the skills of the tree set a flag nobody reads.      *)
Halt == going' = FALSE /\ waiting' = FALSE

AskMotors ==
  /\ tree = "sleep"
  /\ IF \A w \in Watchdogs \cap {Motors} : condition[w]
     THEN /\ tree' = IF going \/ waiting THEN "goal" ELSE "atPoI"
          /\ UNCHANGED <<going, waiting>>
     ELSE tree' = "sleep" /\ Halt
  /\ UNCHANGED <<vars, starts, serving, watchdogs, goalSkill>>

AskAtPoI ==
  /\ tree = "atPoI"
  /\ tree' = IF AtPoI THEN "sleep" ELSE "goal"
  /\ UNCHANGED <<vars, node, watchdogs, goalSkill>>

(* goalAvailable stops the navigation while the goal is occupied, and      *)
(* reads the flag again for its answer.                                    *)
AskGoal ==
  /\ tree = "goal" /\ tree' = "answer"
  /\ IF goalAvailable THEN UNCHANGED nav ELSE NavigationStops
  /\ UNCHANGED <<tour, arrival, firstStart, talk, goal, todo, failing, speech,
                 target, place, node, watchdogs, goalSkill>>

GoalAnswers ==
  /\ tree = "answer"
  /\ IF goalAvailable THEN tree' = "go" /\ waiting' = FALSE
                      ELSE tree' = "wait" /\ UNCHANGED waiting
  /\ UNCHANGED <<vars, going, starts, serving, watchdogs, goalSkill>>

(* Nothing is waited for: start() returns at once.  If the answer takes    *)
(* more than 100 ms, GoToPoI_Act is halted and the answer is there at the  *)
(* next tick.                                                              *)
Wait ==
  /\ tree = "wait"
  /\ \/ tree' = "go" /\ waiting' = FALSE /\ UNCHANGED going
     \/ ~waiting /\ tree' = "sleep" /\ waiting' = TRUE /\ going' = FALSE
  /\ UNCHANGED <<vars, starts, serving, watchdogs, goalSkill>>

(* Mutant: the handle of the last call is dropped, not waited for.         *)
GoWithoutJoin ==
  /\ tree = "go"
  /\ tree' = "look"
  /\ starts' = IF going THEN starts ELSE starts + 1
  /\ UNCHANGED <<vars, going, waiting, serving, watchdogs, goalSkill>>

(* A new coroutine calls start() and, assigning the handle, waits for the  *)
(* call of the one before.                                                 *)
Go ==
  /\ tree = "go"
  /\ IF going THEN tree' = "look" /\ UNCHANGED starts
     ELSE tree' = (IF starts = 0 THEN "look" ELSE "join") /\ starts' = starts + 1
  /\ UNCHANGED <<vars, going, waiting, serving, watchdogs, goalSkill>>

Join ==
  /\ tree = "join" /\ starts < 2 /\ tree' = "look"
  /\ UNCHANGED <<vars, node, watchdogs, goalSkill>>

(* The node succeeds whatever start() has answered.                        *)
Look ==
  /\ tree = "look" /\ tree' = "sleep"
  /\ going' = (starts # 0)
  /\ UNCHANGED <<vars, waiting, starts, serving, watchdogs, goalSkill>>

Tick == AskMotors \/ AskAtPoI \/ AskGoal \/ GoalAnswers \/ Wait \/ Go \/ Join \/ Look

(* The calls share one connection to the skill: one is served at a time.   *)
BeginStart ==
  /\ starts > 0 /\ ~serving /\ serving' = TRUE
  /\ SendToPoI
  /\ UNCHANGED <<tree, going, waiting, starts, watchdogs, goalSkill>>

(* Mutant: the answer to a node that was halted is not taken.              *)
EndStartOfRunning ==
  /\ serving /\ todo[GoTo] = <<>> /\ going
  /\ serving' = FALSE /\ starts' = starts - 1
  /\ UNCHANGED <<vars, tree, going, waiting, watchdogs, goalSkill>>

EndStart ==
  /\ serving /\ todo[GoTo] = <<>>
  /\ serving' = FALSE /\ starts' = starts - 1
  /\ UNCHANGED <<vars, tree, going, waiting, watchdogs, goalSkill>>

----------------------------------------------------------------------------
(* The watchdogs.                                                          *)

BaseInFault(r) ==
  \/ "fault" \in {r.left, r.right}
  \/ (r.left = "idle") # (r.right = "idle")

ArmInFault(joints) == "fault" \in joints  \* leftArm and rightArm

(* The forces are sums of squares of the change since the first reading;   *)
(* isTouched() is true while the robot is not touched.                     *)
IsTouched(r) == r = "light"
IsNetworkUp(r) == r = "reply"

InFault(w) ==
  CASE w = Motors    -> LET r == reading[w] IN
                          BaseInFault(r) \/ ArmInFault(r.leftArm) \/ ArmInFault(r.rightArm)
    [] w = "touched" -> ~IsTouched(reading[w])
    [] w = "network" -> ~IsNetworkUp(reading[w])

(* updateModule: the first look.                                           *)
Watch(w) ==
  /\ dog[w] = "watch" /\ InFault(w)
  /\ SendError(w)
  /\ condition' = [condition EXCEPT ![w] = FALSE]
  /\ dog' = [dog EXCEPT ![w] = "loop"]
  /\ UNCHANGED <<tree, node, reading, goalSkill>>

(* After 5 s the error is reported again.                                  *)
Repeat(w) ==
  /\ dog[w] = "loop"
  /\ SendError(w)
  /\ dog' = [dog EXCEPT ![w] = "look"]
  /\ UNCHANGED <<tree, node, condition, reading, goalSkill>>

(* Mutant: the flag stays as the first look has left it.                   *)
LookInVain(w) ==
  /\ dog[w] \in {"loop", "look"} /\ todo[w] = <<>>
  /\ IF InFault(w)
     THEN dog' = [dog EXCEPT ![w] = "loop"] /\ UNCHANGED <<vars, condition>>
     ELSE /\ Recovered(w)
          /\ dog' = [dog EXCEPT ![w] = "watch"]
          /\ UNCHANGED condition
  /\ UNCHANGED <<tree, node, reading, goalSkill>>

LookAgain(w) ==
  /\ dog[w] \in {"loop", "look"} /\ todo[w] = <<>>
  /\ IF InFault(w)
     THEN dog' = [dog EXCEPT ![w] = "loop"] /\ UNCHANGED <<vars, condition>>
     ELSE /\ Recovered(w)
          /\ condition' = [condition EXCEPT ![w] = TRUE]
          /\ dog' = [dog EXCEPT ![w] = "watch"]
  /\ UNCHANGED <<tree, node, reading, goalSkill>>

Read(w) ==
  /\ \E r \in Readings[w] \ {reading[w]} : reading' = [reading EXCEPT ![w] = r]
  /\ UNCHANGED <<vars, tree, node, condition, dog, goalSkill>>

----------------------------------------------------------------------------
(* goalAvailable's own thread.  The name it keeps is the last target.      *)

(* Mutant: a goal that was occupied once stays so.                         *)
UpdateGoalOnce ==
  /\ watched' = IF nav = "moving" THEN target ELSE watched
  /\ goalAvailable' = (goalAvailable /\ (watched' = 0 \/ crowd # watched'))
  /\ UNCHANGED <<vars, tree, node, watchdogs, crowd>>

UpdateGoal ==
  /\ watched' = IF nav = "moving" THEN target ELSE watched
  /\ goalAvailable' = (watched' = 0 \/ crowd # watched')
  /\ UNCHANGED <<vars, tree, node, watchdogs, crowd>>

Gather ==
  /\ crowd' \in Crowds \ {crowd}
  /\ UNCHANGED <<vars, tree, node, watchdogs, goalAvailable, watched>>

----------------------------------------------------------------------------
TreeInit ==
  /\ Init
  /\ tree = "sleep" /\ going = FALSE /\ waiting = FALSE /\ starts = 0 /\ serving = FALSE
  /\ condition = [w \in Watchdogs |-> TRUE] /\ dog = [w \in Watchdogs |-> "watch"]
  /\ reading \in [Watchdogs -> UNION {Readings[w] : w \in Watchdogs}]
  /\ \A w \in Watchdogs : reading[w] \in Readings[w]
  /\ goalAvailable = TRUE /\ watched = 0 /\ crowd \in Crowds

Dog(w) == Watch(w) \/ Repeat(w) \/ LookAgain(w)
Manager(t) == Step(t) /\ UNCHANGED treeVars
Dialogue == \E command \in Commands : Receive(command) /\ UNCHANGED treeVars
World == (FinishText \/ LowerFlag \/ Move) /\ UNCHANGED treeVars

TreeNext ==
  \/ Tick \/ BeginStart \/ EndStart
  \/ \E w \in Watchdogs : Dog(w) \/ Read(w)
  \/ UpdateGoal \/ Gather
  \/ Dialogue \/ World
  \/ \E t \in Threads : Manager(t)

TreeSpec == TreeInit /\ [][TreeNext]_allVars

(* The code's threads go on and the 5 s pass; nobody's else does.          *)
FairTreeSpec ==
  /\ TreeSpec
  /\ WF_<<tree, node>>(Tick) /\ WF_node(BeginStart \/ EndStart) /\ WF_goalSkill(UpdateGoal)
  /\ WF_speech(FinishText \/ LowerFlag) /\ WF_world(Move)
  /\ \A w \in Watchdogs : WF_dog(Dog(w))
  /\ \A t \in Threads : WF_(todo[t])(Step(t))

----------------------------------------------------------------------------
(* Properties.                                                             *)

CallsEnd == \A t \in Threads : []<>(todo[t] = <<>>)
Quiet == todo[Dialog] = <<>> /\ crowd = 0 /\ \A w \in Watchdogs : ~InFault(w)

(* A navigation that knows the PoIs, takes its goals, reaches them, and    *)
(* not before sendToPoI has seen it move.                                  *)
Serves ==
  /\ At(GoTo, "locate") /\ ~(At(GoTo, "locate"))' => todo'[GoTo] # <<>>
  /\ At(GoTo, "gotoTarget") /\ ~(At(GoTo, "gotoTarget"))' => nav' = "preparing"
  /\ nav = "moving" => nav' # "aborted"
  /\ nav = "moving" /\ At(GoTo, "awaitMoving") => nav' # "reached"

(* What the tour manager, its base and its head do among the skills: their *)
(* own steps, a sendToPoI whenever the skill calls it, and a stop of the   *)
(* base that goalAvailable commands without telling the tour manager.      *)
StopFromOutside ==
  /\ NavigationStops
  /\ UNCHANGED <<tour, arrival, firstStart, talk, goal, todo, failing, speech, target, place>>
OpenTour == Init /\ [][Next \/ SendToPoI \/ StopFromOutside]_vars

(* What a watchdog has told the tour manager, what it answers to the tree  *)
(* and where its loop is never disagree: no report is without its          *)
(* recovery, and no recovery without a report.                             *)
ReportsAgree ==
  \A w \in Watchdogs : /\ w \in failing <=> dog[w] # "watch"
                       /\ condition[w] <=> dog[w] = "watch"

(* The robot moves only while sendToPoI serves a start() of GoToPoI_Act    *)
(* that the tree waits for before the next one: when none is left, no      *)
(* halted node has left it moving.                                         *)
MovesForAStart == nav \in {"preparing", "moving"} => serving /\ starts > 0

(* If the calls of the tour manager return, every tick does: the wait for  *)
(* an old start() ends.                                                    *)
TickReturns == CallsEnd => []<>(tree = "sleep")

(* After the last fault, crowd, refusal and command the robot reaches its  *)
(* PoI, whatever was halted or has failed before: the tree tries again.    *)
RobotGoes == CallsEnd /\ <>[]Quiet /\ <>[][Serves]_allVars => []<>AtPoI

(* A fault of the motors that lasts brings the robot to a stop.            *)
FaultStopsRobot ==
  \A w \in Watchdogs \cap {Motors} :
    CallsEnd /\ <>[]InFault(w) => <>[](nav \notin {"preparing", "moving"})
==============================================================================
