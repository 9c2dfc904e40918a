------------------------- MODULE BehaviorTreeProofs -------------------------
(***************************************************************************)
(* The tour manager under the tree and the watchdogs: whatever they call,  *)
(* and in whatever order, they take only the steps TourManagerProofs knows *)
(* of, so what it proves holds here too.  The stops of goalAvailable come  *)
(* from outside the tour manager and are the ones to look at.              *)
(***************************************************************************)
EXTENDS BehaviorTree, TourManagerProofs

(* One start() more than the tree runs is only there while the tick waits  *)
(* for the old one; sendToPoI runs only for a start() that is counted.     *)
StartsCounted ==
  /\ tree # "join" => starts < 2
  /\ serving => starts > 0

TreeInv == IInv /\ TreeTypeOK /\ StartsCounted

(* All that the tick does to the tour manager is to stop the base.         *)
LEMMA TickOnTour == ASSUME Tick PROVE StopFromOutside \/ UNCHANGED vars
<1>1. CASE AskGoal
  <2>1. CASE goalAvailable
    BY <1>1, <2>1 DEF AskGoal, vars, world
  <2>2. CASE ~goalAvailable
    BY <1>1, <2>2 DEF AskGoal, StopFromOutside
  <2> QED BY <2>1, <2>2
<1>2. CASE AskMotors \/ AskAtPoI \/ GoalAnswers \/ Wait
  BY <1>2 DEF AskMotors, AskAtPoI, GoalAnswers, Wait
<1>3. CASE Go \/ Join \/ Look
  BY <1>3 DEF Go, Join, Look
<1> QED BY <1>1, <1>2, <1>3 DEF Tick

LEMMA Kept == ASSUME IInv, UNCHANGED vars PROVE IInv'
BY WorldKeeps

(* The steps of the tick.                                                  *)
LEMMA TickKeeps == ASSUME TreeInv, Tick PROVE TreeInv'
<1>1. IInv'
  <2>1. \/ UNCHANGED vars
        \/ /\ NavigationStops
           /\ UNCHANGED <<tour, arrival, firstStart, talk, goal, todo, failing, speech,
                          target, place>>
    BY TickOnTour DEF StopFromOutside
  <2> QED BY <2>1, WorldKeeps DEF TreeInv
<1>2. UNCHANGED <<watchdogs, goalSkill, serving>>
  BY DEF Tick, AskMotors, AskAtPoI, AskGoal, GoalAnswers, Wait, Go, Join, Look, node
<1>3. going' \in BOOLEAN /\ waiting' \in BOOLEAN
  BY DEF Tick, AskMotors, AskAtPoI, AskGoal, GoalAnswers, Wait, Go, Join, Look, node, Halt,
         TreeInv, TreeTypeOK
<1>4. /\ tree' \in {"sleep", "atPoI", "goal", "answer", "wait", "go", "join", "look"}
      /\ starts' \in 0..2 /\ starts' >= starts /\ (tree' # "join" => starts' < 2)
  <2>1. starts \in 0..2 /\ (tree # "join" => starts < 2)
    BY DEF TreeInv, TreeTypeOK, StartsCounted
  <2>2. CASE Go
    BY <2>1, <2>2 DEF Go
  <2>3. CASE Join
    BY <2>1, <2>3 DEF Join, node
  <2>4. CASE AskMotors \/ AskAtPoI \/ AskGoal \/ GoalAnswers \/ Wait \/ Look
    BY <2>1, <2>4 DEF AskMotors, AskAtPoI, AskGoal, GoalAnswers, Wait, Look, node
  <2> QED BY <2>2, <2>3, <2>4 DEF Tick
<1>5. StartsCounted'
  <2>1. serving' = serving /\ starts \in 0..2
    BY <1>2 DEF TreeInv, TreeTypeOK
  <2>2. serving => starts > 0
    BY DEF TreeInv, StartsCounted
  <2>3. starts > 0 => starts' > 0
    BY <1>4, <2>1
  <2> QED BY <1>4, <2>1, <2>2, <2>3, Zenon DEF StartsCounted
<1>6. TreeTypeOK'
  <2>1. serving' = serving /\ condition' = condition /\ dog' = dog /\ reading' = reading
        /\ goalAvailable' = goalAvailable /\ watched' = watched /\ crowd' = crowd
    BY <1>2 DEF watchdogs, goalSkill
  <2> QED BY <1>3, <1>4, <2>1, Zenon DEF TreeInv, TreeTypeOK
<1> QED BY <1>1, <1>5, <1>6 DEF TreeInv

(* The start() of GoToPoI_Act.                                             *)
LEMMA StartKeeps == ASSUME TreeInv, BeginStart \/ EndStart PROVE TreeInv'
<1>1. IInv'
  BY SendToPoIKeeps, Kept DEF BeginStart, EndStart, TreeInv
<1>2. /\ UNCHANGED <<tree, going, waiting, watchdogs, goalSkill>>
      /\ starts \in 0..2
  BY DEF BeginStart, EndStart, TreeInv, TreeTypeOK
<1>3. /\ starts' \in 0..2 /\ starts' <= starts
      /\ (tree # "join" => starts' < 2)
  <2>1. tree # "join" => starts < 2
    BY DEF TreeInv, StartsCounted
  <2>2. CASE BeginStart
    BY <1>2, <2>1, <2>2 DEF BeginStart
  <2>3. CASE EndStart
    <3>1. serving /\ starts' = starts - 1
      BY <2>3 DEF EndStart
    <3>2. starts > 0
      BY <3>1 DEF TreeInv, StartsCounted
    <3> QED BY <1>2, <2>1, <3>1, <3>2
  <2> QED BY <2>2, <2>3
<1>4. serving' \in BOOLEAN /\ (serving' => starts' > 0)
  BY DEF BeginStart, EndStart
<1>5. StartsCounted'
  BY <1>2, <1>3, <1>4 DEF StartsCounted
<1>6. TreeTypeOK'
  <2>1. /\ tree' = tree /\ going' = going /\ waiting' = waiting
        /\ condition' = condition /\ dog' = dog /\ reading' = reading
        /\ goalAvailable' = goalAvailable /\ watched' = watched /\ crowd' = crowd
    BY <1>2 DEF watchdogs, goalSkill
  <2> QED BY <1>3, <1>4, <2>1, Zenon DEF TreeInv, TreeTypeOK
<1> QED BY <1>1, <1>5, <1>6 DEF TreeInv

(* A watchdog's report, repetition or second look, and what it reads.      *)
LEMMA DogKeeps ==
  ASSUME TreeInv, NEW w \in Watchdogs, Dog(w) \/ Read(w)
  PROVE  TreeInv'
<1>1. IInv'
  BY WatchdogKeeps, Kept DEF Dog, Watch, Repeat, LookAgain, Read, TreeInv
<1>2. UNCHANGED <<tree, node, goalSkill>>
  BY DEF Dog, Watch, Repeat, LookAgain, Read
<1>3. /\ condition' \in [Watchdogs -> BOOLEAN]
      /\ dog' \in [Watchdogs -> {"watch", "loop", "look"}]
  <2>1. /\ condition \in [Watchdogs -> BOOLEAN]
        /\ dog \in [Watchdogs -> {"watch", "loop", "look"}]
    BY DEF TreeInv, TreeTypeOK
  <2>2. condition' \in {condition, [condition EXCEPT ![w] = FALSE],
                        [condition EXCEPT ![w] = TRUE]}
    BY DEF Dog, Watch, Repeat, LookAgain, Read
  <2>3. dog' \in {dog, [dog EXCEPT ![w] = "watch"], [dog EXCEPT ![w] = "loop"],
                  [dog EXCEPT ![w] = "look"]}
    BY DEF Dog, Watch, Repeat, LookAgain, Read
  <2> QED BY <2>1, <2>2, <2>3
<1>4. DOMAIN reading' = Watchdogs /\ \A v \in Watchdogs : reading'[v] \in Readings[v]
  <2>1. DOMAIN reading = Watchdogs /\ \A v \in Watchdogs : reading[v] \in Readings[v]
    BY DEF TreeInv, TreeTypeOK
  <2>2. \/ reading' = reading
        \/ \E r \in Readings[w] : reading' = [reading EXCEPT ![w] = r]
    BY DEF Dog, Watch, Repeat, LookAgain, Read
  <2> QED BY <2>1, <2>2
<1>5. /\ tree' = tree /\ going' = going /\ waiting' = waiting
      /\ starts' = starts /\ serving' = serving
      /\ goalAvailable' = goalAvailable /\ watched' = watched /\ crowd' = crowd
  BY <1>2 DEF node, goalSkill
<1>6. TreeTypeOK' /\ StartsCounted'
  BY <1>3, <1>4, <1>5, Zenon DEF TreeInv, TreeTypeOK, StartsCounted
<1> QED BY <1>1, <1>6 DEF TreeInv

(* goalAvailable's thread and the people in front of the PoI.              *)
LEMMA GoalKeeps == ASSUME TreeInv, UpdateGoal \/ Gather PROVE TreeInv'
<1>1. IInv'
  BY Kept DEF UpdateGoal, Gather, TreeInv
<1>2. /\ UNCHANGED <<tree, node, watchdogs>>
      /\ watched' \in Places /\ crowd' \in Crowds
  BY DEF UpdateGoal, Gather, TreeInv, TreeTypeOK, IInv, TourInv, TypeOK
<1>3. goalAvailable' \in BOOLEAN
  BY DEF UpdateGoal, Gather, TreeInv, TreeTypeOK
<1>4. TreeTypeOK' /\ StartsCounted'
  <2>1. /\ tree' = tree /\ going' = going /\ waiting' = waiting
        /\ starts' = starts /\ serving' = serving
        /\ condition' = condition /\ dog' = dog /\ reading' = reading
    BY <1>2 DEF node, watchdogs
  <2> QED BY <1>2, <1>3, <2>1, Zenon DEF TreeInv, TreeTypeOK, StartsCounted
<1> QED BY <1>1, <1>4 DEF TreeInv

(* The tour manager's own steps, and those of its head and base.           *)
LEMMA ManagerKeeps ==
  ASSUME TreeInv,
         \/ \E t \in Threads : Manager(t)
         \/ Dialogue \/ World \/ UNCHANGED allVars
  PROVE  TreeInv'
<1>1. UNCHANGED treeVars
  BY DEF Manager, Dialogue, World, allVars
<1>2. TreeTypeOK' /\ StartsCounted'
  BY <1>1, Zenon
  DEF TreeInv, TreeTypeOK, StartsCounted, treeVars, node, watchdogs, goalSkill
<1>3. IInv'
  <2>1. ASSUME NEW t \in Threads, Step(t) PROVE IInv'
    BY <2>1, StepShape, StepRoute DEF IInv, TreeInv
  <2>2. ASSUME NEW command \in Commands, Receive(command) PROVE IInv'
    BY <2>2, ReceiveKeeps DEF TreeInv
  <2>3. CASE FinishText \/ LowerFlag \/ Move \/ UNCHANGED vars
    BY <2>3, WorldKeeps DEF TreeInv
  <2> QED BY <2>1, <2>2, <2>3 DEF Manager, Dialogue, World, allVars
<1> QED BY <1>2, <1>3 DEF TreeInv

LEMMA TreeInitInv == TreeInit => TreeInv
<1> SUFFICES ASSUME TreeInit PROVE TreeInv
  OBVIOUS
<1>1. IInv
  BY InitInv DEF TreeInit
<1>2. starts = 0 /\ serving = FALSE /\ watched \in Places /\ crowd \in Crowds
  BY DEF TreeInit, Places
<1>3. /\ condition \in [Watchdogs -> BOOLEAN]
      /\ dog \in [Watchdogs -> {"watch", "loop", "look"}]
  BY DEF TreeInit
<1>4. starts \in 0..2 /\ starts < 2
  BY <1>2
<1>5. TreeTypeOK
  BY <1>2, <1>3, <1>4, Zenon DEF TreeInit, TreeTypeOK
<1>6. StartsCounted
  BY <1>2, <1>4 DEF StartsCounted
<1> QED BY <1>1, <1>5, <1>6 DEF TreeInv

LEMMA TreeInductive == TreeSpec => []TreeInv
<1>1. TreeInv /\ [TreeNext]_allVars => TreeInv'
  <2> SUFFICES ASSUME TreeInv, [TreeNext]_allVars PROVE TreeInv'
    OBVIOUS
  <2>1. CASE Tick
    BY <2>1, TickKeeps
  <2>2. CASE BeginStart \/ EndStart
    BY <2>2, StartKeeps
  <2>3. ASSUME NEW w \in Watchdogs, Dog(w) \/ Read(w) PROVE TreeInv'
    BY <2>3, DogKeeps
  <2>4. CASE UpdateGoal \/ Gather
    BY <2>4, GoalKeeps
  <2>5. CASE \/ \E t \in Threads : Manager(t)
             \/ Dialogue \/ World \/ UNCHANGED allVars
    BY <2>5, ManagerKeeps
  <2> QED BY <2>1, <2>2, <2>3, <2>4, <2>5 DEF TreeNext
<1> QED BY <1>1, TreeInitInv, PTL DEF TreeSpec

----------------------------------------------------------------------------
(* Every variable of the tree and its skills has its type; a third start() *)
(* is never made while two have not returned, whatever is halted when.     *)
THEOREM TreeTypeCorrect == TreeSpec => []TreeTypeOK
<1>1. TreeInv => TreeTypeOK
  BY DEF TreeInv
<1> QED BY <1>1, TreeInductive, PTL

(* Under the tree and any watchdogs too, the counter of the fallbacks is   *)
(* below the threshold after each command.                                 *)
THEOREM BoundedInTree == TreeSpec => []FallbacksBounded
<1>1. TreeInv => FallbacksBounded
  BY InvBounds DEF TreeInv
<1> QED BY <1>1, TreeInductive, PTL

(* Under the tree too, with a punctual navigation server, a robot that     *)
(* believes it is at a PoI is not moving: neither the start() a halted     *)
(* node leaves behind nor goalAvailable's stops can make it so.            *)
THEOREM StandsInTree == Punctual /\ TreeSpec => []StandsAtPoI
<1>1. CASE Punctual
  <2>1. TreeInv => StandsAtPoI
    BY <1>1, InvStands DEF TreeInv
  <2> QED BY <2>1, TreeInductive, PTL
<1>2. CASE ~Punctual
  BY <1>2
<1> QED BY <1>1, <1>2
----------------------------------------------------------------------------
(* What holds the watchdogs, the tour manager and the tree together.       *)
Served == todo[GoTo] # <<>> => serving
AgreeInv == ReportsAgree /\ Served

(* A step of a thread is of one that has something to do, and of no other. *)
LEMMA OwnSteps ==
  ASSUME Threaded, NEW t \in Threads, Step(t)
  PROVE  /\ todo[t] # <<>> /\ failing' = failing
         /\ \A u \in Threads \ {t} : todo'[u] = todo[u]
<1>1. todo[t] # <<>>
  BY DEF Step, InterpretCommand, Say, Push, AwaitSpeech, AwaitQuiet, HeadReset, Count, Uncount, Hear,
         Increment, Wrap, FirstPoI, SetLanguage, Locate, GotoTarget, AwaitMoving, WhileMoving, AwaitGoal,
         Arrive, Announce, AnnounceStart, StopNavigation, CutSpeech, MarkInterrupted,
         IfArrived, ResumeHearing, At
<1>2. failing' = failing
  BY DEF Step, InterpretCommand, Say, Push, AwaitSpeech, AwaitQuiet, HeadReset, Count, Uncount, Hear,
         Increment, Wrap, FirstPoI, SetLanguage, UpdatePoI, Locate, GotoTarget, AwaitMoving, WhileMoving,
         AwaitGoal, Arrive, Announce, AnnounceStart, StopNavigation, CutSpeech,
         MarkInterrupted, IfArrived, ResumeHearing
<1>3. \E s : todo' = [todo EXCEPT ![t] = s]
  BY DEF Step, InterpretCommand, Say, Push, AwaitSpeech, AwaitQuiet, HeadReset, Count, Uncount, Hear,
         Increment, Wrap, FirstPoI, SetLanguage, Locate, GotoTarget, AwaitMoving, WhileMoving, AwaitGoal,
         Arrive, Announce, AnnounceStart, StopNavigation, CutSpeech, MarkInterrupted,
         IfArrived, ResumeHearing, Then, Continue, Return
<1> QED BY <1>1, <1>2, <1>3 DEF Threaded

(* A report or a recovery of a watchdog goes with its own loop and answer. *)
LEMMA DogAgrees ==
  ASSUME TreeInv, AgreeInv, NEW w \in Watchdogs, Dog(w) PROVE AgreeInv'
<1>1. /\ condition \in [Watchdogs -> BOOLEAN]
      /\ dog \in [Watchdogs -> {"watch", "loop", "look"}]
      /\ failing \subseteq Watchdogs /\ Threaded /\ w \in Threads /\ GoTo \in Threads
      /\ w # GoTo
  BY TourConstantsOK DEF TreeInv, TreeTypeOK, IInv, TourInv, TypeOK, Shape, Threads
<1>2. todo'[GoTo] = todo[GoTo] /\ serving' = serving
  BY <1>1 DEF Dog, Watch, Repeat, LookAgain, SendError, Recovered, Threaded, node, vars
<1>3. CASE Watch(w)
  <2>1. /\ failing' = failing \cup {w} /\ condition' = [condition EXCEPT ![w] = FALSE]
        /\ dog' = [dog EXCEPT ![w] = "loop"]
    BY <1>3 DEF Watch, SendError
  <2>2. /\ w \in failing' /\ ~condition'[w] /\ dog'[w] = "loop"
        /\ \A v \in Watchdogs \ {w} : /\ v \in failing' <=> v \in failing
                                      /\ condition'[v] = condition[v] /\ dog'[v] = dog[v]
    BY <1>1, <2>1
  <2>3. ReportsAgree'
    BY <2>2, "loop" # "watch", Zenon DEF AgreeInv, ReportsAgree
  <2> QED BY <1>2, <2>3 DEF AgreeInv, Served
<1>4. CASE Repeat(w)
  <2>1. /\ failing' = failing \cup {w} /\ condition' = condition
        /\ dog[w] = "loop" /\ dog' = [dog EXCEPT ![w] = "look"]
    BY <1>4 DEF Repeat, SendError
  <2>2. ReportsAgree'
    BY <1>1, <2>1 DEF AgreeInv, ReportsAgree
  <2> QED BY <1>2, <2>2 DEF AgreeInv, Served
<1>5. CASE LookAgain(w)
  <2>1. dog[w] # "watch"
    BY <1>5 DEF LookAgain
  <2>2. \/ /\ failing' = failing /\ condition' = condition
           /\ dog' = [dog EXCEPT ![w] = "loop"]
        \/ /\ failing' = failing \ {w} /\ condition' = [condition EXCEPT ![w] = TRUE]
           /\ dog' = [dog EXCEPT ![w] = "watch"]
    BY <1>5 DEF LookAgain, Recovered, vars
  <2>3. /\ \A v \in Watchdogs \ {w} : /\ v \in failing' <=> v \in failing
                                      /\ condition'[v] = condition[v] /\ dog'[v] = dog[v]
        /\ \/ w \notin failing' /\ condition'[w] /\ dog'[w] = "watch"
           \/ /\ w \in failing' <=> w \in failing
              /\ condition'[w] = condition[w] /\ dog'[w] = "loop"
    BY <1>1, <2>2
  <2>4. ReportsAgree'
    BY <2>1, <2>3, "loop" # "watch", Zenon DEF AgreeInv, ReportsAgree
  <2> QED BY <1>2, <2>4 DEF AgreeInv, Served
<1> QED BY <1>3, <1>4, <1>5 DEF Dog

LEMMA AgreeNext == TreeInv /\ AgreeInv /\ [TreeNext]_allVars => AgreeInv'
<1> SUFFICES ASSUME TreeInv, AgreeInv, [TreeNext]_allVars PROVE AgreeInv'
  OBVIOUS
<1>1. /\ Threaded /\ GoTo \in Threads /\ Dialog \in Threads /\ GoTo # Dialog
  BY DEF TreeInv, IInv, TourInv, Shape, Threads, GoTo, Dialog
<1>2. CASE Tick \/ UpdateGoal \/ Gather \/ UNCHANGED allVars
  <2>1. UNCHANGED <<failing, todo, serving, condition, dog>>
    BY <1>2 DEF Tick, AskMotors, AskAtPoI, AskGoal, GoalAnswers, Wait, Go, Join, Look, UpdateGoal, Gather,
                allVars, vars, treeVars, node, watchdogs
  <2> QED BY <2>1 DEF AgreeInv, ReportsAgree, Served
<1>3. CASE BeginStart \/ EndStart
  <2>1. UNCHANGED <<failing, condition, dog>> /\ (serving' \/ todo'[GoTo] = <<>>)
    BY <1>3 DEF BeginStart, EndStart, SendToPoI, vars, watchdogs
  <2> QED BY <2>1 DEF AgreeInv, ReportsAgree, Served
<1>4. ASSUME NEW w \in Watchdogs, Dog(w) PROVE AgreeInv'
  BY <1>4, DogAgrees
<1>5. ASSUME NEW w \in Watchdogs, Read(w) PROVE AgreeInv'
  BY <1>5 DEF Read, AgreeInv, ReportsAgree, Served, vars, node
<1>6. CASE Dialogue \/ World
  <2>1. UNCHANGED <<failing, serving, condition, dog>> /\ todo'[GoTo] = todo[GoTo]
    BY <1>1, <1>6 DEF Dialogue, Receive, World, FinishText, LowerFlag, Move, Threaded, treeVars, node,
                      watchdogs
  <2> QED BY <2>1 DEF AgreeInv, ReportsAgree, Served
<1>7. ASSUME NEW t \in Threads, Manager(t) PROVE AgreeInv'
  <2>1. /\ UNCHANGED <<failing, serving, condition, dog>> /\ todo[t] # <<>>
        /\ (t # GoTo => todo'[GoTo] = todo[GoTo])
    BY <1>1, <1>7, OwnSteps DEF Manager, treeVars, node, watchdogs
  <2> QED BY <2>1 DEF AgreeInv, ReportsAgree, Served
<1> QED BY <1>2, <1>3, <1>4, <1>5, <1>6, <1>7 DEF TreeNext

LEMMA AgreeInit == TreeInit => AgreeInv
<1> SUFFICES ASSUME TreeInit PROVE AgreeInv
  OBVIOUS
<1>1. todo[GoTo] = <<>> /\ failing = {}
  BY DEF TreeInit, Init, Threads
<1>2. \A w \in Watchdogs : condition[w] = TRUE /\ dog[w] = "watch"
  BY DEF TreeInit
<1> QED BY <1>1, <1>2 DEF AgreeInv, ReportsAgree, Served

LEMMA AgreeInductive == TreeSpec => []AgreeInv
BY AgreeInit, AgreeNext, TreeInductive, PTL DEF TreeSpec

(* A watchdog and the tour manager never disagree: the tree is held up     *)
(* exactly while a fault is reported and its recovery is not, also where   *)
(* the fault comes and goes while an error is being told.                  *)
THEOREM ReportsMatchRecoveries == TreeSpec => []ReportsAgree
<1>1. AgreeInv => ReportsAgree
  BY DEF AgreeInv
<1> QED BY <1>1, AgreeInductive, PTL

(* With a punctual navigation server the robot moves only for a start()    *)
(* of GoToPoI_Act that has not returned, whatever the tree has halted.     *)
THEOREM NothingIsLeftMoving == Punctual /\ TreeSpec => []MovesForAStart
<1>1. CASE Punctual
  <2>1. TreeInv /\ AgreeInv => MovesForAStart
    <3> SUFFICES ASSUME TreeInv, AgreeInv, nav \in {"preparing", "moving"}
                 PROVE  serving /\ starts > 0
      BY DEF MovesForAStart
    <3>1. End(todo[GoTo]) = "awaitGoal"
      BY <1>1 DEF TreeInv, IInv, MovesOnRoute, UnderWay
    <3>2. todo[GoTo] # <<>>
      BY <3>1 DEF End
    <3> QED BY <3>2 DEF TreeInv, StartsCounted, AgreeInv, Served
  <2> QED BY <2>1, AgreeInductive, TreeInductive, PTL
<1>2. CASE ~Punctual
  BY <1>2
<1> QED BY <1>1, <1>2

(* The tree, the watchdogs and goalAvailable are an environment of the     *)
(* tour manager: each step of the composition is one of its own, or a      *)
(* sendToPoI, or a stop from outside, or leaves it alone.                  *)
THEOREM TreeImplementsOpenTour == TreeSpec => OpenTour
<1>1. TreeInit => Init
  BY DEF TreeInit
<1>2. [TreeNext]_allVars => [Next \/ SendToPoI \/ StopFromOutside]_vars
  <2> SUFFICES ASSUME [TreeNext]_allVars
               PROVE  Next \/ SendToPoI \/ StopFromOutside \/ UNCHANGED vars
    OBVIOUS
  <2>1. CASE Tick
    BY <2>1, TickOnTour
  <2>2. CASE BeginStart \/ EndStart
    BY <2>2 DEF BeginStart, EndStart
  <2>3. ASSUME NEW w \in Watchdogs, Dog(w) \/ Read(w)
        PROVE  Next \/ UNCHANGED vars
    <3>1. SendError(w) \/ Recovered(w) \/ UNCHANGED vars
      BY <2>3 DEF Dog, Watch, Repeat, LookAgain, Read
    <3> QED BY <3>1, Zenon DEF Next, Calls
  <2>4. CASE UpdateGoal \/ Gather \/ UNCHANGED allVars
    BY <2>4 DEF UpdateGoal, Gather, allVars
  <2>5. CASE Dialogue \/ World
    BY <2>5, Zenon DEF Dialogue, World, Next, Calls
  <2>6. ASSUME NEW t \in Threads, Manager(t) PROVE Next
    BY <2>6, Zenon DEF Manager, Next
  <2> QED BY <2>1, <2>2, <2>3, <2>4, <2>5, <2>6, Zenon DEF TreeNext
<1> QED BY <1>1, <1>2, PTL DEF TreeSpec, OpenTour
==============================================================================
