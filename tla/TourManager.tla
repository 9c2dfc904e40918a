----------------------------- MODULE TourManager -----------------------------
(***************************************************************************)
(* aux_modules/tourManager: takes the robot from one point of interest     *)
(* (PoI) to the next and runs the commands of the dialogue.  It has no     *)
(* mutex.  Its threads:                                                    *)
(*   - GoTo serves the calls of the GoToPoI_Act skill (sendToPoI);         *)
(*   - Dialog runs DialogflowCallback::onRead (InterpretCommand);          *)
(*   - one thread per watchdog skill serves sendError and recovered.       *)
(* What a thread still has to do is the sequence todo[t] of its steps; a   *)
(* command is a step that is replaced by the steps of its actions.         *)
(*                                                                         *)
(* HeadSynchronizer appears as its flag and what it has to say: a say      *)
(* raises the flag and pushes the text, and the update loop lowers it      *)
(* whenever it finds no text, between the two as well.  The navigation     *)
(* server is external: it refuses a goal or starts it, within the 2 s      *)
(* sendToPoI gives it if it is Punctual.                                   *)
(***************************************************************************)
EXTENDS Naturals, Sequences

CONSTANTS
  Stops,      \* how many PoIs the active tour has; the first is the "_start" one
  LocationOf, \* the location of each PoI: several may share one
  SilentPoIs, \* the PoIs on the way to which nothing is said
  Watchdogs,  \* the watchdog skills
  Commands,   \* the dialogue commands that are received
  Eager,      \* whether commands come at any time, not only at a PoI
  Punctual,   \* whether the navigation server starts to move within 2 s
  LongTexts   \* whether a text lasts longer than the 0.1 s of BlockSpeak's polling

GoTo == "goTo"
Dialog == "dialog"
Threads == Watchdogs \cup {GoTo, Dialog}
PoIs == 1..Stops
StartPoI == 1
Threshold == 3  \* m_fallback_threshold
AllCommands == {"explain", "fallback", "nextPoi", "resetTourManager"}

ASSUME TourConstantsOK ==
  /\ Stops \in Nat \ {0} /\ LocationOf \in [PoIs -> Nat \ {0}]
  /\ SilentPoIs \subseteq PoIs /\ Watchdogs \cap {GoTo, Dialog} = {}
  /\ Commands \subseteq AllCommands /\ Eager \in BOOLEAN /\ Punctual \in BOOLEAN
  /\ LongTexts \in BOOLEAN

Places == {LocationOf[p] : p \in PoIs} \cup {0}  \* 0 is nowhere near a PoI

VARIABLES
  index,        \* m_PoIndex
  currentPoI,   \* the name in m_currentPoI
  hasReached,   \* m_hasReachedPoI
  previousPoI,  \* m_previousPoIname, 0 before the first
  previousLoc,  \* m_previousPoIloc, 0 before the first
  firstStart,   \* m_isFirstStart
  interrupted,  \* m_isSpeechInterrupted
  fallbacks,    \* m_fallback_repeat_counter
  goal,         \* sendToPoI's current_target_coord
  todo,         \* the steps each thread has left
  failing,      \* the watchdogs that have reported an error and no recovery
  isSpeaking,   \* HeadSynchronizer's m_isSpeaking
  voice,        \* HeadSynchronizer: "idle", or with "texts" to say, or "cut" by a reset
  nav,          \* external: the navigation status
  target,       \* external: where the robot was sent last
  place         \* external: where the robot is

tour == <<index, currentPoI>>
arrival == <<hasReached, previousPoI, previousLoc>>
talk == <<interrupted, fallbacks>>
speech == <<isSpeaking, voice>>
world == <<nav, target, place>>
vars == <<tour, arrival, firstStart, talk, goal, todo, failing, speech, world>>

NavStatus == {"idle", "preparing", "moving", "reached", "aborted"}

(* BlockSpeak, and the same two loops in InterpretCommand.                 *)
BlockSpeak == <<"awaitSpeech", "awaitQuiet">>

(* InterpretCommand: the steps of the actions of each command, as the      *)
(* tours define them, and what follows them.  sayWhileNavigating has no    *)
(* actions on the way to the SilentPoIs.                                   *)
Script ==
  [warningNextNavigation |-> {<<"say", "push">> \o BlockSpeak \o <<"uncount">>},
   sayWhileNavigating    |-> {<<>>, <<"say", "push">> \o BlockSpeak \o <<"uncount">>},
   navigationError       |-> {<<"say", "push">> \o BlockSpeak \o <<"uncount">>},
   watchdogError         |-> {<<"say", "push">> \o BlockSpeak \o <<"uncount">>},
   explain               |-> {<<"say", "push">> \o BlockSpeak \o <<"hear", "uncount">>},
   fallback              |-> {<<"say", "push">> \o BlockSpeak \o <<"count">>},
   nextPoi               |-> {<<"increment", "wrap", "updatePoI", "uncount">>},
   resetTourManager      |-> {<<"firstPoI", "headReset", "language", "updatePoI",
                                "hear", "uncount">>}]
Interpreted == DOMAIN Script

Steps == Interpreted \cup
  {"say", "push", "awaitSpeech", "awaitQuiet", "count", "uncount", "hear",
   "increment", "wrap", "firstPoI", "updatePoI", "language", "headReset",
   "locate", "gotoTarget", "awaitMoving", "whileMoving", "awaitGoal", "arrive", "announce",
   "startpoi", "stopNavigation", "cutSpeech", "markInterrupted", "uninterrupt",
   "ifArrived", "resume"}

TypeOK ==
  /\ index \in 1..(Stops + 1) /\ currentPoI \in PoIs
  /\ hasReached \in BOOLEAN /\ previousPoI \in PoIs \cup {0} /\ previousLoc \in Places
  /\ firstStart \in BOOLEAN /\ interrupted \in BOOLEAN
  /\ fallbacks \in 0..Threshold /\ goal \in Places
  /\ todo \in [Threads -> Seq(Steps)] /\ failing \subseteq Watchdogs
  /\ isSpeaking \in BOOLEAN /\ voice \in {"idle", "texts", "cut"}
  /\ nav \in NavStatus /\ target \in Places /\ place \in Places

----------------------------------------------------------------------------
(* Calls.                                                                  *)

AtPoI == hasReached /\ currentPoI = previousPoI  \* isAtPoI

(* Mutant: the PoI before is still reached.                                *)
SendFromPoI ==
  /\ todo[GoTo] = <<>>
  /\ todo' = [todo EXCEPT ![GoTo] = <<"locate">>]
  /\ UNCHANGED <<tour, arrival, firstStart, talk, goal, failing, speech, world>>

SendToPoI ==
  /\ todo[GoTo] = <<>>
  /\ hasReached' = FALSE
  /\ todo' = [todo EXCEPT ![GoTo] = <<"locate">>]
  /\ UNCHANGED <<tour, previousPoI, previousLoc, firstStart, talk, goal, failing, speech, world>>

Receive(command) ==
  /\ todo[Dialog] = <<>>
  /\ Eager \/ (AtPoI /\ todo[GoTo] = <<>>)
  /\ todo' = [todo EXCEPT ![Dialog] = <<command>>]
  /\ UNCHANGED <<tour, arrival, firstStart, talk, goal, failing, speech, world>>

(* A watchdog reports its error every 5 s while it lasts.                  *)
SendError(w) ==
  /\ todo[w] = <<>>
  /\ failing' = failing \cup {w}
  /\ todo' = [todo EXCEPT ![w] = <<"stopNavigation", "cutSpeech", "watchdogError">>]
  /\ UNCHANGED <<tour, arrival, firstStart, talk, goal, speech, world>>

Recovered(w) ==
  /\ todo[w] = <<>> /\ w \in failing
  /\ failing' = failing \ {w}
  /\ todo' = [todo EXCEPT ![w] = <<"headReset", "ifArrived">>]
  /\ UNCHANGED <<tour, arrival, firstStart, talk, goal, speech, world>>

(* Without the behaviour tree: sendToPoI is called when the robot is not   *)
(* at the PoI, as by a tree that has just asked isAtPoI.                   *)
Calls ==
  \/ ~AtPoI /\ SendToPoI
  \/ \E command \in Commands : Receive(command)
  \/ \E w \in Watchdogs : SendError(w) \/ Recovered(w)

----------------------------------------------------------------------------
(* Steps.                                                                  *)

At(t, step) == todo[t] # <<>> /\ Head(todo[t]) = step
Then(t, more) == todo' = [todo EXCEPT ![t] = more \o Tail(@)]
Continue(t) == todo' = [todo EXCEPT ![t] = Tail(@)]
Return(t) == todo' = [todo EXCEPT ![t] = <<>>]

InterpretCommand(t) ==
  \E command \in Interpreted :
    /\ At(t, command)
    /\ \E steps \in Script[command] :
         /\ steps = <<>> <=> command = "sayWhileNavigating" /\ currentPoI \in SilentPoIs
         /\ Then(t, steps)
    /\ UNCHANGED <<tour, arrival, firstStart, talk, goal, failing, speech, world>>

(* The flag is raised without the mutex, before the text is pushed.        *)
Say(t) ==
  /\ At(t, "say") /\ Continue(t)
  /\ isSpeaking' = TRUE
  /\ UNCHANGED <<tour, arrival, firstStart, talk, goal, failing, voice, world>>

(* After a reset a text may be lost with those before it.                  *)
Push(t) ==
  /\ At(t, "push") /\ Continue(t)
  /\ voice' \in IF voice = "cut" THEN {"cut", "texts"} ELSE {"texts"}
  /\ UNCHANGED <<tour, arrival, firstStart, talk, goal, failing, isSpeaking, world>>

AwaitSpeech(t) ==
  /\ At(t, "awaitSpeech") /\ Continue(t)
  /\ isSpeaking
  /\ UNCHANGED <<tour, arrival, firstStart, talk, goal, failing, speech, world>>

AwaitQuiet(t) ==
  /\ At(t, "awaitQuiet") /\ Continue(t)
  /\ ~isSpeaking
  /\ UNCHANGED <<tour, arrival, firstStart, talk, goal, failing, speech, world>>

HeadReset(t) ==
  /\ At(t, "headReset") /\ Continue(t)
  /\ voice' = IF voice = "idle" THEN "idle" ELSE "cut"
  /\ UNCHANGED <<tour, arrival, firstStart, talk, goal, failing, isSpeaking, world>>

(* Mutant: the counter goes on after the question was repeated.            *)
CountOn(t) ==
  /\ At(t, "count")
  /\ fallbacks' = fallbacks + 1
  /\ Then(t, IF fallbacks' = Threshold
             THEN <<"say", "push">> \o BlockSpeak \o <<"hear">> ELSE <<"hear">>)
  /\ UNCHANGED <<tour, arrival, firstStart, interrupted, goal, failing, speech, world>>

(* The third fallback in a row repeats the question.                       *)
Count(t) ==
  /\ At(t, "count")
  /\ fallbacks' = fallbacks + 1
  /\ Then(t, IF fallbacks' = Threshold
             THEN <<"say", "push">> \o BlockSpeak \o <<"uncount", "hear">> ELSE <<"hear">>)
  /\ UNCHANGED <<tour, arrival, firstStart, interrupted, goal, failing, speech, world>>

Uncount(t) ==
  /\ At(t, "uncount") /\ Continue(t)
  /\ fallbacks' = 0
  /\ UNCHANGED <<tour, arrival, firstStart, interrupted, goal, failing, speech, world>>

Hear(t) ==
  /\ At(t, "hear") /\ Continue(t)
  /\ UNCHANGED <<tour, arrival, firstStart, talk, goal, failing, speech, world>>

Increment(t) ==
  /\ At(t, "increment") /\ Continue(t)
  /\ index' = index + 1
  /\ UNCHANGED <<currentPoI, arrival, firstStart, talk, goal, failing, speech, world>>

(* Mutant: the index wraps around one too late.                            *)
WrapLate(t) ==
  /\ At(t, "wrap") /\ Continue(t)
  /\ index' = ((index - 1) % (Stops + 1)) + 1
  /\ UNCHANGED <<currentPoI, arrival, firstStart, talk, goal, failing, speech, world>>

Wrap(t) ==
  /\ At(t, "wrap") /\ Continue(t)
  /\ index' = ((index - 1) % Stops) + 1
  /\ UNCHANGED <<currentPoI, arrival, firstStart, talk, goal, failing, speech, world>>

(* An index past the end of the list reads what is behind it: if the       *)
(* program survives that, it is the name of no PoI and nothing is loaded.  *)
UpdatePoI ==
  /\ currentPoI' = IF index \in PoIs THEN index ELSE currentPoI
  /\ UNCHANGED <<index, arrival, firstStart, talk, goal, failing, speech, world>>

(* reset takes the start PoI without loading it yet.                       *)
FirstPoI(t) ==
  /\ At(t, "firstPoI") /\ Continue(t)
  /\ index' = StartPoI
  /\ firstStart' = (firstStart \/ currentPoI # StartPoI)
  /\ UNCHANGED <<currentPoI, arrival, talk, goal, failing, speech, world>>

(* setLanguage gives up after 5 s, and otherwise loads the PoI again.      *)
SetLanguage(t) ==
  /\ At(t, "language") \/ At(t, "updatePoI")
  /\ Continue(t)
  /\ \/ UpdatePoI
     \/ At(t, "language")
          /\ UNCHANGED <<tour, arrival, firstStart, talk, goal, failing, speech, world>>

----------------------------------------------------------------------------
(* The steps of sendToPoI.                                                 *)

(* Mutant: the coordinates are recorded at the departure.                  *)
LocateAndRecord(t) ==
  /\ At(t, "locate")
  /\ goal' = LocationOf[currentPoI] /\ previousLoc' = goal'
  /\ todo' = [todo EXCEPT ![t] =
       IF goal' = previousLoc THEN <<"arrive">>
       ELSE (IF firstStart THEN <<>> ELSE <<"warningNextNavigation">>)
              \o <<"gotoTarget", "awaitMoving", "whileMoving", "awaitGoal">>]
  /\ UNCHANGED <<tour, hasReached, previousPoI, firstStart, talk, failing, speech, world>>

(* The PoI may have no location; the same coordinates need no movement.    *)
Locate(t) ==
  /\ At(t, "locate")
  /\ \/ Return(t) /\ UNCHANGED goal
     \/ /\ goal' = LocationOf[currentPoI]
        /\ todo' = [todo EXCEPT ![t] =
             IF goal' = previousLoc THEN <<"arrive">>
             ELSE (IF firstStart THEN <<>> ELSE <<"warningNextNavigation">>)
                    \o <<"gotoTarget", "awaitMoving", "whileMoving", "awaitGoal">>]
  /\ UNCHANGED <<tour, arrival, firstStart, talk, failing, speech, world>>

(* The name of the PoI is read again.                                      *)
GotoTarget(t) ==
  /\ At(t, "gotoTarget") /\ Continue(t)
  /\ \/ nav' = "preparing" /\ target' = LocationOf[currentPoI]
     \/ UNCHANGED <<nav, target>>
  /\ UNCHANGED <<tour, arrival, firstStart, talk, goal, failing, speech, place>>

(* Mutant: any status will do.                                             *)
AwaitNothing(t) ==
  /\ At(t, "awaitMoving") /\ Continue(t)
  /\ UNCHANGED <<tour, arrival, firstStart, talk, goal, failing, speech, world>>

(* Mutant: there is no timeout.                                            *)
AwaitMovingForever(t) ==
  /\ At(t, "awaitMoving") /\ Continue(t)
  /\ nav = "moving"
  /\ UNCHANGED <<tour, arrival, firstStart, talk, goal, failing, speech, world>>

(* The robot is seen moving within 2 s, or sendToPoI gives up and leaves   *)
(* the goal with the server.                                               *)
AwaitMoving(t) ==
  /\ At(t, "awaitMoving")
  /\ \/ nav = "moving" /\ Continue(t)
     \/ nav # "moving" /\ (Punctual => nav # "preparing") /\ Return(t)
  /\ UNCHANGED <<tour, arrival, firstStart, talk, goal, failing, speech, world>>

(* An interrupted sentence is repeated, or the PoI's own one is said.      *)
WhileMoving(t) ==
  /\ At(t, "whileMoving")
  /\ Then(t, IF interrupted THEN <<"say", "push">> \o BlockSpeak \o <<"uninterrupt">>
                            ELSE <<"sayWhileNavigating">>)
  /\ UNCHANGED <<tour, arrival, firstStart, talk, goal, failing, speech, world>>

AwaitGoal(t) ==
  /\ At(t, "awaitGoal") /\ nav \notin {"moving", "preparing"}
  /\ todo' = [todo EXCEPT ![t] =
       IF nav = "reached" THEN <<"arrive">>
       ELSE IF nav = "idle" THEN <<>>
       ELSE (IF isSpeaking THEN <<"headReset">> ELSE <<>>)
              \o <<"navigationError">>]
  /\ UNCHANGED <<tour, arrival, firstStart, talk, goal, failing, speech, world>>

(* Here too the name is read again; the coordinates are the old ones.      *)
Arrive(t) ==
  /\ At(t, "arrive") /\ Then(t, <<"announce">>)
  /\ hasReached' = TRUE /\ previousPoI' = currentPoI /\ previousLoc' = goal
  /\ UNCHANGED <<tour, firstStart, talk, goal, failing, speech, world>>

(* The dialogue is told; at the start PoI the language is set before.      *)
Announce(t) ==
  /\ At(t, "announce")
  /\ Then(t, IF currentPoI = StartPoI THEN <<"language", "startpoi", "hear">> ELSE <<>>)
  /\ UNCHANGED <<tour, arrival, firstStart, talk, goal, failing, speech, world>>

AnnounceStart(t) ==
  /\ At(t, "startpoi") /\ Continue(t)
  /\ firstStart' = FALSE
  /\ UNCHANGED <<tour, arrival, talk, goal, failing, speech, world>>

----------------------------------------------------------------------------
(* The steps of sendError and recovered.                                   *)

(* A server that is not moving may keep its status.                        *)
NavigationStops ==
  \/ nav' = "idle"
  \/ nav \notin {"moving", "preparing"} /\ UNCHANGED nav

(* The condition in front of it is always true.                            *)
StopNavigation(t) ==
  /\ At(t, "stopNavigation") /\ Continue(t)
  /\ NavigationStops
  /\ UNCHANGED <<tour, arrival, firstStart, talk, goal, failing, speech, target, place>>

CutSpeech(t) ==
  /\ At(t, "cutSpeech")
  /\ Then(t, IF isSpeaking THEN <<"headReset", "markInterrupted">> ELSE <<>>)
  /\ UNCHANGED <<tour, arrival, firstStart, talk, goal, failing, speech, world>>

MarkInterrupted(t) ==
  /\ \/ At(t, "markInterrupted") /\ interrupted' = TRUE
     \/ At(t, "uninterrupt") /\ interrupted' = FALSE
  /\ Continue(t)
  /\ UNCHANGED <<tour, arrival, firstStart, fallbacks, goal, failing, speech, world>>

(* Only at the end of a movement is the sentence repeated and the          *)
(* microphone opened.                                                      *)
IfArrived(t) ==
  /\ At(t, "ifArrived")
  /\ Then(t, IF nav # "reached" THEN <<>>
             ELSE (IF interrupted THEN <<"say", "push">> \o BlockSpeak \o <<"uninterrupt">>
                                  ELSE <<>>) \o <<"resume">>)
  /\ UNCHANGED <<tour, arrival, firstStart, talk, goal, failing, speech, world>>

(* startHearing at the end of recovered.                                   *)
ResumeHearing(t) ==
  /\ At(t, "resume") /\ Continue(t)
  /\ UNCHANGED <<tour, arrival, firstStart, talk, goal, failing, speech, world>>

Step(t) ==
  \/ Say(t) \/ Push(t) \/ AwaitSpeech(t) \/ AwaitQuiet(t)
  \/ HeadReset(t) \/ Count(t) \/ Uncount(t) \/ Hear(t)
  \/ Increment(t) \/ Wrap(t) \/ FirstPoI(t) \/ SetLanguage(t)
  \/ Locate(t) \/ GotoTarget(t) \/ AwaitMoving(t) \/ WhileMoving(t) \/ AwaitGoal(t)
  \/ Arrive(t) \/ Announce(t) \/ AnnounceStart(t)
  \/ StopNavigation(t) \/ CutSpeech(t) \/ MarkInterrupted(t)
  \/ IfArrived(t) \/ ResumeHearing(t) \/ InterpretCommand(t)

----------------------------------------------------------------------------
(* The head and the robot's base.                                          *)

(* A long text whose flag is up is not over before whoever waits for the   *)
(* flag has seen it.                                                       *)
FinishText ==
  /\ voice # "idle"
  /\ LongTexts /\ voice = "texts" /\ isSpeaking => \A t \in Threads : ~At(t, "awaitSpeech")
  /\ voice' = "idle"
  /\ UNCHANGED <<tour, arrival, firstStart, talk, goal, todo, failing, isSpeaking, world>>

(* The update loop has found no text, be one about to be pushed or not.    *)
LowerFlag ==
  /\ voice = "idle" /\ isSpeaking
  /\ isSpeaking' = FALSE
  /\ UNCHANGED <<tour, arrival, firstStart, talk, goal, todo, failing, voice, world>>

Move ==
  /\ \/ nav = "preparing" /\ nav' = "moving" /\ place' = 0
     \/ nav = "moving" /\ nav' = "reached" /\ place' = target
     \/ nav = "moving" /\ nav' = "aborted" /\ UNCHANGED place
  /\ UNCHANGED <<tour, arrival, firstStart, talk, goal, todo, failing, speech, target>>

----------------------------------------------------------------------------
Init ==
  /\ index = StartPoI /\ currentPoI = StartPoI
  /\ hasReached = FALSE /\ previousPoI = 0 /\ previousLoc = 0
  /\ firstStart = TRUE /\ interrupted = FALSE /\ fallbacks = 0 /\ goal = 0
  /\ todo = [t \in Threads |-> <<>>] /\ failing = {}
  /\ isSpeaking = FALSE /\ voice = "idle"
  /\ nav = "idle" /\ target = 0 /\ place = 0

Next == Calls \/ (\E t \in Threads : Step(t)) \/ FinishText \/ LowerFlag \/ Move

Spec == Init /\ [][Next]_vars
FairSpec ==
  /\ Spec /\ WF_speech(FinishText \/ LowerFlag) /\ WF_world(Move)
  /\ \A t \in Threads : WF_(todo[t])(Step(t))

----------------------------------------------------------------------------
(* Properties.                                                             *)

(* isAtPoI() is true only where the PoI is.                                *)
AtPoIMeansThere == AtPoI => place = LocationOf[currentPoI]

(* A robot that believes it is at a PoI is not moving.                     *)
StandsAtPoI == AtPoI => nav \notin {"preparing", "moving"}

(* The counter of fallbacks never gets past the threshold, where it would  *)
(* be equal to it no more and the question never be repeated again.        *)
FallbacksBounded == todo[Dialog] = <<>> => fallbacks < Threshold

(* No PoI is loaded with an index that NextPoI has incremented and not yet *)
(* wrapped (lines 390-392), by another thread's setLanguage either.        *)
LoadsInRange ==
  \A t \in Threads : At(t, "language") \/ At(t, "updatePoI") => index \in PoIs

(* No flag is lowered between its raise and the push of its text           *)
(* (headSynchronizer.cpp:189-191).  The code does not ensure it.           *)
SayKeepsItsFlag == \A t \in Threads : At(t, "push") => isSpeaking

(* Whoever waits for its sentence to begin, in the first loop of           *)
(* BlockSpeak (line 721), finds the flag up.                               *)
WaitsForItsSentence == \A t \in Threads : At(t, "awaitSpeech") => isSpeaking

(* Every call and every command ends, as long as no say loses its flag and *)
(* no watchdog reports, whose resets remove other threads' sentences: no   *)
(* other loop that waits for the head waits for ever.                      *)
CallsReturn ==
  [](SayKeepsItsFlag /\ failing = {})
    => \A t \in Threads : todo[t] # <<>> ~> todo[t] = <<>>

(* sendToPoI sets hasReached only where the coordinates it has looked up   *)
(* are, after a movement and after a skipped one (line 696).               *)
SkipsOnlyWhenThere == [][~hasReached /\ hasReached' => place = goal]_vars
==============================================================================
