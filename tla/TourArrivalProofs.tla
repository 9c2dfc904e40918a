------------------------- MODULE TourArrivalProofs -------------------------
(***************************************************************************)
(* Where the robot is when TourManager says it is at a PoI, if commands    *)
(* come only there, no watchdog is there to stop it and texts last longer  *)
(* than BlockSpeak's polling; the navigation may be as late as it likes.   *)
(***************************************************************************)
EXTENDS TourManagerProofs

Calm == ~Eager /\ Watchdogs = {} /\ LongTexts

----------------------------------------------------------------------------
(* The two threads and what each may have left.  A change of the PoI is    *)
(* written out: it is a command that comes while sendToPoI does not run.   *)
TalkSteps ==
  {"explain", "fallback", "say", "push", "awaitSpeech", "awaitQuiet", "count", "uncount",
   "hear"}
GoToSteps ==
  ToGoal \cup
  {"warningNextNavigation", "sayWhileNavigating", "navigationError", "say", "push",
   "awaitSpeech", "awaitQuiet", "uncount", "uninterrupt", "headReset", "locate", "arrive",
   "announce", "language", "startpoi", "hear"}
StillSteps == GoToSteps \ (ToGoal \cup {"arrive", "locate"})

Advancing == {ToWrap, <<"updatePoI", "uncount">>}
Taking == {<<"nextPoi">>, Turn} \cup Advancing
Resetting ==
  {<<"resetTourManager">>,
   <<"firstPoI", "headReset", "language", "updatePoI", "hear", "uncount">>}
Reloading ==
  {<<"headReset", "language", "updatePoI", "hear", "uncount">>,
   <<"language", "updatePoI", "hear", "uncount">>, <<"updatePoI", "hear", "uncount">>}

Changing == todo[Dialog] \in Taking \cup Resetting \/ currentPoI # index

Apart ==
  /\ todo[GoTo] \in Seq(GoToSteps)
  /\ todo[Dialog] \in Seq(TalkSteps) \cup Taking \cup Resetting \cup Reloading
  /\ todo[Dialog] \in Reloading => index = StartPoI
  /\ todo[Dialog] \notin Reloading \cup Advancing => index = currentPoI
  /\ Changing => AtPoI /\ todo[GoTo] = <<>>

(* The last arrival and the robot: it may be sent off only to another      *)
(* place than the one it has reached last.                                 *)
Still == nav \notin {"preparing", "moving"}
Arrived ==
  /\ previousPoI \in PoIs => previousLoc = LocationOf[previousPoI]
  /\ hasReached => previousPoI \in PoIs /\ place = previousLoc /\ Still
  /\ previousLoc = LocationOf[currentPoI] => place = previousLoc /\ Still
  /\ ~Still => target = LocationOf[currentPoI]
  /\ nav = "reached" => place = target

(* sendToPoI and the robot.                                                *)
Underway ==
  /\ Locating => ~hasReached
  /\ UnderWay => ~hasReached /\ goal = LocationOf[currentPoI] /\ goal # previousLoc
  /\ UnderWay /\ ~Has(todo[GoTo], "awaitMoving") => target = goal
  /\ OnlyLast(todo[GoTo], "awaitGoal")
  /\ Has(todo[GoTo], "arrive") => /\ todo[GoTo] = <<"arrive">>
                                  /\ goal = LocationOf[currentPoI]
                                  /\ place = goal /\ Still

CalmInv == TourInv /\ Apart /\ Arrived /\ Underway

----------------------------------------------------------------------------
(* Sequences.                                                              *)

LEMMA Changes ==
  ASSUME NEW s \in Taking \cup Resetting \cup Reloading
  PROVE  s # <<>> /\ Head(s) \notin TalkSteps /\ s \notin Seq(TalkSteps)
<1>1. s # <<>> /\ Head(s) \notin TalkSteps
  BY DEF Taking, Advancing, Turn, ToWrap, Resetting, Reloading, TalkSteps
<1>2. s \in Seq(TalkSteps) => Head(s) \in TalkSteps
  BY <1>1, TailSteps
<1> QED BY <1>1, <1>2

LEMMA TwoThreads == Calm => Threads = {GoTo, Dialog} /\ GoTo # Dialog
BY DEF Calm, Threads, GoTo, Dialog

LEMMA StillHas ==
  ASSUME NEW s \in Seq(StillSteps)
  PROVE  /\ s \in Seq(GoToSteps)
         /\ \A x \in ToGoal \cup {"arrive", "locate"} : ~Has(s, x)
<1>1. s \in Seq(GoToSteps)
  BY SeqMono DEF StillSteps
<1> QED BY <1>1, EndHas DEF StillSteps

(* A thread's first step is replaced by more.                              *)
LEMMA ReplaceFirst ==
  ASSUME Threaded, NEW t \in Threads, todo[t] # <<>>, NEW S,
         todo[t] \in Seq(S), NEW more \in Seq(S),
         todo' = [todo EXCEPT ![t] = more \o Tail(todo[t])]
  PROVE  /\ todo'[t] \in Seq(S) /\ \A u \in Threads \ {t} : todo'[u] = todo[u]
         /\ \A x : Has(todo'[t], x) => Has(more, x) \/ Has(todo[t], x)
         /\ \A x : Has(todo[t], x) => Head(todo[t]) = x \/ Has(todo'[t], x)
         /\ \A x : ~Has(more, x) /\ OnlyLast(todo[t], x) => OnlyLast(todo'[t], x)
<1>1. /\ Tail(todo[t]) \in Seq(S)
      /\ \A x : Has(todo[t], x) <=> Head(todo[t]) = x \/ Has(Tail(todo[t]), x)
      /\ \A x : OnlyLast(todo[t], x) => OnlyLast(Tail(todo[t]), x)
  BY TailSteps
<1>2. /\ more \o Tail(todo[t]) \in Seq(S)
      /\ \A x : Has(more \o Tail(todo[t]), x) <=> Has(more, x) \/ Has(Tail(todo[t]), x)
      /\ \A x : ~Has(more, x) /\ OnlyLast(Tail(todo[t]), x) => OnlyLast(more \o Tail(todo[t]), x)
  BY <1>1, ConcatSteps
<1>3. /\ todo'[t] = more \o Tail(todo[t])
      /\ \A u \in Threads \ {t} : todo'[u] = todo[u]
  BY DEF Threaded
<1> QED BY <1>1, <1>2, <1>3

LEMMA RemoveFirst ==
  ASSUME Threaded, NEW t \in Threads, todo[t] # <<>>, Continue(t)
  PROVE  /\ todo' = [todo EXCEPT ![t] = <<>> \o Tail(todo[t])]
         /\ todo'[t] = Tail(todo[t])
         /\ \A u \in Threads \ {t} : todo'[u] = todo[u]
<1>1. Tail(todo[t]) \in Seq(Steps)
  BY TailSteps DEF Threaded
<1>2. <<>> \o Tail(todo[t]) = Tail(todo[t])
  BY <1>1, ConcatEmptySeq
<1> QED BY <1>2 DEF Continue, Threaded

(* Sentences, and the commands that change no PoI.                         *)
LEMMA SayIn ==
  ASSUME NEW S, {"say", "push", "awaitSpeech", "awaitQuiet"} \subseteq S, NEW s \in Seq(S)
  PROVE  <<"say", "push">> \o BlockSpeak \o s \in Seq(S)
<1>1. <<"say", "push">> \in Seq(S) /\ BlockSpeak \in Seq(S)
  BY DEF BlockSpeak
<1> QED BY <1>1, ConcatProperties

LEMMA TalkScripts ==
  ASSUME NEW c \in Interpreted \cap TalkSteps PROVE Script[c] \subseteq Seq(TalkSteps)
<1>1. c \in {"explain", "fallback"}
  BY DEF Interpreted, Script, TalkSteps
<1>2. /\ {"say", "push", "awaitSpeech", "awaitQuiet"} \subseteq TalkSteps
      /\ <<"hear", "uncount">> \in Seq(TalkSteps) /\ <<"count">> \in Seq(TalkSteps)
  BY DEF TalkSteps
<1>3. /\ Script["explain"] = {<<"say", "push">> \o BlockSpeak \o <<"hear", "uncount">>}
      /\ Script["fallback"] = {<<"say", "push">> \o BlockSpeak \o <<"count">>}
  BY DEF Script
<1>4. /\ <<"say", "push">> \o BlockSpeak \o <<"hear", "uncount">> \in Seq(TalkSteps)
      /\ <<"say", "push">> \o BlockSpeak \o <<"count">> \in Seq(TalkSteps)
  BY <1>2, SayIn
<1> QED BY <1>1, <1>3, <1>4

LEMMA StillScripts ==
  ASSUME NEW c \in Interpreted \cap GoToSteps PROVE Script[c] \subseteq Seq(StillSteps)
<1>1. c \in {"warningNextNavigation", "sayWhileNavigating", "navigationError"}
  BY DEF Interpreted, Script, GoToSteps, ToGoal
<1>2. /\ {"say", "push", "awaitSpeech", "awaitQuiet"} \subseteq StillSteps
      /\ <<"uncount">> \in Seq(StillSteps) /\ <<>> \in Seq(StillSteps)
  BY DEF StillSteps, GoToSteps, ToGoal
<1> DEFINE said == <<"say", "push">> \o BlockSpeak \o <<"uncount">>
<1>3. /\ Script["warningNextNavigation"] = {said} /\ Script["navigationError"] = {said}
      /\ Script["sayWhileNavigating"] = {<<>>, said}
  BY DEF Script
<1>4. said \in Seq(StillSteps)
  BY <1>2, SayIn
<1> HIDE DEF said
<1> QED BY <1>1, <1>2, <1>3, <1>4

----------------------------------------------------------------------------
(* A command that changes no PoI.                                          *)
LEMMA DialogTalks ==
  ASSUME Threaded, Dialog \in Threads, todo[Dialog] \in Seq(TalkSteps), Step(Dialog)
  PROVE  /\ todo'[Dialog] \in Seq(TalkSteps)
         /\ \A u \in Threads \ {Dialog} : todo'[u] = todo[u]
         /\ UNCHANGED <<tour, arrival, goal, world>>
<1>1. todo[Dialog] # <<>>
  BY DEF Step, InterpretCommand, Say, Push, AwaitSpeech, AwaitQuiet, HeadReset, Count, Uncount, Hear,
         Increment, Wrap, FirstPoI, SetLanguage, Locate, GotoTarget, AwaitMoving, WhileMoving, AwaitGoal,
         Arrive, Announce, AnnounceStart, StopNavigation, CutSpeech, MarkInterrupted,
         IfArrived, ResumeHearing, At
<1>2. Head(todo[Dialog]) \in TalkSteps
  BY <1>1, TailSteps
<1>3. \/ InterpretCommand(Dialog) \/ Count(Dialog)
      \/ Say(Dialog) \/ Push(Dialog) \/ AwaitSpeech(Dialog) \/ AwaitQuiet(Dialog) \/ Uncount(Dialog)
      \/ Hear(Dialog)
  BY <1>2
  DEF Step, HeadReset, Increment, Wrap, FirstPoI, SetLanguage, Locate, GotoTarget, AwaitMoving, WhileMoving,
      AwaitGoal, Arrive, Announce, AnnounceStart, StopNavigation, CutSpeech, MarkInterrupted,
      IfArrived, ResumeHearing, At, TalkSteps
<1>4. UNCHANGED <<tour, arrival, goal, world>>
  BY <1>3 DEF InterpretCommand, Count, Say, Push, AwaitSpeech, AwaitQuiet, Uncount, Hear
<1>5. PICK more \in Seq(TalkSteps) : todo' = [todo EXCEPT ![Dialog] = more \o Tail(todo[Dialog])]
  <2>1. CASE InterpretCommand(Dialog)
    <3>1. PICK c \in Interpreted : At(Dialog, c) /\ \E steps \in Script[c] : Then(Dialog, steps)
      BY <2>1 DEF InterpretCommand
    <3>2. c \in Interpreted \cap TalkSteps
      BY <1>2, <3>1 DEF At
    <3> QED BY <3>1, <3>2, TalkScripts DEF Then
  <2>2. CASE Count(Dialog)
    <3> DEFINE again == <<"say", "push">> \o BlockSpeak \o <<"uncount", "hear">>
    <3>1. /\ {"say", "push", "awaitSpeech", "awaitQuiet"} \subseteq TalkSteps
          /\ <<"uncount", "hear">> \in Seq(TalkSteps) /\ <<"hear">> \in Seq(TalkSteps)
      BY DEF TalkSteps
    <3>2. again \in Seq(TalkSteps)
      BY <3>1, SayIn
    <3> HIDE DEF again
    <3>3. \/ Then(Dialog, again) \/ Then(Dialog, <<"hear">>)
      BY <2>2 DEF Count, again
    <3> QED BY <3>1, <3>2, <3>3 DEF Then
  <2>3. CASE Say(Dialog) \/ Push(Dialog) \/ AwaitSpeech(Dialog) \/ AwaitQuiet(Dialog) \/ Uncount(Dialog)
               \/ Hear(Dialog)
    <3>1. Continue(Dialog) /\ <<>> \in Seq(TalkSteps)
      BY <2>3 DEF Say, Push, AwaitSpeech, AwaitQuiet, Uncount, Hear
    <3> QED BY <1>1, <3>1, RemoveFirst
  <2> QED BY <1>3, <2>1, <2>2, <2>3
<1> QED BY <1>1, <1>4, <1>5, ReplaceFirst

(* A command that changes the PoI: what each step leaves and does.         *)
LEMMA DialogChanges ==
  ASSUME Threaded, Dialog \in Threads, IndexOK, Step(Dialog),
         todo[Dialog] \in Taking \cup Resetting \cup Reloading
  PROVE  /\ \A u \in Threads \ {Dialog} : todo'[u] = todo[u]
         /\ UNCHANGED <<arrival, goal, world>>
         /\ \/ /\ todo[Dialog] \in Taking \cup Resetting
               /\ todo'[Dialog] \in Taking \cup Resetting
               /\ UNCHANGED currentPoI
               /\ todo'[Dialog] \notin Advancing =>
                    UNCHANGED index /\ todo[Dialog] \notin Advancing
            \/ /\ todo[Dialog] \in Taking /\ todo'[Dialog] \in Seq(TalkSteps)
               /\ currentPoI' = index'
            \/ /\ todo[Dialog] \in Resetting /\ todo'[Dialog] \in Reloading
               /\ index' = StartPoI /\ UNCHANGED currentPoI
            \/ /\ todo[Dialog] \in Reloading /\ todo'[Dialog] \in Reloading
               /\ UNCHANGED index /\ currentPoI' \in {currentPoI, index}
            \/ /\ todo[Dialog] \in Reloading /\ todo'[Dialog] \in Seq(TalkSteps)
               /\ UNCHANGED index /\ currentPoI' = index
<1> DEFINE s == todo[Dialog]
<1>1. s # <<>>
  BY Changes
<1> USE DEF tour
<1>2. CASE s = <<"nextPoi">>
  <2>1. Head(s) = "nextPoi" /\ Tail(s) = <<>>
    BY <1>2
  <2>2. InterpretCommand(Dialog)
    BY <2>1 DEF Step, Say, Push, AwaitSpeech, AwaitQuiet, HeadReset, Count, Uncount, Hear,
         Increment, Wrap, FirstPoI, SetLanguage, Locate, GotoTarget, AwaitMoving, WhileMoving, AwaitGoal,
         Arrive, Announce, AnnounceStart, StopNavigation, CutSpeech, MarkInterrupted,
         IfArrived, ResumeHearing, At
  <2>3. Then(Dialog, Turn) /\ UNCHANGED <<tour, arrival, goal, world>>
    <3>1. PICK c \in Interpreted : /\ At(Dialog, c) /\ \E steps \in Script[c] : Then(Dialog, steps)
                                  /\ UNCHANGED <<tour, arrival, goal, world>>
      BY <2>2 DEF InterpretCommand
    <3>2. c = "nextPoi" /\ Script["nextPoi"] = {Turn}
      BY <2>1, <3>1, ScriptSteps DEF At
    <3> QED BY <3>1, <3>2
  <2>4. Turn \o Tail(s) = Turn
    BY <2>1, TurnSteps, ConcatEmptySeq
  <2>5. Turn \notin Advancing /\ s \notin Advancing
    BY <1>2, TurnSteps DEF Advancing
  <2> QED BY <1>2, <2>3, <2>4, <2>5 DEF Then, Threaded, Taking
<1>3. CASE s = Turn
  <2>1. Head(s) = "increment" /\ Tail(s) = ToWrap
    BY <1>3, TurnSteps
  <2>2. Increment(Dialog)
    BY <2>1 DEF Step, InterpretCommand, Interpreted, Script, Say, Push, AwaitSpeech, AwaitQuiet,
         HeadReset, Count, Uncount, Hear, Wrap, FirstPoI, SetLanguage, Locate, GotoTarget,
         AwaitMoving, WhileMoving, AwaitGoal, Arrive, Announce, AnnounceStart, StopNavigation,
         CutSpeech, MarkInterrupted, IfArrived, ResumeHearing, At
  <2> QED BY <1>1, <1>3, <2>1, <2>2, RemoveFirst DEF Increment, Taking, Advancing
<1>9. CASE s = ToWrap
  <2>1. /\ Head(s) = "wrap" /\ Tail(s) = <<"updatePoI", "uncount">>
    BY <1>9, TurnSteps DEF ToWrap
  <2>2. Wrap(Dialog)
    BY <2>1 DEF Step, InterpretCommand, Interpreted, Script, Say, Push, AwaitSpeech, AwaitQuiet,
         HeadReset, Count, Uncount, Hear, Increment, FirstPoI, SetLanguage, Locate, GotoTarget,
         AwaitMoving, WhileMoving, AwaitGoal, Arrive, Announce, AnnounceStart, StopNavigation,
         CutSpeech, MarkInterrupted, IfArrived, ResumeHearing, At
  <2> QED BY <1>1, <1>9, <2>1, <2>2, RemoveFirst DEF Wrap, Taking, Advancing
<1>10. CASE s = <<"updatePoI", "uncount">>
  <2>1. /\ Head(s) = "updatePoI" /\ Tail(s) = <<"uncount">> /\ <<"uncount">> \in Seq(TalkSteps)
    BY <1>10 DEF TalkSteps
  <2>2. SetLanguage(Dialog)
    BY <2>1 DEF Step, InterpretCommand, Interpreted, Script, Say, Push, AwaitSpeech, AwaitQuiet,
         HeadReset, Count, Uncount, Hear, Increment, Wrap, FirstPoI, Locate, GotoTarget,
         AwaitMoving, WhileMoving, AwaitGoal, Arrive, Announce, AnnounceStart, StopNavigation,
         CutSpeech, MarkInterrupted, IfArrived, ResumeHearing, At
  <2>3. index \in PoIs
    BY <2>1, TurnSteps DEF IndexOK
  <2>4. UNCHANGED <<arrival, goal, world>> /\ currentPoI' = index /\ UNCHANGED index
    BY <2>1, <2>2, <2>3 DEF SetLanguage, UpdatePoI, At
  <2>5. todo'[Dialog] = Tail(s) /\ \A u \in Threads \ {Dialog} : todo'[u] = todo[u]
    BY <1>1, <2>2, RemoveFirst DEF SetLanguage
  <2> QED BY <1>10, <2>1, <2>4, <2>5 DEF Taking, Advancing
<1>4. CASE s = <<"resetTourManager">>
  <2> DEFINE r == <<"firstPoI", "headReset", "language", "updatePoI", "hear", "uncount">>
  <2>1. Head(s) = "resetTourManager" /\ Tail(s) = <<>>
    BY <1>4
  <2>2. InterpretCommand(Dialog)
    BY <2>1 DEF Step, Say, Push, AwaitSpeech, AwaitQuiet, HeadReset, Count, Uncount, Hear,
         Increment, Wrap, FirstPoI, SetLanguage, Locate, GotoTarget, AwaitMoving, WhileMoving, AwaitGoal,
         Arrive, Announce, AnnounceStart, StopNavigation, CutSpeech, MarkInterrupted,
         IfArrived, ResumeHearing, At
  <2>3. Then(Dialog, r) /\ UNCHANGED <<tour, arrival, goal, world>>
    <3>1. PICK c \in Interpreted : /\ At(Dialog, c) /\ \E steps \in Script[c] : Then(Dialog, steps)
                                  /\ UNCHANGED <<tour, arrival, goal, world>>
      BY <2>2 DEF InterpretCommand
    <3>2. c = "resetTourManager" /\ Script["resetTourManager"] = {r}
      BY <2>1, <3>1 DEF At, Script
    <3> HIDE DEF r
    <3> QED BY <3>1, <3>2
  <2>4. r \o Tail(s) = r
    <3>1. r \in Seq(Steps)
      BY DEF Steps
    <3> HIDE DEF r
    <3> QED BY <2>1, <3>1, ConcatEmptySeq
  <2>5. s \notin Advancing /\ r \notin Advancing
    BY <1>4, TurnSteps DEF Advancing, ToWrap
  <2> QED BY <1>4, <2>3, <2>4, <2>5 DEF Then, Threaded, Resetting
<1>5. CASE s = <<"firstPoI", "headReset", "language", "updatePoI", "hear", "uncount">>
  <2>1. /\ Head(s) = "firstPoI"
        /\ Tail(s) = <<"headReset", "language", "updatePoI", "hear", "uncount">>
    BY <1>5
  <2>2. FirstPoI(Dialog)
    BY <2>1 DEF Step, InterpretCommand, Interpreted, Script, Say, Push, AwaitSpeech, AwaitQuiet,
         HeadReset, Count, Uncount, Hear,
         Increment, Wrap, SetLanguage, Locate, GotoTarget, AwaitMoving, WhileMoving, AwaitGoal,
         Arrive, Announce, AnnounceStart, StopNavigation, CutSpeech, MarkInterrupted,
         IfArrived, ResumeHearing, At
  <2> QED BY <1>1, <1>5, <2>1, <2>2, RemoveFirst DEF FirstPoI, Resetting, Reloading
<1>6. CASE s = <<"headReset", "language", "updatePoI", "hear", "uncount">>
  <2>1. Head(s) = "headReset" /\ Tail(s) = <<"language", "updatePoI", "hear", "uncount">>
    BY <1>6
  <2>2. HeadReset(Dialog)
    BY <2>1 DEF Step, InterpretCommand, Interpreted, Script, Say, Push, AwaitSpeech, AwaitQuiet,
         Count, Uncount, Hear,
         Increment, Wrap, FirstPoI, SetLanguage, Locate, GotoTarget, AwaitMoving, WhileMoving, AwaitGoal,
         Arrive, Announce, AnnounceStart, StopNavigation, CutSpeech, MarkInterrupted,
         IfArrived, ResumeHearing, At
  <2> QED BY <1>1, <1>6, <2>1, <2>2, RemoveFirst DEF HeadReset, Reloading
<1>7. CASE s = <<"language", "updatePoI", "hear", "uncount">>
  <2>1. Head(s) = "language" /\ Tail(s) = <<"updatePoI", "hear", "uncount">>
    BY <1>7
  <2>2. SetLanguage(Dialog)
    BY <2>1 DEF Step, InterpretCommand, Interpreted, Script, Say, Push, AwaitSpeech, AwaitQuiet,
         HeadReset, Count, Uncount, Hear,
         Increment, Wrap, FirstPoI, Locate, GotoTarget, AwaitMoving, WhileMoving, AwaitGoal,
         Arrive, Announce, AnnounceStart, StopNavigation, CutSpeech, MarkInterrupted,
         IfArrived, ResumeHearing, At
  <2>3. UNCHANGED <<arrival, goal, world>> /\ UNCHANGED index
    BY <2>2 DEF SetLanguage, UpdatePoI
  <2>4. currentPoI' \in {currentPoI, index}
    BY <2>1, <2>2 DEF SetLanguage, UpdatePoI, At
  <2>5. todo'[Dialog] = Tail(s) /\ \A u \in Threads \ {Dialog} : todo'[u] = todo[u]
    BY <1>1, <2>2, RemoveFirst DEF SetLanguage
  <2>6. s \in Reloading /\ Tail(s) \in Reloading
    BY <1>7, <2>1 DEF Reloading, TalkSteps
  <2> QED BY <2>3, <2>4, <2>5, <2>6
<1>8. CASE s = <<"updatePoI", "hear", "uncount">>
  <2>1. Head(s) = "updatePoI" /\ Tail(s) = <<"hear", "uncount">>
    BY <1>8
  <2>2. SetLanguage(Dialog)
    BY <2>1 DEF Step, InterpretCommand, Interpreted, Script, Say, Push, AwaitSpeech, AwaitQuiet,
         HeadReset, Count, Uncount, Hear,
         Increment, Wrap, FirstPoI, Locate, GotoTarget, AwaitMoving, WhileMoving, AwaitGoal,
         Arrive, Announce, AnnounceStart, StopNavigation, CutSpeech, MarkInterrupted,
         IfArrived, ResumeHearing, At
  <2>3. UNCHANGED <<arrival, goal, world>> /\ UNCHANGED index
    BY <2>2 DEF SetLanguage, UpdatePoI
  <2>4. currentPoI' = index
    <3>1. index \in PoIs
      BY <2>1, TurnSteps DEF IndexOK
    <3> QED BY <2>1, <2>2, <3>1 DEF SetLanguage, UpdatePoI, At
  <2>5. todo'[Dialog] = Tail(s) /\ \A u \in Threads \ {Dialog} : todo'[u] = todo[u]
    BY <1>1, <2>2, RemoveFirst DEF SetLanguage
  <2>6. s \in Reloading /\ Tail(s) \in Seq(TalkSteps)
    BY <1>8, <2>1 DEF Reloading, TalkSteps
  <2> QED BY <2>3, <2>4, <2>5, <2>6
<1> QED BY <1>2, <1>3, <1>4, <1>5, <1>6, <1>7, <1>8, <1>9, <1>10
        DEF Taking, Advancing, Resetting, Reloading

----------------------------------------------------------------------------
(* What the parts of the invariant depend on.                              *)

LEMMA ArrivedKept ==
  ASSUME Arrived, UNCHANGED <<arrival, world, currentPoI>> PROVE Arrived'
BY DEF Arrived, Still, arrival, world

LEMMA UnderwayKept ==
  ASSUME Underway, todo'[GoTo] = todo[GoTo], UNCHANGED <<arrival, goal, world, currentPoI>>
  PROVE  Underway'
BY DEF Underway, UnderWay, Locating, Still, arrival, world

(* At a PoI any other may become the current one.                          *)
LEMMA ArrivedAnywhere ==
  ASSUME Arrived, hasReached, UNCHANGED <<arrival, world>> PROVE Arrived'
BY DEF Arrived, Still, arrival, world

LEMMA NoneUnderway ==
  ASSUME todo'[GoTo] = <<>> PROVE Underway'
<1>1. /\ ~Has(<<>>, "arrive") /\ ~Has(<<>>, "locate")
      /\ End(<<>>) # "awaitGoal" /\ OnlyLast(<<>>, "awaitGoal")
  BY EmptySeq DEF Has, End, OnlyLast
<1> QED BY <1>1 DEF Underway, UnderWay, Locating

(* Dialog's steps: the PoI changes only where the robot is.                *)
LEMMA DialogKeeps == ASSUME Calm, CalmInv, Step(Dialog) PROVE CalmInv'
<1>1. /\ Threads = {GoTo, Dialog} /\ GoTo # Dialog /\ Dialog \in Threads
      /\ TourInv /\ IndexOK /\ Threaded /\ Apart /\ Arrived /\ Underway
  BY TwoThreads DEF CalmInv, TourInv, Shape
<1>2. TourInv'
  BY <1>1, StepShape
<1>3. CASE todo[Dialog] \in Seq(TalkSteps)
  <2>1. /\ todo'[Dialog] \in Seq(TalkSteps) /\ todo'[GoTo] = todo[GoTo]
        /\ UNCHANGED <<tour, arrival, goal, world>>
    BY <1>1, <1>3, DialogTalks
  <2>2. /\ todo[Dialog] \notin Taking \cup Resetting \cup Reloading
        /\ todo'[Dialog] \notin Taking \cup Resetting \cup Reloading
    BY <1>3, <2>1, Changes
  <2>3. Apart'
    BY <1>1, <2>1, <2>2 DEF Apart, Changing, Taking, AtPoI, tour, arrival
  <2> QED BY <1>1, <1>2, <2>1, <2>3, ArrivedKept, UnderwayKept DEF CalmInv, tour
<1>4. CASE todo[Dialog] \in Taking \cup Resetting \cup Reloading
  <2>1. /\ todo'[GoTo] = todo[GoTo] /\ UNCHANGED <<arrival, goal, world>>
        /\ hasReached' = hasReached /\ previousPoI' = previousPoI
    BY <1>1, <1>4, DialogChanges DEF arrival
  <2>2. /\ currentPoI' # currentPoI => Changing
        /\ Changing' => Changing /\ currentPoI' = currentPoI
        /\ todo'[Dialog] \in Seq(TalkSteps) \cup Taking \cup Resetting \cup Reloading
        /\ todo'[Dialog] \in Reloading => index' = StartPoI
        /\ todo'[Dialog] \notin Reloading \cup Advancing => index' = currentPoI'
    <3>1. /\ todo[Dialog] \in Reloading => index = StartPoI
          /\ todo[Dialog] \notin Reloading \cup Advancing => index = currentPoI
      BY <1>1 DEF Apart
    <3>2. /\ \A q \in Taking \cup Resetting : q \notin Reloading
          /\ Advancing \subseteq Taking
          /\ \A q \in Resetting : q \notin Advancing
      <4>1. \A q \in Reloading \cup Resetting :
              Head(q) \in {"headReset", "language", "updatePoI", "resetTourManager", "firstPoI"}
        BY DEF Reloading, Resetting
      <4>2. Head(<<"updatePoI", "uncount">>) = "updatePoI"
            /\ \A q \in Reloading \cup Resetting : q # <<"updatePoI", "uncount">>
        BY DEF Reloading, Resetting
      <4>3. \A q \in Resetting : q \notin Reloading
        BY DEF Resetting, Reloading
      <4> QED BY <4>1, <4>2, <4>3, TurnSteps DEF Taking, Advancing
    <3>3. \A q \in Seq(TalkSteps) : q \notin Taking \cup Resetting \cup Reloading
      BY Changes
    <3>4. CASE /\ todo[Dialog] \in Taking \cup Resetting
               /\ todo'[Dialog] \in Taking \cup Resetting
               /\ UNCHANGED currentPoI
               /\ todo'[Dialog] \notin Advancing =>
                    UNCHANGED index /\ todo[Dialog] \notin Advancing
      BY <3>1, <3>2, <3>4 DEF Changing
    <3>5. CASE /\ todo[Dialog] \in Taking /\ todo'[Dialog] \in Seq(TalkSteps)
               /\ currentPoI' = index'
      BY <3>1, <3>3, <3>5 DEF Changing
    <3>6. CASE /\ todo[Dialog] \in Resetting /\ todo'[Dialog] \in Reloading
               /\ index' = StartPoI /\ UNCHANGED currentPoI
      BY <3>1, <3>2, <3>6 DEF Changing
    <3>7. CASE /\ todo[Dialog] \in Reloading /\ todo'[Dialog] \in Reloading
               /\ UNCHANGED index /\ currentPoI' \in {currentPoI, index}
      BY <3>1, <3>2, <3>7 DEF Changing
    <3>8. CASE /\ todo[Dialog] \in Reloading /\ todo'[Dialog] \in Seq(TalkSteps)
               /\ UNCHANGED index /\ currentPoI' = index
      BY <3>1, <3>3, <3>8 DEF Changing
    <3> QED BY <1>1, <1>4, <3>4, <3>5, <3>6, <3>7, <3>8, DialogChanges
  <2>3. Changing => AtPoI /\ hasReached /\ todo[GoTo] = <<>>
    BY <1>1 DEF Apart, AtPoI
  <2>4. Apart'
    BY <1>1, <2>1, <2>2, <2>3 DEF Apart, AtPoI
  <2>5. CASE currentPoI' = currentPoI
    BY <1>1, <1>2, <2>1, <2>4, <2>5, ArrivedKept, UnderwayKept DEF CalmInv
  <2>6. CASE currentPoI' # currentPoI
    BY <1>1, <1>2, <2>1, <2>2, <2>3, <2>4, <2>6, ArrivedAnywhere, NoneUnderway DEF CalmInv
  <2> QED BY <2>5, <2>6
<1> QED BY <1>1, <1>3, <1>4 DEF Apart

----------------------------------------------------------------------------
(* While GoTo has steps left no PoI changes.                               *)
LEMMA GoToAlone ==
  ASSUME Apart, todo[GoTo] # <<>>
  PROVE  /\ ~Changing /\ currentPoI = index /\ todo[GoTo] \in Seq(GoToSteps)
         /\ Head(todo[GoTo]) \in GoToSteps
BY TailSteps DEF Apart, Changing

(* It is so after each of its steps, too.                                  *)
LEMMA GoToApart ==
  ASSUME Apart, todo[GoTo] # <<>>, todo'[GoTo] \in Seq(GoToSteps),
         todo'[Dialog] = todo[Dialog], UNCHANGED tour
  PROVE  Apart'
BY GoToAlone DEF Apart, Changing, tour

(* The steps that neither move the robot nor look at it.                   *)
LEMMA GoToTalks ==
  ASSUME Calm, CalmInv, Step(GoTo),
         Head(todo[GoTo]) \in StillSteps \cup {"whileMoving"}, todo[GoTo] # <<>>
  PROVE  CalmInv'
<1>1. /\ Threads = {GoTo, Dialog} /\ GoTo # Dialog /\ GoTo \in Threads
      /\ TourInv /\ Shape /\ Threaded /\ CountBounded /\ Apart /\ Arrived /\ Underway
  BY TwoThreads DEF CalmInv, TourInv, Shape
<1>2. TourInv' /\ currentPoI = index /\ todo[GoTo] \in Seq(GoToSteps)
  BY <1>1, StepShape, GoToAlone
<1>3. Head(todo[GoTo]) \notin {"gotoTarget", "awaitMoving", "awaitGoal", "arrive", "locate",
                              "count", "increment"}
  BY DEF StillSteps, GoToSteps, ToGoal
<1>4. \/ InterpretCommand(GoTo) \/ WhileMoving(GoTo) \/ Announce(GoTo)
      \/ Say(GoTo) \/ Push(GoTo) \/ AwaitSpeech(GoTo) \/ AwaitQuiet(GoTo) \/ HeadReset(GoTo)
      \/ Uncount(GoTo) \/ Hear(GoTo) \/ SetLanguage(GoTo) \/ AnnounceStart(GoTo)
      \/ MarkInterrupted(GoTo)
  BY <1>3
  DEF Step, Count, Increment, Wrap, FirstPoI, Locate, GotoTarget, AwaitMoving, AwaitGoal, Arrive,
      StopNavigation, CutSpeech, IfArrived, ResumeHearing, At, StillSteps, GoToSteps, ToGoal
<1>5. UNCHANGED <<arrival, goal, world>> /\ UNCHANGED tour
  <2>1. CASE SetLanguage(GoTo)
    <3>1. index \in PoIs
      BY <1>1, <1>2 DEF TourInv, TypeOK
    <3> QED BY <1>2, <2>1, <3>1 DEF SetLanguage, UpdatePoI, tour
  <2> QED BY <1>4, <2>1
      DEF InterpretCommand, WhileMoving, Announce, Say, Push, AwaitSpeech, AwaitQuiet, HeadReset,
          Uncount, Hear, AnnounceStart, MarkInterrupted
<1>6. PICK more \in Seq(StillSteps) : todo' = [todo EXCEPT ![GoTo] = more \o Tail(todo[GoTo])]
  <2>1. /\ {"say", "push", "awaitSpeech", "awaitQuiet"} \subseteq StillSteps
        /\ <<>> \in Seq(StillSteps) /\ <<"uninterrupt">> \in Seq(StillSteps)
        /\ <<"sayWhileNavigating">> \in Seq(StillSteps)
        /\ <<"language", "startpoi", "hear">> \in Seq(StillSteps)
    BY DEF StillSteps, GoToSteps, ToGoal
  <2>2. CASE InterpretCommand(GoTo)
    <3>1. PICK c \in Interpreted : At(GoTo, c) /\ \E steps \in Script[c] : Then(GoTo, steps)
      BY <2>2 DEF InterpretCommand
    <3>2. c \in Interpreted \cap GoToSteps
      BY <3>1 DEF At, StillSteps, GoToSteps, ToGoal
    <3> QED BY <3>1, <3>2, StillScripts DEF Then
  <2>3. CASE WhileMoving(GoTo)
    <3> DEFINE again == <<"say", "push">> \o BlockSpeak \o <<"uninterrupt">>
    <3>1. again \in Seq(StillSteps)
      BY <2>1, SayIn
    <3> HIDE DEF again
    <3>2. Then(GoTo, again) \/ Then(GoTo, <<"sayWhileNavigating">>)
      BY <2>3 DEF WhileMoving, again
    <3> QED BY <2>1, <3>1, <3>2 DEF Then
  <2>4. CASE Announce(GoTo)
    <3>1. Then(GoTo, <<"language", "startpoi", "hear">>) \/ Then(GoTo, <<>>)
      BY <2>4 DEF Announce
    <3> QED BY <2>1, <3>1 DEF Then
  <2>5. CASE \/ Say(GoTo) \/ Push(GoTo) \/ AwaitSpeech(GoTo) \/ AwaitQuiet(GoTo) \/ HeadReset(GoTo)
             \/ Uncount(GoTo) \/ Hear(GoTo) \/ SetLanguage(GoTo) \/ AnnounceStart(GoTo)
             \/ MarkInterrupted(GoTo)
    <3>1. Continue(GoTo)
      BY <2>5 DEF Say, Push, AwaitSpeech, AwaitQuiet, HeadReset, Uncount, Hear, SetLanguage,
                  AnnounceStart, MarkInterrupted
    <3> QED BY <1>1, <2>1, <3>1, RemoveFirst
  <2> QED BY <1>4, <2>2, <2>3, <2>4, <2>5
<1>7. /\ todo'[GoTo] \in Seq(GoToSteps) /\ todo'[Dialog] = todo[Dialog]
      /\ Has(todo'[GoTo], "arrive") => Has(todo[GoTo], "arrive")
      /\ Has(todo[GoTo], "awaitMoving") => Has(todo'[GoTo], "awaitMoving")
      /\ OnlyLast(todo'[GoTo], "awaitGoal")
  <2>1. more \in Seq(GoToSteps) /\ ~Has(more, "arrive") /\ ~Has(more, "awaitGoal")
    BY StillHas DEF ToGoal
  <2> QED BY <1>1, <1>2, <1>3, <1>6, <2>1, ReplaceFirst DEF Underway
<1>8. ~Has(todo'[GoTo], "arrive")
  <2>1. todo[GoTo] = <<"arrive">> => Head(todo[GoTo]) = "arrive"
    OBVIOUS
  <2> QED BY <1>1, <1>3, <1>7, <2>1 DEF Underway
<1>9. SameWay
  <2>1. more \in Seq(Plain)
    <3>1. StillSteps \subseteq Plain
      BY DEF StillSteps, GoToSteps, Plain, Special, Steps, Interpreted, Script, ToGoal,
             Counting, Turning
    <3> QED BY <3>1, SeqMono
  <2> QED BY <1>1, <1>3, <1>6, <2>1, AdvanceShape
<1>10. Underway'
  BY <1>1, <1>5, <1>7, <1>8, <1>9 DEF Underway, SameWay, tour, arrival, world
<1>11. Apart' /\ Arrived'
  BY <1>1, <1>5, <1>7, GoToApart, ArrivedKept DEF tour
<1> QED BY <1>2, <1>10, <1>11 DEF CalmInv

----------------------------------------------------------------------------
(* The steps that move the robot or look at it.                            *)

LEMMA RouteGoes ==
  ASSUME NEW first \in BOOLEAN
  PROVE  /\ Route(first) \in Seq(GoToSteps) /\ ~Has(Route(first), "arrive")
         /\ Has(Route(first), "awaitMoving") /\ OnlyLast(Route(first), "awaitGoal")
<1> DEFINE warning == IF first THEN <<>> ELSE <<"warningNextNavigation">>
<1>1. warning \in Seq(GoToSteps) /\ ~Has(warning, "arrive") /\ ~Has(warning, "awaitGoal")
  <2>1. <<>> \in Seq(StillSteps) /\ <<"warningNextNavigation">> \in Seq(StillSteps)
    BY DEF StillSteps, GoToSteps, ToGoal
  <2> QED BY <2>1, StillHas DEF ToGoal
<1>2. {"gotoTarget", "awaitMoving", "whileMoving", "awaitGoal"} \subseteq GoToSteps
  BY DEF GoToSteps, ToGoal
<1>3. /\ Move4 \in Seq(GoToSteps) /\ ~Has(Move4, "arrive") /\ Has(Move4, "awaitMoving")
      /\ OnlyLast(Move4, "awaitGoal")
  BY <1>2 DEF Move4, Has, OnlyLast
<1>4. Route(first) = warning \o Move4
  BY DEF Route
<1> HIDE DEF warning
<1> QED BY <1>1, <1>3, <1>4, ConcatSteps

(* The PoI is located: nothing but another place is gone to.               *)
LEMMA GoToLocates == ASSUME Calm, CalmInv, Locate(GoTo) PROVE CalmInv'
<1>1. /\ Threads = {GoTo, Dialog} /\ GoTo # Dialog /\ GoTo \in Threads
      /\ TourInv /\ TypeOK /\ Shape /\ Threaded /\ CountBounded
      /\ Apart /\ Arrived /\ Underway
  BY TwoThreads DEF CalmInv, TourInv, Shape
<1>2. /\ TourInv' /\ Locating /\ ~Locating' /\ todo[GoTo] # <<>>
      /\ UNCHANGED <<tour, arrival, world>>
  BY <1>1, StepShape, LocateShape DEF Step, Locate, At, TypeOK
<1>3. ~hasReached /\ ~hasReached' /\ UNCHANGED <<currentPoI, place, nav, previousLoc>>
  BY <1>1, <1>2 DEF Underway, arrival, tour, world
<1>4. Arrived'
  BY <1>1, <1>2, ArrivedKept DEF tour
<1>5. CASE Return(GoTo)
  <2>1. todo'[GoTo] = <<>> /\ todo'[Dialog] = todo[Dialog] /\ <<>> \in Seq(GoToSteps)
    BY <1>1, <1>5 DEF Return, Threaded
  <2> QED BY <1>1, <1>2, <1>4, <2>1, GoToApart, NoneUnderway DEF CalmInv
<1>6. CASE ~Return(GoTo)
  <2>1. /\ todo' = [todo EXCEPT ![GoTo] = IF goal' = previousLoc THEN <<"arrive">>
                                          ELSE Route(firstStart)]
        /\ goal' = LocationOf[currentPoI]
    BY <1>6 DEF Locate, Route, Move4
  <2>2. CASE goal' = previousLoc
    <3>1. todo'[GoTo] = <<"arrive">> /\ todo'[Dialog] = todo[Dialog]
          /\ place = previousLoc /\ Still
      BY <1>1, <2>1, <2>2 DEF Threaded, Arrived
    <3>2. /\ <<"arrive">> \in Seq(GoToSteps) /\ OnlyLast(<<"arrive">>, "awaitGoal")
          /\ End(<<"arrive">>) # "awaitGoal"
      BY DEF GoToSteps, OnlyLast, End
    <3>3. Apart'
      BY <1>1, <1>2, <3>1, <3>2, GoToApart
    <3>4. Underway'
      BY <1>2, <1>3, <2>1, <2>2, <3>1, <3>2 DEF Underway, UnderWay, Still
    <3> QED BY <1>2, <1>4, <3>3, <3>4 DEF CalmInv
  <2>3. CASE goal' # previousLoc
    <3>1. todo'[GoTo] = Route(firstStart) /\ todo'[Dialog] = todo[Dialog]
      BY <1>1, <2>1, <2>3 DEF Threaded
    <3>2. /\ Route(firstStart) \in Seq(GoToSteps) /\ ~Has(Route(firstStart), "arrive")
          /\ Has(Route(firstStart), "awaitMoving") /\ OnlyLast(Route(firstStart), "awaitGoal")
      BY <1>1, RouteGoes DEF TypeOK
    <3>3. Apart'
      BY <1>1, <1>2, <3>1, <3>2, GoToApart
    <3>4. Underway'
      BY <1>2, <1>3, <2>1, <2>3, <3>1, <3>2 DEF Underway
    <3> QED BY <1>2, <1>4, <3>3, <3>4 DEF CalmInv
  <2> QED BY <2>2, <2>3
<1> QED BY <1>5, <1>6

(* The step gotoTarget, and awaitMoving if the robot is seen moving.       *)
LEMMA GoToMoves ==
  ASSUME Calm, CalmInv, GotoTarget(GoTo) \/ (AwaitMoving(GoTo) /\ nav = "moving") PROVE CalmInv'
<1>1. /\ Threads = {GoTo, Dialog} /\ GoTo # Dialog /\ GoTo \in Threads
      /\ TourInv /\ Shape /\ Threaded /\ CountBounded /\ Apart /\ Arrived /\ Underway
  BY TwoThreads DEF CalmInv, TourInv, Shape
<1>2. /\ todo[GoTo] # <<>> /\ Head(todo[GoTo]) \in {"gotoTarget", "awaitMoving"}
      /\ Continue(GoTo) /\ UNCHANGED <<tour, arrival, goal, place>>
  BY DEF GotoTarget, AwaitMoving, At, world
<1>3. /\ todo[GoTo] \in Seq(GoToSteps) /\ currentPoI = index /\ <<>> \in Seq(GoToSteps)
      /\ \A x : ~Has(<<>>, x)
  BY <1>1, <1>2, GoToAlone, EmptySeq DEF Has
<1>4. /\ Has(todo[GoTo], Head(todo[GoTo]))
      /\ todo[GoTo] = <<"arrive">> => Head(todo[GoTo]) = "arrive"
  BY <1>2, <1>3, TailSteps
<1>5. UnderWay /\ ~Has(todo[GoTo], "arrive") /\ ~Has(todo[GoTo], "locate")
  <2>1. Has(todo[GoTo], "locate") => Tail(todo[GoTo]) = <<>>
    BY <1>1 DEF Shape, RouteOK
  <2>2. End(todo[GoTo]) = IF Tail(todo[GoTo]) = <<>> THEN Head(todo[GoTo])
                          ELSE End(Tail(todo[GoTo]))
    BY <1>2, <1>3, TailSteps
  <2> QED BY <1>1, <1>2, <1>4, <2>1, <2>2 DEF Shape, RouteOK, ToGoal, UnderWay, Underway
<1>6. todo' = [todo EXCEPT ![GoTo] = <<>> \o Tail(todo[GoTo])]
  BY <1>1, <1>2, RemoveFirst
<1>7. /\ todo'[GoTo] \in Seq(GoToSteps) /\ todo'[Dialog] = todo[Dialog]
      /\ ~Has(todo'[GoTo], "arrive") /\ ~Has(todo'[GoTo], "locate")
      /\ OnlyLast(todo'[GoTo], "awaitGoal")
      /\ Has(todo[GoTo], "awaitMoving") =>
           Head(todo[GoTo]) = "awaitMoving" \/ Has(todo'[GoTo], "awaitMoving")
  BY <1>1, <1>2, <1>3, <1>5, <1>6, ReplaceFirst DEF Underway
<1>8. TourInv'
  BY <1>1, StepShape DEF Step
<1>9. Apart'
  BY <1>1, <1>2, <1>7, GoToApart
<1>10. /\ ~hasReached /\ goal = LocationOf[currentPoI] /\ goal # previousLoc
       /\ UNCHANGED <<hasReached, previousPoI, previousLoc, currentPoI, goal, place>>
  BY <1>1, <1>2, <1>5 DEF Underway, arrival, tour
<1>11. /\ \/ nav' = "preparing" /\ target' = goal
          \/ nav' = nav /\ target' = target
       /\ ~Has(todo'[GoTo], "awaitMoving") => target' = goal
  <2>1. CASE GotoTarget(GoTo)
    <3>1. Head(todo[GoTo]) = "gotoTarget"
      BY <2>1 DEF GotoTarget, At
    <3>2. \/ nav' = "preparing" /\ target' = goal
          \/ nav' = nav /\ target' = target
      BY <1>10, <2>1 DEF GotoTarget
    <3> QED BY <1>1, <1>5, <1>7, <3>1, <3>2 DEF Underway
  <2>2. CASE AwaitMoving(GoTo) /\ nav = "moving"
    BY <1>1, <1>10, <2>2 DEF AwaitMoving, world, Arrived, Still
  <2> QED BY <2>1, <2>2
<1>12. Arrived'
  BY <1>1, <1>10, <1>11 DEF Arrived, Still
<1>13. Underway'
  BY <1>7, <1>10, <1>11 DEF Underway, Locating
<1> QED BY <1>8, <1>9, <1>12, <1>13 DEF CalmInv

(* The two steps at which sendToPoI may return.                            *)
LEMMA GoToReturns ==
  ASSUME Calm, CalmInv, (AwaitMoving(GoTo) /\ nav # "moving") \/ AwaitGoal(GoTo) PROVE CalmInv'
<1>1. /\ Threads = {GoTo, Dialog} /\ GoTo # Dialog /\ GoTo \in Threads
      /\ TourInv /\ Shape /\ Threaded /\ CountBounded /\ Apart /\ Arrived /\ Underway
  BY TwoThreads DEF CalmInv, TourInv, Shape
<1>2. /\ todo[GoTo] # <<>> /\ UNCHANGED <<tour, arrival, goal, world>>
      /\ Head(todo[GoTo]) \in {"awaitMoving", "awaitGoal"}
  BY DEF AwaitMoving, AwaitGoal, At
<1>3. /\ todo[GoTo] \in Seq(GoToSteps) /\ currentPoI = index /\ ~Changing
  BY <1>1, <1>2, GoToAlone
<1>4. TourInv' /\ ~UnderWay' /\ ~Locating'
  <2>1. TourInv'
    BY <1>1, StepShape DEF Step
  <2>2. ~(AwaitMoving(GoTo) /\ nav = "moving")
    BY DEF AwaitMoving, AwaitGoal, At
  <2> QED BY <1>1, <2>1, <2>2, ReturnShape
<1>5. Has(todo[GoTo], Head(todo[GoTo])) /\ UnderWay
  <2>1. Has(todo[GoTo], Head(todo[GoTo]))
    BY <1>2, <1>3, TailSteps
  <2> QED BY <1>1, <1>2, <2>1 DEF Shape, RouteOK, ToGoal, UnderWay
<1>6. CASE AwaitGoal(GoTo) /\ nav = "reached"
  <2>1. todo' = [todo EXCEPT ![GoTo] = <<"arrive">>] /\ Head(todo[GoTo]) = "awaitGoal"
    BY <1>6 DEF AwaitGoal, At
  <2>2. Tail(todo[GoTo]) = <<>> /\ ~Has(<<>>, "awaitMoving")
    BY <1>1, <1>2, <1>3, <2>1, EmptySeq, TailSteps DEF Underway, Has
  <2>3. ~Has(todo[GoTo], "awaitMoving")
    BY <1>2, <1>3, <2>1, <2>2, TailSteps
  <2>4. place = goal /\ goal = LocationOf[currentPoI] /\ Still
    BY <1>1, <1>5, <1>6, <2>3 DEF Underway, Arrived, Still
  <2>5. todo'[GoTo] = <<"arrive">> /\ todo'[Dialog] = todo[Dialog]
    BY <1>1, <2>1 DEF Threaded
  <2>6. <<"arrive">> \in Seq(GoToSteps) /\ OnlyLast(<<"arrive">>, "awaitGoal")
    BY DEF GoToSteps, OnlyLast
  <2>7. Apart' /\ Arrived'
    BY <1>1, <1>2, <2>5, <2>6, GoToApart, ArrivedKept DEF tour
  <2>8. Underway'
    BY <1>2, <1>4, <2>4, <2>5, <2>6 DEF Underway, Still, tour, world
  <2> QED BY <1>4, <2>7, <2>8 DEF CalmInv
<1>7. CASE ~(AwaitGoal(GoTo) /\ nav = "reached")
  <2>1. PICK s \in Seq(StillSteps) : todo' = [todo EXCEPT ![GoTo] = s]
    <3>1. /\ <<>> \in Seq(StillSteps) /\ <<"headReset">> \in Seq(StillSteps)
          /\ <<"navigationError">> \in Seq(StillSteps)
      BY DEF StillSteps, GoToSteps, ToGoal
    <3>2. CASE AwaitMoving(GoTo) /\ nav # "moving"
      BY <3>1, <3>2 DEF AwaitMoving, Return
    <3>3. CASE AwaitGoal(GoTo)
      <4> DEFINE fails == (IF isSpeaking THEN <<"headReset">> ELSE <<>>)
                            \o <<"navigationError">>
      <4>1. fails \in Seq(StillSteps)
        BY <3>1, ConcatProperties
      <4> HIDE DEF fails
      <4>2. todo' = [todo EXCEPT ![GoTo] = <<>>] \/ todo' = [todo EXCEPT ![GoTo] = fails]
        BY <1>7, <3>3 DEF AwaitGoal, fails
      <4> QED BY <3>1, <4>1, <4>2
    <3> QED BY <3>2, <3>3
  <2>2. todo'[GoTo] = s /\ todo'[Dialog] = todo[Dialog]
    BY <1>1, <2>1 DEF Threaded
  <2>3. s \in Seq(GoToSteps) /\ ~Has(s, "arrive") /\ ~Has(s, "awaitGoal")
    BY StillHas DEF ToGoal
  <2>4. Apart' /\ Arrived'
    BY <1>1, <1>2, <2>2, <2>3, GoToApart, ArrivedKept DEF tour
  <2>5. OnlyLast(s, "awaitGoal")
    BY <2>3 DEF Has, OnlyLast
  <2>6. Underway'
    BY <1>4, <2>2, <2>3, <2>5 DEF Underway
  <2> QED BY <1>4, <2>4, <2>6 DEF CalmInv
<1> QED BY <1>6, <1>7

(* The arrival: the robot is at the coordinates that are recorded.         *)
LEMMA ArriveThere == ASSUME CalmInv, Arrive(GoTo) PROVE place = goal
<1>1. todo[GoTo] # <<>> /\ Head(todo[GoTo]) = "arrive" /\ todo[GoTo] \in Seq(GoToSteps)
  BY GoToAlone DEF Arrive, At, CalmInv
<1>2. Has(todo[GoTo], "arrive")
  BY <1>1, TailSteps
<1> QED BY <1>2 DEF CalmInv, Underway

LEMMA GoToArrives == ASSUME Calm, CalmInv, Arrive(GoTo) PROVE CalmInv'
<1>1. /\ Threads = {GoTo, Dialog} /\ GoTo # Dialog /\ GoTo \in Threads
      /\ TourInv /\ Threaded /\ Apart /\ Arrived /\ Underway
  BY TwoThreads DEF CalmInv, TourInv, Shape
<1>2. /\ todo[GoTo] # <<>> /\ Head(todo[GoTo]) = "arrive" /\ todo[GoTo] \in Seq(GoToSteps)
      /\ todo' = [todo EXCEPT ![GoTo] = <<"announce">> \o Tail(todo[GoTo])]
      /\ hasReached' = TRUE /\ previousPoI' = currentPoI /\ previousLoc' = goal
      /\ UNCHANGED <<tour, goal, world>>
  BY <1>1, GoToAlone DEF Arrive, At, Then
<1>3. Has(todo[GoTo], "arrive")
  BY <1>2, TailSteps
<1>4. todo[GoTo] = <<"arrive">> /\ goal = LocationOf[currentPoI] /\ place = goal /\ Still
  BY <1>1, <1>3 DEF Underway
<1>5. Tail(todo[GoTo]) = <<>>
  BY <1>4
<1>6. /\ <<"announce">> \in Seq(GoToSteps) /\ OnlyLast(<<"announce">>, "awaitGoal")
      /\ End(<<"announce">>) # "awaitGoal" /\ ~Has(<<"announce">>, "arrive")
      /\ ~Has(<<"announce">>, "locate")
  BY DEF GoToSteps, OnlyLast, End, Has
<1>7. todo'[GoTo] = <<"announce">> /\ todo'[Dialog] = todo[Dialog]
  <2>1. <<"announce">> \o <<>> = <<"announce">>
    BY <1>6, ConcatEmptySeq
  <2> QED BY <1>1, <1>2, <1>5, <2>1 DEF Threaded
<1>8. TourInv'
  BY <1>1, StepShape DEF Step
<1>9. Apart'
  BY <1>1, <1>2, <1>6, <1>7, GoToApart
<1>10. Arrived'
  BY <1>1, <1>2, <1>4 DEF TourInv, TypeOK, Arrived, Still, tour, world
<1>11. Underway'
  BY <1>6, <1>7 DEF Underway, UnderWay, Locating
<1> QED BY <1>8, <1>9, <1>10, <1>11 DEF CalmInv

LEMMA GoToKeeps == ASSUME Calm, CalmInv, Step(GoTo) PROVE CalmInv'
<1>1. todo[GoTo] # <<>>
  BY DEF Step, InterpretCommand, Say, Push, AwaitSpeech, AwaitQuiet, HeadReset, Count, Uncount, Hear,
         Increment, Wrap, FirstPoI, SetLanguage, Locate, GotoTarget, AwaitMoving, WhileMoving, AwaitGoal,
         Arrive, Announce, AnnounceStart, StopNavigation, CutSpeech, MarkInterrupted,
         IfArrived, ResumeHearing, At
<1>2. Head(todo[GoTo]) \in GoToSteps
  BY <1>1, GoToAlone DEF CalmInv
<1>3. CASE Head(todo[GoTo]) \in StillSteps \cup {"whileMoving"}
  BY <1>1, <1>3, GoToTalks
<1>4. CASE Head(todo[GoTo]) \in {"locate", "gotoTarget", "awaitMoving", "awaitGoal", "arrive"}
  <2>1. \/ Locate(GoTo) \/ GotoTarget(GoTo) \/ AwaitMoving(GoTo) \/ AwaitGoal(GoTo)
        \/ Arrive(GoTo)
    BY <1>4
    DEF Step, InterpretCommand, Interpreted, Script, Say, Push, AwaitSpeech, AwaitQuiet, HeadReset,
        Count, Uncount, Hear, Increment, Wrap, FirstPoI, SetLanguage, WhileMoving, Announce,
        AnnounceStart, StopNavigation, CutSpeech, MarkInterrupted, IfArrived, ResumeHearing, At
  <2> QED BY <2>1, GoToLocates, GoToMoves, GoToReturns, GoToArrives
<1> QED BY <1>2, <1>3, <1>4 DEF StillSteps, ToGoal

----------------------------------------------------------------------------
(* The calls and the world.                                                *)

(* It is called only where isAtPoI is false, so no PoI is changing.        *)
LEMMA SendKeeps == ASSUME Calm, CalmInv, TourInv', ~AtPoI, SendToPoI PROVE CalmInv'
<1>1. /\ Threads = {GoTo, Dialog} /\ GoTo # Dialog /\ GoTo \in Threads
      /\ Threaded /\ Apart /\ Arrived /\ Underway
  BY TwoThreads DEF CalmInv, TourInv, Shape
<1>2. /\ todo'[GoTo] = <<"locate">> /\ todo'[Dialog] = todo[Dialog]
      /\ ~hasReached' /\ UNCHANGED <<tour, previousPoI, previousLoc, goal, world>>
  BY <1>1 DEF SendToPoI, Threaded
<1>3. /\ <<"locate">> \in Seq(GoToSteps) /\ OnlyLast(<<"locate">>, "awaitGoal")
      /\ End(<<"locate">>) # "awaitGoal" /\ ~Has(<<"locate">>, "arrive")
  BY DEF GoToSteps, OnlyLast, End, Has
<1>4. ~Changing
  BY <1>1 DEF Apart
<1>5. Arrived'
  BY <1>1, <1>2 DEF Arrived, Still, tour, world
<1>6. Apart'
  BY <1>1, <1>2, <1>3, <1>4 DEF Apart, Changing, tour
<1>7. Underway'
  BY <1>2, <1>3 DEF Underway, UnderWay
<1> QED BY <1>5, <1>6, <1>7 DEF CalmInv

(* A command comes only at a PoI.                                          *)
LEMMA CommandKeeps ==
  ASSUME Calm, CalmInv, TourInv', NEW command \in Commands, Receive(command) PROVE CalmInv'
<1>1. /\ Threads = {GoTo, Dialog} /\ GoTo # Dialog /\ Dialog \in Threads
      /\ Threaded /\ Apart /\ Arrived /\ Underway
  BY TwoThreads DEF CalmInv, TourInv, Shape
<1>2. /\ todo[Dialog] = <<>> /\ AtPoI /\ todo[GoTo] = <<>>
      /\ todo'[Dialog] = <<command>> /\ todo'[GoTo] = todo[GoTo]
      /\ UNCHANGED <<tour, arrival, goal, world>>
  BY <1>1 DEF Receive, Calm, Threaded
<1>3. /\ <<command>> \in Seq(TalkSteps) \cup Taking \cup Resetting
      /\ <<command>> \notin Reloading
  <2>1. command \in AllCommands
    BY TourConstantsOK
  <2>2. CASE command \in {"explain", "fallback"}
    <3>1. <<command>> \in Seq(TalkSteps)
      BY <2>2 DEF TalkSteps
    <3> QED BY <3>1, Changes
  <2>3. CASE command \in {"nextPoi", "resetTourManager"}
    BY <2>3 DEF Taking, Resetting, Reloading
  <2> QED BY <2>1, <2>2, <2>3 DEF AllCommands
<1>4. index = currentPoI
  <2>1. <<>> \notin Reloading \cup Advancing
    BY Changes DEF Taking
  <2> QED BY <1>1, <1>2, <2>1 DEF Apart
<1>5. Apart'
  BY <1>1, <1>2, <1>3, <1>4 DEF Apart, AtPoI, tour, arrival
<1> QED BY <1>1, <1>2, <1>5, ArrivedKept, UnderwayKept DEF CalmInv, tour

LEMMA WorldStays ==
  ASSUME CalmInv, TourInv', FinishText \/ LowerFlag \/ Move \/ UNCHANGED vars PROVE CalmInv'
<1>1. Apart /\ Arrived /\ Underway /\ UNCHANGED <<tour, arrival, goal, todo, target>>
  BY DEF CalmInv, FinishText, LowerFlag, Move, vars, world
<1>2. Apart'
  BY <1>1 DEF Apart, Changing, AtPoI, tour, arrival
<1>3. CASE UNCHANGED world
  BY <1>1, <1>2, <1>3, ArrivedKept, UnderwayKept DEF CalmInv, tour
<1>4. CASE Move
  <2>1. /\ ~Still
        /\ nav' = "reached" => place' = target
    BY <1>4 DEF Move, Still
  <2>2. Arrived'
    BY <1>1, <2>1 DEF Arrived, Still, tour, arrival
  <2>3. Underway'
    BY <1>1, <2>1 DEF Underway, UnderWay, Locating, Still, tour, arrival
  <2> QED BY <1>2, <2>2, <2>3 DEF CalmInv
<1> QED BY <1>3, <1>4 DEF FinishText, LowerFlag, vars

LEMMA InitCalm == Init /\ TourInv => CalmInv
<1> SUFFICES ASSUME Init, TourInv PROVE CalmInv
  OBVIOUS
<1>1. GoTo \in Threads /\ Dialog \in Threads
  BY DEF Threads
<1>2. todo[GoTo] = <<>> /\ todo[Dialog] = <<>>
  BY <1>1 DEF Init
<1>3. /\ ~Has(<<>>, "arrive") /\ ~Has(<<>>, "locate")
      /\ End(<<>>) # "awaitGoal" /\ OnlyLast(<<>>, "awaitGoal")
      /\ <<>> \in Seq(GoToSteps) /\ <<>> \in Seq(TalkSteps)
      /\ <<>> \notin Taking \cup Resetting \cup Reloading
  <2>1. <<>> \notin Taking \cup Resetting \cup Reloading
    BY Changes
  <2> QED BY <2>1, EmptySeq DEF Has, End, OnlyLast
<1>4. Apart
  BY <1>2, <1>3 DEF Init, Apart, Changing
<1>5. Arrived
  <2>1. StartPoI \in PoIs /\ LocationOf[StartPoI] # 0 /\ 0 \notin PoIs
    BY PoIsTyped, TourConstantsOK DEF PoIs
  <2> QED BY <2>1 DEF Init, Arrived, Still
<1>6. Underway
  BY <1>2, <1>3 DEF Underway, UnderWay, Locating
<1> QED BY <1>4, <1>5, <1>6 DEF CalmInv

----------------------------------------------------------------------------
LEMMA CalmStep == Calm /\ IInv /\ IInv' /\ CalmInv /\ [Next]_vars => CalmInv'
<1> SUFFICES ASSUME Calm, IInv, IInv', CalmInv, [Next]_vars PROVE CalmInv'
  OBVIOUS
<1>1. TourInv'
  BY DEF IInv
<1>2. CASE Calls
  BY <1>1, <1>2, SendKeeps, CommandKeeps DEF Calls, Calm
<1>3. ASSUME NEW t \in Threads, Step(t) PROVE CalmInv'
  BY <1>3, TwoThreads, DialogKeeps, GoToKeeps
<1>4. CASE FinishText \/ LowerFlag \/ Move \/ UNCHANGED vars
  BY <1>1, <1>4, WorldStays
<1> QED BY <1>2, <1>3, <1>4 DEF Next

(* In a calm tour a PoI changes only where the last one is reached, and    *)
(* what was reached last is where the robot stands.                        *)
THEOREM CalmInductive == Calm /\ Spec => []CalmInv
<1>1. CASE Calm
  <2>1. Init /\ IInv => CalmInv
    BY InitCalm DEF IInv
  <2>2. IInv /\ IInv' /\ CalmInv /\ [Next]_vars => CalmInv'
    BY <1>1, CalmStep
  <2> QED BY <2>1, <2>2, Inductive, PTL DEF Spec
<1>2. CASE ~Calm
  BY <1>2
<1> QED BY <1>1, <1>2

(* isAtPoI() answers yes only where the PoI is, even if sendToPoI has been *)
(* given up and called again, a PoI shares its place with the one before,  *)
(* or the tour has been reset.                                             *)
THEOREM AtPoIThere == Calm /\ Spec => []AtPoIMeansThere
<1>1. CalmInv => AtPoIMeansThere
  BY DEF CalmInv, Arrived, AtPoIMeansThere, AtPoI
<1> QED BY <1>1, CalmInductive, PTL

(* No PoI is loaded with an index past the end of the list: the movement   *)
(* and its setLanguage do not run while nextPoi changes the index.         *)
THEOREM LoadedInRange == Calm /\ Spec => []LoadsInRange
<1>1. ASSUME Calm, CalmInv PROVE LoadsInRange
  <2> SUFFICES ASSUME NEW t \in Threads, At(t, "language") \/ At(t, "updatePoI"),
                      index \notin PoIs
               PROVE  FALSE
    BY DEF LoadsInRange
  <2>1. todo[Dialog] = ToWrap
    BY <1>1 DEF CalmInv, TourInv, IndexOK
  <2>2. todo[GoTo] = <<>>
    BY <1>1, <2>1 DEF CalmInv, Apart, Changing, Taking, Advancing
  <2> QED BY <1>1, <2>1, <2>2, TwoThreads, TurnSteps DEF At
<1>2. CASE Calm
  <2>1. CalmInv => LoadsInRange
    BY <1>1, <1>2
  <2> QED BY <1>2, <2>1, CalmInductive, PTL
<1>3. CASE ~Calm
  BY <1>3
<1> QED BY <1>2, <1>3

(* A PoI is reached, by a movement or without one, only where the robot    *)
(* is at the coordinates sendToPoI has looked up.                          *)
THEOREM SkippedThere == Calm /\ Spec => SkipsOnlyWhenThere
<1>1. ASSUME Calm, CalmInv, [Next]_vars
      PROVE  [~hasReached /\ hasReached' => place = goal]_vars
  <2> SUFFICES ASSUME Next, ~hasReached, hasReached' PROVE place = goal
    BY <1>1
  <2>1. ~Calls /\ ~FinishText /\ ~LowerFlag /\ ~Move
    BY DEF Calls, SendToPoI, Receive, SendError, Recovered, FinishText, LowerFlag, Move, arrival
  <2>2. PICK t \in Threads : Step(t)
    BY <2>1 DEF Next
  <2>3. Arrive(t)
    BY <2>2
    DEF Step, InterpretCommand, Say, Push, AwaitSpeech, AwaitQuiet, HeadReset, Count, Uncount, Hear,
        Increment, Wrap, FirstPoI, SetLanguage, UpdatePoI, Locate, GotoTarget, AwaitMoving, WhileMoving,
        AwaitGoal, Announce, AnnounceStart, StopNavigation, CutSpeech, MarkInterrupted,
        IfArrived, ResumeHearing, arrival
  <2>4. t = GoTo
    <3>1. Has(todo[t], "arrive")
      BY <1>1, <2>3, TailSteps DEF Arrive, At, CalmInv, TourInv, Shape, Threaded
    <3> QED BY <1>1, <3>1 DEF CalmInv, TourInv, Shape, OthersStay
  <2> QED BY <1>1, <2>3, <2>4, ArriveThere
<1>2. CASE Calm
  <2>1. CalmInv /\ [Next]_vars
          => [~hasReached /\ hasReached' => place = goal]_vars
    BY <1>1, <1>2
  <2> QED BY <1>2, <2>1, CalmInductive, PTL DEF Spec, SkipsOnlyWhenThere
<1>3. CASE ~Calm
  BY <1>3
<1> QED BY <1>2, <1>3
----------------------------------------------------------------------------
(* No sentence is cut.  In what a thread has left, a sentence is pushed    *)
(* and waited for right after its flag is raised; in a Complete sequence   *)
(* each push and each wait has its raise before it.                        *)
Sentences(s) ==
  \A i \in DOMAIN s :
    /\ s[i] = "say" => i + 1 \in DOMAIN s /\ s[i + 1] = "push"
    /\ s[i] = "push" => i + 1 \in DOMAIN s /\ s[i + 1] = "awaitSpeech"
    /\ s[i] = "awaitSpeech" => i + 1 \in DOMAIN s /\ s[i + 1] = "awaitQuiet"
    /\ i + 1 \in DOMAIN s /\ s[i + 1] = "push" => s[i] = "say"
    /\ i + 1 \in DOMAIN s /\ s[i + 1] = "awaitSpeech" => s[i] = "push"
Begun(s) == s # <<>> /\ Head(s) \in {"push", "awaitSpeech"}
Complete(s) == Sentences(s) /\ ~Begun(s)

LEMMA NoSentence ==
  ASSUME NEW S, NEW s \in Seq(S), {"say", "push", "awaitSpeech"} \cap S = {}
  PROVE  Complete(s)
<1>1. \A i \in DOMAIN s : s[i] \notin {"say", "push", "awaitSpeech"}
  OBVIOUS
<1>2. s # <<>> => Head(s) \in S
  BY TailSteps
<1> QED BY <1>1, <1>2 DEF Complete, Sentences, Begun

LEMMA TailSentences ==
  ASSUME NEW S, NEW s \in Seq(S), s # <<>>, Sentences(s)
  PROVE  /\ Sentences(Tail(s))
         /\ Head(s) \notin {"say", "push"} => ~Begun(Tail(s))
         /\ Head(s) = "say" => Tail(s) # <<>> /\ Head(Tail(s)) = "push"
         /\ Head(s) = "push" => Tail(s) # <<>> /\ Head(Tail(s)) = "awaitSpeech"
         /\ Head(s) = "awaitSpeech" => Tail(s) # <<>> /\ Head(Tail(s)) = "awaitQuiet"
<1>1. /\ Len(s) \in Nat \ {0} /\ Len(Tail(s)) = Len(s) - 1 /\ Tail(s) \in Seq(S)
      /\ DOMAIN s = 1..Len(s) /\ DOMAIN Tail(s) = 1..Len(s) - 1
      /\ Head(s) = s[1] /\ \A i \in 1..Len(s) - 1 : Tail(s)[i] = s[i + 1]
  BY HeadTailProperties
<1>2. /\ Tail(s) # <<>> <=> 2 \in DOMAIN s
      /\ Tail(s) # <<>> => Head(Tail(s)) = s[2]
  <2>1. Tail(s) # <<>> <=> Len(Tail(s)) # 0
    BY <1>1, EmptySeq
  <2>2. Tail(s) # <<>> => Head(Tail(s)) = Tail(s)[1]
    BY <1>1, HeadTailProperties
  <2> QED BY <1>1, <2>1, <2>2
<1>3. Sentences(Tail(s))
  <2>1. ASSUME NEW i \in DOMAIN Tail(s)
        PROVE  /\ i + 1 \in DOMAIN s /\ Tail(s)[i] = s[i + 1]
               /\ i + 1 \in DOMAIN Tail(s) <=> i + 2 \in DOMAIN s
               /\ i + 1 \in DOMAIN Tail(s) => Tail(s)[i + 1] = s[i + 2]
               /\ (i + 1) + 1 = i + 2
    BY <1>1
  <2> QED BY <2>1 DEF Sentences
<1>4. 1 \in DOMAIN s /\ 1 + 1 = 2
  BY <1>1
<1>5. Head(s) \notin {"say", "push"} => ~Begun(Tail(s))
  BY <1>1, <1>2, <1>4 DEF Sentences, Begun
<1>6. /\ Head(s) = "say" => Tail(s) # <<>> /\ Head(Tail(s)) = "push"
      /\ Head(s) = "push" => Tail(s) # <<>> /\ Head(Tail(s)) = "awaitSpeech"
      /\ Head(s) = "awaitSpeech" => Tail(s) # <<>> /\ Head(Tail(s)) = "awaitQuiet"
  BY <1>1, <1>2, <1>4 DEF Sentences
<1> QED BY <1>3, <1>5, <1>6

LEMMA ConcatComplete ==
  ASSUME NEW S, NEW r \in Seq(S), NEW s \in Seq(S), Complete(r), Complete(s)
  PROVE  Complete(r \o s)
<1>1. /\ r \o s \in Seq(S) /\ Len(r) \in Nat /\ Len(s) \in Nat
      /\ DOMAIN r = 1..Len(r) /\ DOMAIN s = 1..Len(s)
      /\ DOMAIN (r \o s) = 1..Len(r) + Len(s)
      /\ \A i \in 1..Len(r) + Len(s) :
           (r \o s)[i] = IF i <= Len(r) THEN r[i] ELSE s[i - Len(r)]
  BY ConcatProperties
<1>2. /\ r # <<>> => Head(r) = r[1] /\ 1 \in DOMAIN r
      /\ s # <<>> => Head(s) = s[1] /\ 1 \in DOMAIN s
      /\ r \o s # <<>> => Head(r \o s) = (r \o s)[1] /\ 1 \in DOMAIN (r \o s)
  BY <1>1, HeadTailProperties, EmptySeq
<1>3. ~Begun(r \o s)
  <2>1. CASE r = <<>>
    <3>1. r \o s = s
      BY <2>1, ConcatEmptySeq
    <3> QED BY <3>1 DEF Complete
  <2>2. CASE r # <<>>
    BY <1>1, <1>2, <2>2 DEF Complete, Begun
  <2> QED BY <2>1, <2>2
<1>4. 1 \in DOMAIN s => s[1] \notin {"push", "awaitSpeech"}
  BY <1>1, <1>2, EmptySeq DEF Complete, Begun
<1>5. ASSUME NEW i \in DOMAIN (r \o s), i + 1 <= Len(r)
      PROVE  /\ i \in DOMAIN r /\ i + 1 \in DOMAIN r /\ i + 1 \in DOMAIN (r \o s)
             /\ (r \o s)[i] = r[i] /\ (r \o s)[i + 1] = r[i + 1]
  BY <1>1, <1>5
<1>6. ASSUME NEW i \in DOMAIN (r \o s), i > Len(r)
      PROVE  /\ i - Len(r) \in DOMAIN s /\ (r \o s)[i] = s[i - Len(r)]
             /\ i + 1 \in DOMAIN (r \o s) <=> (i - Len(r)) + 1 \in DOMAIN s
             /\ i + 1 \in DOMAIN (r \o s) => (r \o s)[i + 1] = s[(i - Len(r)) + 1]
  BY <1>1, <1>6
<1>7. ASSUME NEW i \in DOMAIN (r \o s), i = Len(r)
      PROVE  /\ i \in DOMAIN r /\ i + 1 \notin DOMAIN r /\ (r \o s)[i] = r[i]
             /\ i + 1 \in DOMAIN (r \o s) => 1 \in DOMAIN s /\ (r \o s)[i + 1] = s[1]
  BY <1>1, <1>7
<1>8. Sentences(r \o s)
  <2> SUFFICES ASSUME NEW i \in DOMAIN (r \o s)
               PROVE  LET q == r \o s IN
                      /\ q[i] = "say" => i + 1 \in DOMAIN q /\ q[i + 1] = "push"
                      /\ q[i] = "push" => i + 1 \in DOMAIN q /\ q[i + 1] = "awaitSpeech"
                      /\ q[i] = "awaitSpeech" => i + 1 \in DOMAIN q /\ q[i + 1] = "awaitQuiet"
                      /\ i + 1 \in DOMAIN q /\ q[i + 1] = "push" => q[i] = "say"
                      /\ i + 1 \in DOMAIN q /\ q[i + 1] = "awaitSpeech" => q[i] = "push"
    BY DEF Sentences
  <2>1. CASE i + 1 <= Len(r)
    BY <1>5, <2>1 DEF Complete, Sentences
  <2>2. CASE i > Len(r)
    BY <1>6, <2>2 DEF Complete, Sentences
  <2>3. CASE i = Len(r)
    BY <1>4, <1>7, <2>3 DEF Complete, Sentences
  <2>4. i + 1 <= Len(r) \/ i = Len(r) \/ i > Len(r)
    BY <1>1
  <2> QED BY <2>1, <2>2, <2>3, <2>4
<1> QED BY <1>3, <1>8 DEF Complete

(* Every sentence the code says is one that is waited for.                 *)
LEMMA SayComplete ==
  ASSUME NEW s \in Seq(Steps), Complete(s)
  PROVE  <<"say", "push">> \o BlockSpeak \o s \in Seq(Steps) /\ Complete(<<"say", "push">> \o BlockSpeak \o s)
<1> DEFINE said == <<"say", "push">> \o BlockSpeak
<1>1. /\ <<"say", "push">> \in Seq(Steps) /\ BlockSpeak \in Seq(Steps)
      /\ Len(<<"say", "push">>) = 2 /\ Len(BlockSpeak) = 2
      /\ <<"say", "push">>[1] = "say" /\ <<"say", "push">>[2] = "push"
      /\ BlockSpeak[1] = "awaitSpeech" /\ BlockSpeak[2] = "awaitQuiet"
  BY DEF BlockSpeak, Steps
<1>2. /\ said \in Seq(Steps) /\ Len(said) = 4 /\ DOMAIN said = 1..4
      /\ \A i \in 1..4 : said[i] = IF i <= 2 THEN <<"say", "push">>[i] ELSE BlockSpeak[i - 2]
  <2>1. /\ said \in Seq(Steps) /\ Len(said) = Len(<<"say", "push">>) + Len(BlockSpeak)
        /\ \A i \in 1..Len(<<"say", "push">>) + Len(BlockSpeak) :
             said[i] = IF i <= Len(<<"say", "push">>) THEN <<"say", "push">>[i]
                       ELSE BlockSpeak[i - Len(<<"say", "push">>)]
    BY <1>1, ConcatProperties
  <2> HIDE DEF said
  <2>2. Len(said) = 2 + 2 /\ DOMAIN said = 1..Len(said)
    BY <1>1, <2>1
  <2> QED BY <1>1, <2>1, <2>2
<1> HIDE DEF said
<1>3. /\ said # <<>> /\ Head(said) = "say" /\ said[1] = "say" /\ said[2] = "push"
      /\ said[3] = "awaitSpeech" /\ said[4] = "awaitQuiet"
  <2>1. \A i \in 1..4 : said[i] = IF i <= 2 THEN <<"say", "push">>[i] ELSE BlockSpeak[i - 2]
    BY <1>2
  <2>2. said[1] = <<"say", "push">>[1]
    BY ONLY <2>1
  <2>3. said[2] = <<"say", "push">>[2]
    BY ONLY <2>1
  <2>4. said[3] = BlockSpeak[3 - 2]
    BY ONLY <2>1
  <2>5. said[4] = BlockSpeak[4 - 2]
    BY ONLY <2>1
  <2>6. BlockSpeak[3 - 2] = BlockSpeak[1] /\ BlockSpeak[4 - 2] = BlockSpeak[2]
    OBVIOUS
  <2>7. said \in Seq(Steps) /\ Len(said) = 4
    BY <1>2
  <2>8. said # <<>>
    BY ONLY <2>7, EmptySeq
  <2>9. Head(said) = said[1]
    BY ONLY <2>7, <2>8
  <2> QED BY <1>1, <2>2, <2>3, <2>4, <2>5, <2>6, <2>8, <2>9
<1>4. Complete(said)
  <2>1. \A i \in DOMAIN said : i = 1 \/ i = 2 \/ i = 3 \/ i = 4
    BY <1>2
  <2>2. /\ 2 \in DOMAIN said /\ 3 \in DOMAIN said /\ 4 \in DOMAIN said
        /\ 1 + 1 = 2 /\ 2 + 1 = 3 /\ 3 + 1 = 4 /\ 4 + 1 \notin DOMAIN said
    BY <1>2
  <2> QED BY <1>3, <2>1, <2>2 DEF Complete, Sentences, Begun
<1>5. Complete(said \o s) /\ said \o s \in Seq(Steps)
  BY <1>2, <1>4, ConcatComplete, ConcatProperties
<1> QED BY <1>5 DEF said

Mute == Steps \ {"say", "push", "awaitSpeech"}
LEMMA MuteComplete ==
  ASSUME NEW s \in Seq(Mute) PROVE s \in Seq(Steps) /\ Complete(s)
<1>1. s \in Seq(Steps)
  BY SeqMono DEF Mute
<1> QED BY <1>1, NoSentence DEF Mute

LEMMA MuteTuples ==
  /\ <<>> \in Seq(Mute) /\ <<"announce">> \in Seq(Mute) /\ <<"arrive">> \in Seq(Mute)
  /\ <<"count">> \in Seq(Mute) /\ <<"uncount">> \in Seq(Mute) /\ <<"hear">> \in Seq(Mute)
  /\ <<"hear", "uncount">> \in Seq(Mute) /\ <<"uncount", "hear">> \in Seq(Mute)
  /\ Turn \in Seq(Mute) /\ <<"uninterrupt">> \in Seq(Mute)
  /\ <<"firstPoI", "headReset", "language", "updatePoI", "hear", "uncount">> \in Seq(Mute)
  /\ <<"navigationError">> \in Seq(Mute) /\ <<"sayWhileNavigating">> \in Seq(Mute)
  /\ <<"headReset">> \in Seq(Mute) /\ <<"headReset", "markInterrupted">> \in Seq(Mute)
  /\ <<"warningNextNavigation">> \in Seq(Mute) /\ Move4 \in Seq(Mute)
  /\ <<"language", "startpoi", "hear">> \in Seq(Mute) /\ <<"resume">> \in Seq(Mute)
<1>1. {"announce", "arrive", "count", "uncount", "hear", "increment", "wrap", "uninterrupt",
       "firstPoI", "headReset", "language", "updatePoI", "navigationError",
       "sayWhileNavigating", "markInterrupted", "startpoi", "resume", "warningNextNavigation",
       "gotoTarget", "awaitMoving", "whileMoving", "awaitGoal"} \subseteq Mute
  BY DEF Mute, Steps, Interpreted, Script
<1> QED BY <1>1 DEF Turn, Move4

LEMMA ScriptsComplete ==
  ASSUME NEW c \in Interpreted, NEW steps \in Script[c]
  PROVE  steps \in Seq(Steps) /\ Complete(steps)
<1> DEFINE said == <<"say", "push">> \o BlockSpeak \o <<"uncount">>
           explained == <<"say", "push">> \o BlockSpeak \o <<"hear", "uncount">>
           again == <<"say", "push">> \o BlockSpeak \o <<"count">>
           restart == <<"firstPoI", "headReset", "language", "updatePoI", "hear", "uncount">>
<1>1. c \in {"warningNextNavigation", "sayWhileNavigating", "navigationError",
             "watchdogError", "explain", "fallback", "nextPoi", "resetTourManager"}
  BY DEF Interpreted, Script
<1>2. /\ Script["warningNextNavigation"] = {said} /\ Script["navigationError"] = {said}
      /\ Script["watchdogError"] = {said} /\ Script["sayWhileNavigating"] = {<<>>, said}
      /\ Script["explain"] = {explained} /\ Script["fallback"] = {again}
      /\ Script["nextPoi"] = {Turn}
      /\ Script["resetTourManager"] = {restart}
  BY DEF Script, Turn
<1>3. /\ said \in Seq(Steps) /\ Complete(said)
      /\ explained \in Seq(Steps) /\ Complete(explained)
      /\ again \in Seq(Steps) /\ Complete(again)
  BY MuteTuples, MuteComplete, SayComplete
<1>4. /\ <<>> \in Seq(Steps) /\ Complete(<<>>)
      /\ Turn \in Seq(Steps) /\ Complete(Turn)
      /\ restart \in Seq(Steps) /\ Complete(restart)
  BY MuteTuples, MuteComplete
<1> HIDE DEF said, explained, again, restart
<1> QED BY <1>1, <1>2, <1>3, <1>4

----------------------------------------------------------------------------
(* What a step leaves of a thread's sequence: only after a raise does it   *)
(* begin with a push, and only after a push with a wait.                   *)
LEMMA ThenComplete ==
  ASSUME Threaded, NEW t \in Threads, todo[t] # <<>>, Sentences(todo[t]),
         Head(todo[t]) \notin {"say", "push"}, NEW more \in Seq(Steps), Complete(more), Then(t, more)
  PROVE  Complete(todo'[t])
<1>1. todo[t] \in Seq(Steps) /\ todo'[t] = more \o Tail(todo[t])
  BY DEF Threaded, Then
<1>2. Tail(todo[t]) \in Seq(Steps) /\ Complete(Tail(todo[t]))
  BY <1>1, TailSteps, TailSentences DEF Complete
<1> QED BY <1>1, <1>2, ConcatComplete

LEMMA ContinueComplete ==
  ASSUME Threaded, NEW t \in Threads, todo[t] # <<>>, Sentences(todo[t]),
         Head(todo[t]) \notin {"say", "push"}, Continue(t)
  PROVE  Complete(todo'[t])
<1>1. todo[t] \in Seq(Steps) /\ todo'[t] = Tail(todo[t])
  BY DEF Threaded, Continue
<1> QED BY <1>1, TailSentences DEF Complete

LEMMA StepComplete ==
  ASSUME Threaded, NEW t \in Threads, Sentences(todo[t]), Step(t), ~Say(t), ~Push(t)
  PROVE  Complete(todo'[t])
<1>1. todo[t] # <<>> /\ Head(todo[t]) \notin {"say", "push"}
  BY DEF Step, InterpretCommand, Interpreted, Script, AwaitSpeech, AwaitQuiet, HeadReset, Count,
         Uncount, Hear, Increment, Wrap, FirstPoI, SetLanguage, Locate, GotoTarget, AwaitMoving, WhileMoving,
         AwaitGoal, Arrive, Announce, AnnounceStart, StopNavigation, CutSpeech,
         MarkInterrupted, IfArrived, ResumeHearing, At
<1>2. CASE InterpretCommand(t)
  <2>1. PICK c \in Interpreted : \E steps \in Script[c] : Then(t, steps)
    BY <1>2 DEF InterpretCommand
  <2>2. PICK steps \in Script[c] : Then(t, steps)
    BY <2>1
  <2> QED BY <1>1, <2>2, ScriptsComplete, ThenComplete
<1>3. CASE Count(t)
  <2> DEFINE again == <<"say", "push">> \o BlockSpeak \o <<"uncount", "hear">>
  <2>1. again \in Seq(Steps) /\ Complete(again)
    BY MuteTuples, MuteComplete, SayComplete
  <2>2. Then(t, again) \/ Then(t, <<"hear">>)
    BY <1>3 DEF Count
  <2> HIDE DEF again
  <2> QED BY <1>1, <2>1, <2>2, MuteTuples, MuteComplete, ThenComplete
<1>4. CASE WhileMoving(t)
  <2> DEFINE repeat == <<"say", "push">> \o BlockSpeak \o <<"uninterrupt">>
  <2>1. repeat \in Seq(Steps) /\ Complete(repeat)
    BY MuteTuples, MuteComplete, SayComplete
  <2>2. Then(t, repeat) \/ Then(t, <<"sayWhileNavigating">>)
    BY <1>4 DEF WhileMoving
  <2> HIDE DEF repeat
  <2> QED BY <1>1, <2>1, <2>2, MuteTuples, MuteComplete, ThenComplete
<1>5. CASE IfArrived(t)
  <2> DEFINE repeat == IF interrupted THEN <<"say", "push">> \o BlockSpeak \o <<"uninterrupt">> ELSE <<>>
  <2>1. repeat \in Seq(Steps) /\ Complete(repeat)
    BY MuteTuples, MuteComplete, SayComplete
  <2> HIDE DEF repeat
  <2>2. repeat \o <<"resume">> \in Seq(Steps) /\ Complete(repeat \o <<"resume">>)
    BY <2>1, MuteTuples, MuteComplete, ConcatComplete, ConcatProperties
  <2>3. Then(t, repeat \o <<"resume">>) \/ Then(t, <<>>)
    BY <1>5 DEF IfArrived, repeat
  <2> QED BY <1>1, <2>2, <2>3, MuteTuples, MuteComplete, ThenComplete
<1>6. CASE Arrive(t) \/ Announce(t) \/ CutSpeech(t)
  <2>1. \/ Then(t, <<"announce">>) \/ Then(t, <<"language", "startpoi", "hear">>)
        \/ Then(t, <<"headReset", "markInterrupted">>) \/ Then(t, <<>>)
    BY <1>6 DEF Arrive, Announce, CutSpeech
  <2> QED BY <1>1, <2>1, MuteTuples, MuteComplete, ThenComplete
<1>7. CASE AwaitGoal(t)
  <2> DEFINE cut == IF isSpeaking THEN <<"headReset">> ELSE <<>>
  <2>1. cut \in Seq(Steps) /\ Complete(cut)
    BY MuteTuples, MuteComplete
  <2> HIDE DEF cut
  <2>2. cut \o <<"navigationError">> \in Seq(Steps) /\ Complete(cut \o <<"navigationError">>)
    BY <2>1, MuteTuples, MuteComplete, ConcatComplete, ConcatProperties
  <2>3. todo'[t] \in {<<"arrive">>, <<>>, cut \o <<"navigationError">>}
    BY <1>7 DEF AwaitGoal, Threaded, cut
  <2> QED BY <2>2, <2>3, MuteTuples, MuteComplete
<1>8. CASE AwaitMoving(t)
  <2>1. CASE Continue(t)
    BY <1>1, <2>1, ContinueComplete
  <2>2. CASE Return(t)
    BY <2>2, MuteTuples, MuteComplete DEF Return, Threaded
  <2> QED BY <1>8, <2>1, <2>2 DEF AwaitMoving
<1>9. CASE \/ AwaitSpeech(t) \/ AwaitQuiet(t) \/ HeadReset(t) \/ Uncount(t) \/ Hear(t)
           \/ Increment(t) \/ Wrap(t) \/ FirstPoI(t) \/ SetLanguage(t) \/ GotoTarget(t)
           \/ AnnounceStart(t) \/ StopNavigation(t) \/ MarkInterrupted(t) \/ ResumeHearing(t)
  <2>1. Continue(t)
    BY <1>9 DEF AwaitSpeech, AwaitQuiet, HeadReset, Uncount, Hear, Increment, Wrap, FirstPoI,
      SetLanguage, Locate, GotoTarget, AnnounceStart, StopNavigation, MarkInterrupted, ResumeHearing
  <2> QED BY <1>1, <2>1, ContinueComplete
<1>10. CASE Locate(t)
  <2> DEFINE warning == IF firstStart THEN <<>> ELSE <<"warningNextNavigation">>
  <2>1. warning \in Seq(Steps) /\ Complete(warning)
    BY MuteTuples, MuteComplete
  <2> HIDE DEF warning
  <2>2. warning \o Move4 \in Seq(Steps) /\ Complete(warning \o Move4)
    BY <2>1, MuteTuples, MuteComplete, ConcatComplete, ConcatProperties
  <2>3. todo'[t] \in {<<"arrive">>, <<>>, warning \o Move4}
    BY <1>10 DEF Locate, Return, Threaded, warning, Move4
  <2> QED BY <2>2, <2>3, MuteTuples, MuteComplete
<1> QED BY <1>2, <1>3, <1>4, <1>5, <1>6, <1>7, <1>8, <1>9, <1>10 DEF Step

----------------------------------------------------------------------------
(* The dialogue says something, or resets the head, only at a PoI and      *)
(* while sendToPoI does not run: the two threads never talk together.      *)
QuietSteps == {"uncount", "hear", "language", "updatePoI"}
TalksAlone == todo[Dialog] \in Seq(QuietSteps) \/ (AtPoI /\ todo[GoTo] = <<>>)

Waits(t) == At(t, "awaitSpeech") \/ At(t, "awaitQuiet")
SpeechInv ==
  /\ \A t \in Threads : Sentences(todo[t])
  /\ TalksAlone
  /\ voice # "cut"
  /\ voice = "texts" => isSpeaking /\ \E t \in Threads : Waits(t)
  /\ \A t \in Threads : At(t, "awaitSpeech") => voice = "texts" /\ isSpeaking

LEMMA DialogTalksAlone ==
  ASSUME Calm, CalmInv, TalksAlone, Step(Dialog) PROVE TalksAlone'
<1>1. /\ Dialog \in Threads /\ GoTo \in Threads /\ GoTo # Dialog /\ Threaded /\ Apart
      /\ todo[Dialog] \in Seq(Steps) /\ IndexOK
  BY TwoThreads DEF CalmInv, TourInv, Shape, Threaded
<1>2. todo[Dialog] # <<>>
  BY DEF Step, InterpretCommand, Say, Push, AwaitSpeech, AwaitQuiet, HeadReset, Count, Uncount, Hear,
         Increment, Wrap, FirstPoI, SetLanguage, Locate, GotoTarget, AwaitMoving, WhileMoving, AwaitGoal,
         Arrive, Announce, AnnounceStart, StopNavigation, CutSpeech, MarkInterrupted,
         IfArrived, ResumeHearing, At
<1>3. todo'[GoTo] = todo[GoTo] /\ UNCHANGED arrival
  <2>1. todo[Dialog] \in Seq(TalkSteps) \cup Taking \cup Resetting \cup Reloading
    BY <1>1 DEF Apart
  <2> QED BY <1>1, <2>1, DialogTalks, DialogChanges
<1>4. CASE Head(todo[Dialog]) \in QuietSteps /\ todo[Dialog] \in Seq(QuietSteps)
  <2>1. Uncount(Dialog) \/ Hear(Dialog) \/ SetLanguage(Dialog)
    BY <1>4
    DEF Step, InterpretCommand, Interpreted, Script, Say, Push, AwaitSpeech, AwaitQuiet, HeadReset,
        Count, Increment, Wrap, FirstPoI, Locate, GotoTarget, AwaitMoving, WhileMoving, AwaitGoal, Arrive,
        Announce, AnnounceStart, StopNavigation, CutSpeech, MarkInterrupted, IfArrived,
        ResumeHearing, At, QuietSteps
  <2>2. Continue(Dialog)
    BY <2>1 DEF Uncount, Hear, SetLanguage
  <2>3. todo'[Dialog] = Tail(todo[Dialog])
    BY <1>1, <1>2, <2>2, RemoveFirst
  <2> QED BY <1>2, <1>4, <2>3, TailSteps DEF TalksAlone
<1>5. CASE todo[Dialog] \notin Seq(QuietSteps)
  <2>1. AtPoI /\ todo[GoTo] = <<>>
    BY <1>5 DEF TalksAlone
  <2>3. ~SetLanguage(Dialog)
    <3>1. SetLanguage(Dialog) => Head(todo[Dialog]) \in {"language", "updatePoI"}
      BY DEF SetLanguage, At
    <3>2. ASSUME Head(todo[Dialog]) \in {"language", "updatePoI"}
          PROVE  todo[Dialog] \in {<<"language", "updatePoI", "hear", "uncount">>,
                                   <<"updatePoI", "hear", "uncount">>,
                                   <<"updatePoI", "uncount">>}
      <4>1. todo[Dialog] \notin Seq(TalkSteps)
        BY <1>2, <3>2, TailSteps DEF TalkSteps
      <4>2. todo[Dialog] # Turn /\ todo[Dialog] # ToWrap
        BY <3>2, TurnSteps
      <4> QED BY <1>1, <3>2, <4>1, <4>2 DEF Apart, Taking, Advancing, Resetting, Reloading
    <3>3. /\ <<"language", "updatePoI", "hear", "uncount">> \in Seq(QuietSteps)
          /\ <<"updatePoI", "hear", "uncount">> \in Seq(QuietSteps)
          /\ <<"updatePoI", "uncount">> \in Seq(QuietSteps)
      BY DEF QuietSteps
    <3> QED BY <1>5, <3>1, <3>2, <3>3
  <2>4. UNCHANGED currentPoI
    BY <2>3
    DEF Step, InterpretCommand, Say, Push, AwaitSpeech, AwaitQuiet, HeadReset, Count, Uncount,
        Hear, Increment, Wrap, FirstPoI, Locate, GotoTarget, AwaitMoving, WhileMoving,
        AwaitGoal, Arrive, Announce, AnnounceStart, StopNavigation, CutSpeech, MarkInterrupted,
        IfArrived, ResumeHearing, tour
  <2> QED BY <1>3, <2>1, <2>4 DEF TalksAlone, AtPoI, arrival
<1>6. todo[Dialog] \in Seq(QuietSteps) => Head(todo[Dialog]) \in QuietSteps
  BY <1>2, TailSteps
<1> QED BY <1>4, <1>5, <1>6

(* Nobody resets the head in a sentence: the one that resets it is not the *)
(* one that waits, and only one of the two threads talks.                  *)
LEMMA ResetsInSilence ==
  ASSUME Calm, CalmInv, SpeechInv, NEW t \in Threads, HeadReset(t) PROVE voice = "idle"
<1>1. todo[t] # <<>> /\ Head(todo[t]) = "headReset"
  BY DEF HeadReset, At
<1> SUFFICES ASSUME voice = "texts" PROVE FALSE
  BY DEF SpeechInv, CalmInv, TourInv, TypeOK
<1>2. PICK u \in Threads : Waits(u)
  BY DEF SpeechInv
<1>3. todo[u] # <<>> /\ Head(todo[u]) \in {"awaitSpeech", "awaitQuiet"} /\ u # t
  BY <1>1, <1>2 DEF Waits, At
<1>4. todo[GoTo] # <<>> /\ todo[Dialog] # <<>>
      /\ Head(todo[Dialog]) \in {"headReset", "awaitSpeech", "awaitQuiet"}
  BY <1>1, <1>3, TwoThreads
<1>5. todo[Dialog] \in Seq(QuietSteps)
  BY <1>4 DEF SpeechInv, TalksAlone
<1>6. Head(todo[Dialog]) \in QuietSteps
  BY <1>4, <1>5, TailSteps
<1> QED BY <1>4, <1>6 DEF QuietSteps

LEMMA SpeechStep ==
  ASSUME Calm, CalmInv, SpeechInv, SayKeepsItsFlag, NEW t \in Threads, Step(t) PROVE SpeechInv'
<1>1. /\ Threads = {GoTo, Dialog} /\ GoTo # Dialog /\ Threaded /\ TypeOK
      /\ \A u \in Threads : Sentences(todo[u])
      /\ todo[t] \in Seq(Steps)
  BY TwoThreads DEF CalmInv, TourInv, Shape, SpeechInv, Threaded
<1>2. \A u \in Threads \ {t} : todo'[u] = todo[u]
  BY <1>1 DEF Step, InterpretCommand, Say, Push, AwaitSpeech, AwaitQuiet, HeadReset, Count, Uncount,
         Hear, Increment, Wrap, FirstPoI, SetLanguage, Locate, GotoTarget, AwaitMoving, WhileMoving, AwaitGoal,
         Arrive, Announce, AnnounceStart, StopNavigation, CutSpeech, MarkInterrupted,
         IfArrived, ResumeHearing, Then, Continue, Return, Threaded
<1>3. \A u \in Threads \ {t} : /\ (Waits(u)' <=> Waits(u))
                                /\ (At(u, "awaitSpeech")' <=> At(u, "awaitSpeech"))
  BY <1>2 DEF Waits, At
<1>4. TalksAlone'
  <2>1. CASE t = Dialog
    BY <2>1, DialogTalksAlone DEF SpeechInv
  <2>2. CASE t = GoTo
    <3>1. todo[GoTo] # <<>>
      BY <2>2 DEF Step, InterpretCommand, Say, Push, AwaitSpeech, AwaitQuiet, HeadReset, Count,
         Uncount, Hear, Increment, Wrap, FirstPoI, SetLanguage, Locate, GotoTarget, AwaitMoving, WhileMoving,
         AwaitGoal, Arrive, Announce, AnnounceStart, StopNavigation, CutSpeech,
         MarkInterrupted, IfArrived, ResumeHearing, At
    <3> QED BY <1>1, <1>2, <2>2, <3>1 DEF SpeechInv, TalksAlone
  <2> QED BY <1>1, <2>1, <2>2
<1>5. CASE Say(t)
  <2>1. /\ todo[t] # <<>> /\ Head(todo[t]) = "say" /\ todo'[t] = Tail(todo[t])
        /\ isSpeaking' /\ voice' = voice /\ ~Waits(t)
    BY <1>1, <1>5 DEF Say, At, Waits, Continue, Threaded
  <2>2. Sentences(todo'[t]) /\ ~At(t, "awaitSpeech")'
    BY <1>1, <2>1, TailSentences DEF At
  <2>3. \A u \in Threads : Sentences(todo'[u])
    BY <1>1, <1>2, <2>2
  <2>4. voice' = "texts" => \E u \in Threads : Waits(u)'
    BY <1>3, <2>1 DEF SpeechInv
  <2>5. \A u \in Threads : At(u, "awaitSpeech")' => voice' = "texts" /\ isSpeaking'
    BY <1>3, <2>1, <2>2 DEF SpeechInv
  <2> QED BY <1>4, <2>1, <2>3, <2>4, <2>5 DEF SpeechInv
<1>6. CASE Push(t)
  <2>1. /\ todo[t] # <<>> /\ Head(todo[t]) = "push" /\ todo'[t] = Tail(todo[t])
        /\ isSpeaking /\ isSpeaking' = isSpeaking /\ voice' = "texts"
    BY <1>1, <1>6 DEF Push, At, Continue, Threaded, SpeechInv, SayKeepsItsFlag
  <2>2. Sentences(todo'[t]) /\ todo'[t] # <<>> /\ Head(todo'[t]) = "awaitSpeech"
    BY <1>1, <2>1, TailSentences
  <2>3. Waits(t)'
    BY <2>2 DEF Waits, At
  <2>4. \A u \in Threads : Sentences(todo'[u])
    BY <1>1, <1>2, <2>2
  <2> QED BY <1>4, <2>1, <2>3, <2>4 DEF SpeechInv
<1>7. CASE ~Say(t) /\ ~Push(t)
  <2>1. Complete(todo'[t])
    BY <1>1, <1>7, StepComplete
  <2>2. \A u \in Threads : Sentences(todo'[u])
    BY <1>1, <1>2, <2>1 DEF Complete
  <2>3. ~At(t, "awaitSpeech")'
    BY <2>1 DEF Complete, Begun, At
  <2>4. voice' = voice /\ isSpeaking' = isSpeaking
    <3>1. CASE HeadReset(t)
      BY <3>1, ResetsInSilence DEF HeadReset
    <3>2. CASE ~HeadReset(t)
      BY <1>7, <3>2
      DEF Step, InterpretCommand, AwaitSpeech, AwaitQuiet, Count, Uncount, Hear, Increment,
          Wrap, FirstPoI, SetLanguage, UpdatePoI, Locate, GotoTarget, AwaitMoving, WhileMoving,
          AwaitGoal, Arrive, Announce, AnnounceStart, StopNavigation, CutSpeech,
          MarkInterrupted, IfArrived, ResumeHearing, speech
    <3> QED BY <3>1, <3>2
  <2>5. voice' = "texts" => \E u \in Threads : Waits(u)'
    <3> SUFFICES ASSUME voice = "texts" PROVE \E u \in Threads : Waits(u)'
      BY <2>4
    <3>1. PICK u \in Threads : Waits(u)
      BY DEF SpeechInv
    <3>2. CASE u # t
      BY <1>3, <3>1, <3>2
    <3>3. CASE u = t
      <4>1. todo[t] # <<>> /\ Head(todo[t]) \in {"awaitSpeech", "awaitQuiet"} /\ isSpeaking
        BY <3>1, <3>3 DEF Waits, At, SpeechInv
      <4>2. AwaitSpeech(t)
        BY <4>1
        DEF Step, InterpretCommand, Interpreted, Script, Say, Push, AwaitQuiet, HeadReset, Count,
            Uncount, Hear, Increment, Wrap, FirstPoI, SetLanguage, Locate, GotoTarget,
            AwaitMoving, WhileMoving, AwaitGoal, Arrive, Announce, AnnounceStart,
            StopNavigation, CutSpeech, MarkInterrupted, IfArrived, ResumeHearing, At
      <4>3. Head(todo[t]) = "awaitSpeech" /\ todo'[t] = Tail(todo[t])
        BY <1>1, <4>2 DEF AwaitSpeech, At, Continue, Threaded
      <4>4. todo'[t] # <<>> /\ Head(todo'[t]) = "awaitQuiet"
        BY <1>1, <4>1, <4>3, TailSentences
      <4> QED BY <4>4 DEF Waits, At
    <3> QED BY <3>2, <3>3
  <2>6. \A u \in Threads : At(u, "awaitSpeech")' => voice' = "texts" /\ isSpeaking'
    BY <1>3, <2>3, <2>4 DEF SpeechInv
  <2> QED BY <1>4, <2>2, <2>4, <2>5, <2>6 DEF SpeechInv
<1> QED BY <1>5, <1>6, <1>7

(* A call begins with no sentence of its own.                              *)
LEMMA SpeechCall ==
  ASSUME Calm, CalmInv, SpeechInv, NEW t \in Threads, todo[t] = <<>>,
         NEW s \in Seq(Mute \ {"awaitQuiet"}), todo' = [todo EXCEPT ![t] = s],
         UNCHANGED <<isSpeaking, voice>>, TalksAlone'
  PROVE  SpeechInv'
<1>1. /\ todo'[t] = s /\ \A u \in Threads \ {t} : todo'[u] = todo[u]
  BY DEF CalmInv, TourInv, Shape, Threaded
<1>2. Complete(s)
  <2>1. s \in Seq(Mute)
    BY SeqMono
  <2> QED BY <2>1, MuteComplete
<1>3. \A u \in Threads : Sentences(todo'[u])
  BY <1>1, <1>2 DEF SpeechInv, Complete
<1>4. \A u \in Threads : Waits(u) => u # t /\ Waits(u)'
  BY <1>1 DEF Waits, At
<1>5. \A u \in Threads : At(u, "awaitSpeech")' => At(u, "awaitSpeech")
  BY <1>1, <1>2 DEF Complete, Begun, At
<1> QED BY <1>3, <1>4, <1>5 DEF SpeechInv

LEMMA SpeechNext == Calm /\ CalmInv /\ SpeechInv /\ SayKeepsItsFlag /\ [Next]_vars => SpeechInv'
<1> SUFFICES ASSUME Calm, CalmInv, SpeechInv, SayKeepsItsFlag, [Next]_vars PROVE SpeechInv'
  OBVIOUS
<1>1. /\ Threads = {GoTo, Dialog} /\ GoTo # Dialog /\ Threaded
      /\ GoTo \in Threads /\ Dialog \in Threads
  BY TwoThreads DEF CalmInv, TourInv, Shape
<1>2. CASE ~AtPoI /\ SendToPoI
  <2>1. <<"locate">> \in Seq(Mute \ {"awaitQuiet"})
    BY DEF Mute, Steps
  <2>2. /\ todo[GoTo] = <<>> /\ UNCHANGED <<isSpeaking, voice>>
        /\ todo' = [todo EXCEPT ![GoTo] = <<"locate">>]
    BY <1>2 DEF SendToPoI, speech
  <2>3. TalksAlone'
    BY <1>1, <1>2, <2>2 DEF SpeechInv, TalksAlone, Threaded
  <2> QED BY <1>1, <2>1, <2>2, <2>3, SpeechCall
<1>3. ASSUME NEW command \in Commands, Receive(command) PROVE SpeechInv'
  <2>1. <<command>> \in Seq(Mute \ {"awaitQuiet"})
    BY TourConstantsOK DEF AllCommands, Mute, Steps, Interpreted, Script
  <2>2. /\ todo[Dialog] = <<>> /\ AtPoI /\ todo[GoTo] = <<>> /\ UNCHANGED <<isSpeaking, voice>>
        /\ todo' = [todo EXCEPT ![Dialog] = <<command>>] /\ UNCHANGED <<tour, arrival>>
    BY <1>3 DEF Receive, Calm, speech
  <2>3. TalksAlone'
    BY <1>1, <2>2 DEF TalksAlone, AtPoI, Threaded, tour, arrival
  <2> QED BY <1>1, <2>1, <2>2, <2>3, SpeechCall
<1>4. ASSUME NEW t \in Threads, Step(t) PROVE SpeechInv'
  BY <1>4, SpeechStep
<1>5. CASE FinishText
  <2>1. /\ voice = "texts" /\ isSpeaking /\ voice' = "idle" /\ UNCHANGED isSpeaking
        /\ UNCHANGED <<todo, tour, arrival>> /\ \A t \in Threads : ~At(t, "awaitSpeech")
    BY <1>5 DEF FinishText, SpeechInv, CalmInv, TourInv, TypeOK, Calm
  <2> QED BY <2>1 DEF SpeechInv, TalksAlone, AtPoI, At, tour, arrival
<1>6. CASE LowerFlag
  <2>1. /\ voice = "idle" /\ voice' = "idle" /\ UNCHANGED <<todo, tour, arrival>>
        /\ \A t \in Threads : ~At(t, "awaitSpeech")
    BY <1>6 DEF LowerFlag, SpeechInv
  <2> QED BY <2>1 DEF SpeechInv, TalksAlone, AtPoI, At, tour, arrival
<1>7. CASE Move \/ UNCHANGED vars
  <2>1. UNCHANGED <<isSpeaking, voice, todo, tour, arrival>>
    BY <1>7 DEF Move, vars, speech
  <2> QED BY <2>1 DEF SpeechInv, TalksAlone, AtPoI, Waits, At, tour, arrival
<1> QED BY <1>2, <1>3, <1>4, <1>5, <1>6, <1>7 DEF Next, Calls, Calm

LEMMA SpeechInit == Calm /\ Init => SpeechInv
<1> SUFFICES ASSUME Calm, Init PROVE SpeechInv
  OBVIOUS
<1>1. \A t \in Threads : todo[t] = <<>>
  BY DEF Init
<1>2. Sentences(<<>>)
  BY MuteTuples, MuteComplete DEF Complete
<1>3. <<>> \in Seq(QuietSteps)
  OBVIOUS
<1> QED BY <1>1, <1>2, <1>3, TwoThreads DEF Init, SpeechInv, TalksAlone, At

(* In a calm tour movement and dialogue never talk together, and whoever   *)
(* talks is waited for: each say is followed by its two loops.             *)
LEMMA SpeechInductive == Calm => (Spec /\ []SayKeepsItsFlag => []SpeechInv)
<1>1. CASE Calm
  <2>1. Init => SpeechInv
    BY <1>1, SpeechInit
  <2>2. CalmInv /\ SpeechInv /\ SayKeepsItsFlag /\ [Next]_vars => SpeechInv'
    BY <1>1, SpeechNext
  <2>3. Spec => []CalmInv
    BY <1>1, CalmInductive
  <2>4. Spec /\ []SayKeepsItsFlag => []SpeechInv
    BY <2>1, <2>2, <2>3, PTL DEF Spec
  <2> QED BY <2>4
<1>2. CASE ~Calm
  BY <1>2
<1> QED BY <1>1, <1>2

(* No loop of BlockSpeak waits for a sentence that has been reset away: if *)
(* commands come only at a PoI, the movement and the dialogue never talk   *)
(* together, and neither resets the head in the other's sentence.  That no *)
(* flag is lowered before its text is pushed, in HeadSynchronizer, is an   *)
(* assumption.                                                             *)
THEOREM NobodyWaitsInVain ==
  Calm => (Spec /\ []SayKeepsItsFlag => []WaitsForItsSentence)
<1>1. SpeechInv => WaitsForItsSentence
  BY DEF SpeechInv, WaitsForItsSentence
<1>2. CASE Calm
  <2>1. Spec /\ []SayKeepsItsFlag => []SpeechInv
    BY <1>2, SpeechInductive
  <2>2. Spec /\ []SayKeepsItsFlag => []WaitsForItsSentence
    BY <1>1, <2>1, PTL
  <2> QED BY <2>2
<1>3. CASE ~Calm
  BY <1>3
<1> QED BY <1>2, <1>3
============================================================================
