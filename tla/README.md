# Formal models of the tour guide robot

This directory holds TLA+ models of the programs of this repository that guide
visitors through a museum, the TLC configurations that check them and proofs for
TLAPS. Paths without a prefix are relative to the root of the repository.
`PROJECT.json` maps every definition to the lines it models, and lists the runs,
the mutants of the code each property catches, the hazards and the theorems.

## The system

Every part is a process of its own; they talk over YARP ports. An RPC port has a
thread per connection, so two clients of a module run its handlers at the same
time; a `TypedReaderCallback` runs `onRead` on the port's thread; `updateModule`
runs on the module's thread. Hardly any of the modules has a mutex.

```
 bt_server --tick/halt--> skills --sendToPoI, isAtPoI--------> tourManager
                          watchdog skills --sendError, recovered--^   |  ^
                                                                      |  | commands
      say, reset, isSpeaking, startHearing, faces                     |  | of the dialogue
   +------------------------------------------------------------------+  |
   v                                                                     |
 headSynchronizer --text--> googleSynthesis --audio--> player     googleDialog
   |    ^ status of player, recorder, google modules                     ^
   +-- start/stop --> recorder --sound--> voiceActivationDetection --> googleSpeech
```

| Part | State it keeps | Operations | What is hard, and what makes it correct |
|---|---|---|---|
| headSynchronizer | text buffer, speaking and error flags; reads the last published status of the devices | `say`, `reset`, pause/continue, start/stop hearing, faces; `updateModule` speaks the texts | three kinds of threads, one small mutex, stale statuses, loops that wait for a device. One voice at a time, in order; the speaking flag falls in silence; every call returns |
| voiceActivationDetection | queue of sounds, padded utterance, two mutexes, the handshake that reopens the microphone | callbacks for sound and status; a processing thread | opposite lock orders, statuses that overwrite each other, off-by-one padding. Whole utterances; never deaf for ever |
| tourManager | current PoI, what was reached, what was interrupted, counter of fallbacks | `sendToPoI`, `isAtPoI`, `sendError`, `recovered`, commands of the dialogue | no mutex and calls that take minutes. At a PoI means there; calls return |
| bt_server and the tree `GoAndExecPoi.xml` | the nodes' status, a detached request per action | tick every 500 ms, halt | a halt that does not cancel, an action that always succeeds. Ticks return; the robot gets to its PoI |
| GoToPoI, AtPoI | - | forward to tourManager | the call outlives the tick |
| motorsNotInFault, robotNotTouched, failureNetworkNotReceived, batteryCharged | the condition | poll; `sendError` at once and every 5 s, `recovered` at the end | two of them share the tour manager. A lasting fault stops the robot |
| robotNotLost | fault counters and flags | callbacks of AMCL and odometry, period | a fault that stops what would clear it |
| goalAvailable, waitGoalAvailability, returnToChargePoint | occupancy of the goal, stop flag | conditions and actions of the tree | a condition with an effect, a stop that is lost |
| headObstaclesScanner, eyeContactManager | mode and last command of the neck; the last eye contact | a period each; commands to one neck | two modules turn the same neck. They agree in the end |
| faceExpression | one image, flags of eyes, ears and mouth, two kinds of mutexes | three drawing threads, RPC requests | locks that lock nothing. Black stays black; requests are answered |
| crowdDetector, googleLogger, textToFace | averages, files | one thread each | real arithmetic and I/O |

There are no tests in the repository.

## Modules

| Module | Models | Checked by | Proved in |
|---|---|---|---|
| `SpeechQueue` | abstract promise of headSynchronizer: a queue of texts, of which one is current and may be recalled | property of `HS_voice` | - |
| `HeadSynchronizer` | `headSynchronizer.cpp` | `HS_voice`, `HS_live`, `HS_removed` | `HeadSynchronizerProofs` |
| `VoiceActivation` | `AudioProcessor`, `MicrophoneStatusCallback`, `AudioCallback` | `VAD_packets`, `VAD_live`, `VAD_cycle` | `VoiceActivationProofs` |
| `TourManager` | `tourManager.cpp` | `TM_calm`, `TM_eager` | `TourManagerProofs`, `TourArrivalProofs` |
| `BehaviorTree` | `bt_server`, the tree, its conditions and actions, the watchdogs, goalAvailable; extends `TourManager` | `BT_faults`, `BT_crowd` | `BehaviorTreeProofs` |
| `Navigation` | the navigation's status as a module that reads it sees it (external) | through `OnTheMove` | - |
| `RobotNotLost` | `bt_robotNotLost.cpp` | `OM_motion` | `RobotNotLostProofs` |
| `HeadGaze` | `headObstaclesScanner.cpp` and `eyeContactManager.cpp` | `OM_motion` | - |
| `OnTheMove` | the composition of the two, with the programs that run | `OM_motion` | `OnTheMoveProofs` |
| `FaceExpression` | `faceExpression` | `FE_face` | `FaceExpressionProofs` |

`MC...` modules give the constants of a run that a cfg cannot write.

Handlers that run through several steps are written the same way in
`HeadSynchronizer`, `TourManager` and `FaceExpression`: `todo[t]` is the sequence of steps thread `t` has
left. A call puts the handler's steps there, a step removes itself and may put
more in front, and a step in `todo` is exactly a place where another thread may come
in between. A section under a mutex that never blocks is one step.

### HeadSynchronizer

`buffer` is `m_textBuffer` (the n-th text that is said is the number n), `isSpeaking` and
`isError` the two flags, `upc` and `str` the place and the local text of
`updateModule`. `say` is two steps, because the flag is raised before the lock is
taken (line 189); `reset` is its lock section, the message to the player, its wait and
the two handlers it calls. `onRead` calls handlers too. `synth`, `player`, `paused`, `mic`
are the external devices; `playSeen` and `micSeen` are the statuses last published,
the only thing `isAudioPlaying()` and `isHearing()` see. With `MayFail` a write to the
synthesizer fails (the module stops), a text has no audio, and the player and the recorder
ignore a command (lines 208, 226, 251, 279). Left out: colours, and the retries when a port is not open.

* `HS_voice` (two clients, `say`, `reset`, pause, continue, failures, three texts):
  `OneVoice`, `SpokenInOrder`, `SpeechEndsInSilence`, and the refinement of `SpeechQueue`
  (`KeepsThePromise`). Three texts are the fewest with one being spoken, one waiting
  and one being said; two clients interleave two handlers. Deadlock is not checked:
  with the player paused and every connection inside `reset` the module really waits
  for ever (line 314), and a failed write ends the module.
* `HS_live` (reliable devices; `say`, `reset`, pause, continue and `startHearing`): every text is
  spoken and the flag falls if nobody resets and a paused player is resumed for good; every call
  returns once no client is about to say a text and the player is not paused (`Quiet`). `reset` needs
  both, for its loop at line 314 looks at a status that a client who goes on talking may always
  have set again, and nothing in the code ends that. `HearsOnlyOthers`: a robot that hears itself has
  had its microphone turned on when a text was already in hand, or has looked at a stale status;
  both do happen, and nothing else makes it. Fairness: every thread and device goes on; no client
  has to call. Deadlock is not checked, for the paused player's sake.
  `LongTexts` is the assumption that audio outlasts the 0.1 s between two looks of
  `updateModule` at the player. Without it, or with `MayFail`, `EveryTextIsSpoken`
  fails: the loop at line 131 waits for audio that has been and gone.
* `HS_removed` (finding): after `reset` and `say` during playback, the text that line 144
  erases is the new one, and the log of line 145 names the old one.

### VoiceActivation

A sound is a sequence of packets, a packet fvad's verdict on it. The processor's
mutex is held unless `ppc = "idle"`, the callback's unless `spc = "idle"`. The recorder and
headSynchronizer's switching of it are external; a status overwrites an unread one
(the callback port is not strict). `Adversities` names what can go wrong outside:
the first status comes after the first sound (`lateStatus`), the recorder restarts
before it is seen stopped (`quickRestart`), a stop is ignored because headSynchronizer has
not yet seen the recorder as on (`stopIgnored`).

* `VAD_packets`: all adversities. `PacketsKept` and `WholeUtterance` (what is kept is an
  utterance with the right padding at both ends), `SomeoneReopens` (a closed
  microphone has a thread that is to reopen it). A buffer of two packets separates
  none, one and full; deadlock is not checked since the mutex cycle is one.
* `VAD_live`: no adversities. No mutex cycle, every status is handled, and the module hears
  again whenever the recorder is on. Fairness: the two callbacks, the processor and the
  recorder's periodic status.
* `VAD_cycle` (finding): with a late first status the callback waits for the processor's
  mutex and the processor for the callback's. `HearsAgain` also fails with `quickRestart`:
  the stop is never seen.

### TourManager

`index`, `currentPoI`, `hasReached`, `previousPoI`, `previousLoc`, `firstStart`, `interrupted`,
`fallbacks` are the members; `goal` is a local of `sendToPoI`. `GoTo` runs `sendToPoI`, `Dialog` the
commands of the dialogue, and each of `Watchdogs` its `sendError` and `recovered`.
`Script` gives the steps of the commands as `tours.json` defines them: a blocking speech
with the waits of `InterpretCommand`, then `startHearing`, or a signal. `sendToPoI` clears
`hasReached` first and looks up the PoI's coordinates in a step of its own (`Locate`), which may fail
(line 617). `NextPoI` is three steps (lines 390 to 392): `Increment` takes the index one past the end,
`Wrap` brings it back, and "updatePoI" loads the PoI; in between another thread's `setLanguage`
may load one, too.

headSynchronizer is its flag, `isSpeaking`, and `voice`, what it has to say. `Say` raises the flag and `Push`
adds the text, in two steps as there (lines 189 and 191); its update loop lowers the flag
whenever it finds no text (`LowerFlag`, line 151), also between the two. A text that was not
cut is not over before everyone who waits for its flag has looked (`LongTexts`: the loops look every
0.1 s); after a reset a text may be lost, as `HS_removed` shows.
The navigation server may refuse a goal and abort a movement; if it is not
`Punctual` it may begin after `sendToPoI` has given up. Locations are numbers; two PoIs
may share one. `Eager` lets commands come at any time; otherwise they come at a PoI when
no `sendToPoI` runs, which is when the microphone is meant to be open.

* `TM_calm`: commands at a PoI, three PoIs of which two share a location, a late server, and a
  watchdog that stops and resumes the robot at any time. `AtPoIMeansThere`, `FallbacksBounded`,
  `LoadsInRange` (no PoI is loaded with the index out of range), `SkipsOnlyWhenThere`
  (`sendToPoI` declares its goal reached, after a movement or because it lies where the robot was last,
  only where the robot is) and `CallsReturn`. Three PoIs are the fewest with two that share a
  location and one that does not. Fairness: the threads, the end of a speech, the fall of the flag and
  the end of a movement; nobody has to call. `CallsReturn` supposes that no watchdog reports and
  that no flag falls before the push of its text (`SayKeepsItsFlag`): nothing in headSynchronizer
  ensures the latter, and a flag that falls there leaves the wait of line 721 hanging. For the
  same reason deadlock is not checked.
* `TM_eager`: `nextPoi` at any time, with a watchdog. `StandsAtPoI`: a robot that believes it is
  at a PoI does not move. It needs `Punctual`: a goal that starts late moves a robot that may
  have been declared arrived. Deadlock is not checked: a `BlockSpeak` may wait for ever (below).

Where a property stops. These runs of steps are legal in the model and are the reason for
the constants of the two runs:

* The update loop finds no text between line 189 and line 191 and lowers the flag: the text is
  spoken later, with the flag down, and whoever waits for it in the first loop of `BlockSpeak`
  waits for ever. `CallsReturn` and `WaitsForItsSentence` fail without `SayKeepsItsFlag`, even with one
  thread that speaks.
* `nextPoi` between the end of a movement and "arrive", or between the look-up of the coordinates and
  the goal, makes `sendToPoI` record one PoI with the coordinates of the other:
  `AtPoIMeansThere` and `SkipsOnlyWhenThere` need commands that come at a PoI only.
* `nextPoi` while `sendToPoI` announces the start PoI lets `setLanguage` load a PoI between the
  increment of the index and its modulo: `LoadsInRange` fails with `Eager`.
* A `reset` of the head by one thread (a watchdog's, or `navigationError`'s) may remove the text
  another thread has just said; its first loop then waits for a flag that does not rise
  again. `CallsReturn` is about tours in which no watchdog reports.
* Under the tree a `start()` that was halted and begun again may run together with a command at
  a PoI: with `explain`, `nextPoi` and `resetTourManager` in `BT_crowd`, `WaitsForItsSentence` fails there.
* `recovered` reads the navigation's status, speaks, and then opens the microphone on the
  strength of it; the robot may be moving and listening by then. No document promises that
  it does not.

Not modelled: dances and delays (time that passes without an effect on the properties), the
choice among variants of a command, the text that is repeated, and the data race on
`m_currentPoI`, whose assignment is taken as atomic. An index past the end of the list reads
what lies behind it; the model takes that for the name of no PoI, so that nothing is loaded.

### BehaviorTree

`tree` is the place of the tick: each leaf is a call to a skill, and other threads come
between two of them. `going` and `waiting` are the RUNNING actions. `starts` counts the calls of
GoToPoI's `start()` that have not returned: a node that was halted still has its own, and
the next `start()` waits for it inside the tick (`Join`) because `std::future`'s assignment does;
`serving` says whether one of them is in `sendToPoI`. `condition` and `dog` are a watchdog's flag and the
place of its loop; `reading` is what its devices read, over which `InFault` is the code's test.
`goalAvailable` and `watched` are written by that skill's own thread, `crowd` is where people stand; the
condition reads the flag twice, to stop the robot and for its answer (`AskGoal`, `GoalAnswers`).
The calls land in `TourManager`'s actions, so each tick interleaves with all of its steps.

* `BT_faults` (one PoI, the motors' watchdog, faults at any time): the types, by which never more
  than two `start()` calls are out; `TickReturns`, `FaultStopsRobot`, `RobotGoes`. One PoI is enough:
  what a fault disturbs is one movement.
* `BT_crowd` (two PoIs, `nextPoi`, people at the first): `RobotGoes`, with goalAvailable's stops and the
  halts that waitGoalAvailability causes. Two PoIs are the fewest with one free and one not.

Fairness: the tick, the serving of a call and its answer, the watchdogs' periods and 5 s,
goalAvailable's period, the tour manager's threads, the end of speech and movements. Faults,
crowds and commands need not come, nor stop. `TickReturns`, `FaultStopsRobot` and `RobotGoes` assume
`CallsEnd`, that the tour manager's calls return, since with watchdogs they may hang (above).
`RobotGoes` also assumes that in the end there is no fault, crowd or command (`Quiet`) and that the
navigation takes goals and is seen moving before it arrives (`Serves`): a robot that is there
before `sendToPoI` looks is taken for one that did not move, and is sent again for ever.
Deadlock is not checked, for the same waits.

A start that was halted and begun again means two `sendToPoI` one after the other, and the
tick stands still until the first returns. In `BT_crowd` the robot may believe it is at the
second PoI while it stands at the first (the `nextPoi` above), so `AtPoIMeansThere` is no property
of it.

### RobotNotLost, HeadGaze, OnTheMove

Three programs read the navigation's status (`moving`), and one of them stops the robot.

`RobotNotLost`: a callback first lowers its flag (`PoseOnRead`, `OdometryOnRead`) and then, in a step of
its own, may raise it (`JudgePose`, `JudgeOdometry`); a period between the two finds it lowered. The
averages of the code are any verdict; the four flags of a pose are one, as they are lowered
together. `Update` counts each flag up or down and, while the counters reach `Limit`, calls the tour
manager's `sendError` (`report`), which stops the robot (`StopNavigation`), says a sentence and returns
when it likes (`ErrorReturns`); there is no period before. AMCL sends poses only
to a robot that moves. The skill therefore counts periods, not messages: one bad pose before
the robot stands still makes it lost. It never calls `recovered`, and the deployed tree does
not ask it. `Cap` bounds a counter that has no bound in the code.

`HeadGaze`: `scan` and `eye` are what each program has read before it commands the neck; `gaze` is the
last command that reached it. `headMode` is the scanner's mode. The sweep goes on only from
where its own last command has turned the neck, so that it never resumes after a person has
been looked at (no property is about it). The flag and the time of eyeContactManager are not initialised: both start
with any value. A failure of the localization ends the scanner.

`OnTheMove` composes them: `MotionNext` takes one step of one of the programs that are `running`. They
belong to separate applications, and `Started` says which sets of them may run together.

* `OM_motion`: the types (`MotionTypeOK`), `LostWhileFaulty` (a counter that falls does not hide the
  other's fault), `StopsWhenLost`, `Recovers`, `HeadLooksBack`, `HeadFollowsPath`, `HeadComesToRest`. `Limit = 3` is
  the least that neither counter reaches in two periods and both together do; `Cap` is one
  more, so that a counter is seen on both sides of the limit. Two people are the fewest among whom
  there is a closest. TLC runs robotNotLost and the neck's two programs side by side but not
  together, since all three take more than it can check; the theorems of `OnTheMoveProofs` are about
  any `Started`. Deadlock is not checked: a scanner that has ended and a robot that stands are no deadlock.

Fairness: the periods and the 6 s pass, callbacks end, odometry comes (strongly for poses, which come while
the robot moves), a report that is made stops the robot, and a connected port takes a command now
and then. No fairness makes a report return: it waits for a sentence, and that wait may hang. So
`StopsWhenLost` and `Recovers` suppose `ReportsReturn`, as the properties of the tree suppose `CallsEnd`;
without it both fail, for a robot that is sent off again meanwhile is not stopped. The head properties
assume what the robot and the people do in the end; `Localized`, that the localization does not fail.

### FaceExpression

`todo` is what is left of the one request that is answered, `at` the place of each drawing
thread, `face` what the image shows of each part, `drawing` which thread holds the drawing mutex for
more than one step: the mouth's, from its clearing to its drawing, or the one that sends the image
(`SendImage`, `ImageSent`), while it writes to the port. The locks of the ears' and eyes' methods declare a function and lock nothing,
so a request may change a flag between a thread's look at it and its drawing. The mouth's
thread takes its methods mutex (`MouthRun`), later the drawing mutex (`TakeDrawing`), and holds both until
it has drawn.

* `FE_face`: `RequestsAnswered`, `StaysBlack`, `DrawnAgain`. The requests between them call each method of
  the threads; clearing the eyes wipes the whole face, which makes the other threads draw
  again. `DrawnAgain` is about ears that show no bars: those that wait for a sound are not drawn
  until one comes. Fairness: periods pass, a blink and the writing of an image end, a mutex
  that is free again and again is taken (strong: others hold it most of the time).

`reset_to_default` enables drawing, so it also ends a black screen. Left out: colours,
expressions and the sizes of bars.

## Proofs

The theorems hold for all values of the constants that satisfy the assumptions in the modules;
the proofs do not use the bounds of the runs.

HeadSynchronizer and VoiceActivation:

* Types: `TypeOK` is inductive in both; the lemmas on `todo` say that steps are appended and removed
  within `Seq(Steps)`.
* `RobotHasOneVoice`, `FlagFallsInSilence`: `OneVoice` is not inductive, because it does not say that the
  devices are empty when `updateModule` sends. `AudioInv` does, by the place of `updateModule`: silent
  outside the two waiting loops; in the first loop a player seen playing has taken the text
  from the synthesizer; in the second one seen silent has finished it.
* `TextsAreSpokenInOrder`: `OrderInv` orders the buffer by age and places the text in hand before or at
  its front. It survives the erase of the wrong text, since all that remains is younger.
* `ImplementsSpeechQueue`: `Current`, `Waiting` and `Recalled` map the state; the invariants above show that each
  step is a step of the abstract queue or a stutter.
* `RobotIsDeafWhileTalking`: with a recorder that obeys, but any clients and google statuses. It is the
  implication `HearsOnlyOthers`: if nobody turns the microphone on while a text is in hand
  (`OpensInTime`) and the status is right at the one look of `updateModule` (`StatusInTime`), then the robot does
  not hear itself. `DeafInv` (`MicrophoneCloses`) adds why: a microphone that is on when a text is about to be
  sent is seen on and about to be turned off, and off once the text is sent.
* `RemovesWhatItSpokeUnlessReset`, `SpeaksTextByText`: as long as nobody resets, the buffer is the texts from
  one number to the last one said, and the text in hand its first (`QueueInv`); so what
  `HS_removed` shows needs a `reset`, and no text is skipped.
* `ClosedIsReopened`: by `ReopenInv`, which also covers the moment between the callback's closing and the
  processor's.
* `MutexesDoNotCycle`: by `MutexInv`, under the assumption that no status is late.
* `UtterancesAreCutRight`, `UtterancesAreWhole`: `PacketsKept` is inductive with the types; the lemmas say what
  appending a packet does to an utterance.

TourManager and BehaviorTree:

* `TypeCorrect`, `Bounded`: that the counter of fallbacks stays below the threshold needs to know that a
  command that has brought it to the threshold still has its "uncount" in front of it, although
  three threads run commands. `Shape` says which steps a thread may have (only `GoTo` those of a
  movement, which begin with "locate" and end in "awaitGoal" or "arrive"; only `Dialog` counts, as its last
  step, and has the steps of `NextPoI`, once) and `CountBounded` the rest. `IndexOK` is the same for the
  index: it is past the end only while "wrap" is the dialogue's next step. `TourInv` is their conjunction with the types.
* `StandsThere`: `MovesOnRoute` says that the robot moves only while "awaitGoal" ends `GoTo`'s steps, and that
  then nothing counts as reached. Inductive with `TourInv` under `Punctual`, for any watchdogs and
  any commands at any time.
* `AtPoIThere`, `SkippedThere`, `LoadedInRange` (`TourArrivalProofs`): for a tour without watchdogs whose commands come at a
  PoI (`Calm`), and a navigation as late as it likes. `Apart`: a PoI changes only where the last one
  is reached and `sendToPoI` does not run; the three lists a changing command may have left are
  written out. `Arrived`: what was reached is where the robot stands, unless it moves to another
  place. `Underway`: a movement's goal is the current PoI and, once "awaitMoving" is past, the target.
* `NobodyWaitsInVain`, also under `Calm`, and for behaviours with `[]SayKeepsItsFlag`: the first loop of
  `BlockSpeak` never waits for a sentence that was reset away. What the flag does between a raise and
  its push is the assumption, not part of the result. `SpeechInv` says that each "say" is followed by
  its push and its two loops in every list of steps (`Sentences`, kept by all that a step may leave), that the dialogue talks or resets only at a PoI
  where `sendToPoI` does not run (`TalksAlone`), and that speech has someone who waits for it.
* `TreeTypeCorrect`, `BoundedInTree`, `StandsInTree`: the composition keeps `TourInv` and `MovesOnRoute`, since each step
  of the tree or of a skill calls the tour manager's actions or stops the navigation; and
  `StartsCounted`, by which a call in `sendToPoI` is among those that were started.
* `ReportsMatchRecoveries`, `NothingIsLeftMoving`: `AgreeInv` joins the place of a watchdog's loop, its answer and
  its report, and says that `GoTo` has steps only while a start is served; with `MovesOnRoute` the
  robot then moves only for a `start()` that has not returned.
* `TreeImplementsOpenTour`: the composition refines a tour manager with an open environment, which
  calls `sendToPoI` when it likes and stops the base.

The modules around the robot's motion, and the face:

* `StaysLost`: the counters of a lost robot add up to the limit, and fall only by one while the other
  rises by one or is at its bound.
* `MotionImplementsLost`, `StaysLostOnTheMove`: the composition takes steps of `RobotNotLost` or stutters, so what is
  proved of the one holds in the other.
* `MotionTypeCorrect`: that the chosen person exists is `ClosestExists`, by two minima, of the depths and
  of the places in the frame; for frames of any length (`GazeConstantsOK`).
* `EyeContactIsKept`, `PathIsKept`, `RestIsKept`: the sets of states in which `HeadLooksBack`, `HeadFollowsPath` and
  `HeadComesToRest` end (`Captured`, `OnPath`, `AtRest`) are closed under the steps of both modules, as long
  as the robot and the people do what the property supposes. `ClosestIsChosen` says that the
  CHOOSE, which follows the code's loop, takes a person who is closest by `Closest`.
* `ImageIsSentAsDrawn`: while the image is written to the port no thread changes it, and a request in one way
  only, by blackening the mouth, whose lock is a comment (mouthThread.cpp:161), while the mouth's
  thread is between two periods. `FaceInv` says who holds the drawing mutex when.
* `BlackIsKept`: `Dark` is closed under every step but a request's, the safety half of `StaysBlack`.

Only model-checked: every liveness property (`EveryTextIsSpoken`, `SpeechEnds`, the `CallsReturn` of both modules,
`StatusHandled`, `HearsAgain`, those of `BehaviorTree`, `HeadGaze` and `FaceExpression`, `StopsWhenLost`, `Recovers`), which
is out of the prover's reach. Every other property of the passing runs is a theorem; `AtPoIMeansThere`,
`LoadsInRange` and `SkipsOnlyWhenThere` are proved for tours without watchdogs and model-checked with one. The invariants
named above were checked with TLC on the bounds of the runs before they were proved.

## Not modelled

* tourManager's data: JSON files are read once into maps that do not change; what the deployed
  tours contain is in `Script`.
* returnToChargePoint: in no deployed tree, one loop over distances and a status.
* crowdDetector, the laser-to-image mapping of headObstaclesScanner, the collision check of
  robotNotLost: real arithmetic whose results are only published.
* googleLogger, textToFace: pure I/O.
* Lost connections of bt_server, a module that is restarted: nothing is persisted and no code
  handles it.
* The data races on deques and on strings (listed as hazards): what they read is undefined, and
  the models take those accesses as atomic.

## What could come next

1. Small pure modules for the duration of a dance and the batches of actions of a command.
2. An abstract specification of a tree's action node, and whether `YarpAction` implements it.
3. `AtPoIThere`, `LoadedInRange` and `SkippedThere` with watchdogs, which the model checker finds to hold.
4. Under which commands the tour manager below the tree keeps `WaitsForItsSentence`.
