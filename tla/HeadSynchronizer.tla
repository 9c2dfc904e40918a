-------------------------- MODULE HeadSynchronizer --------------------------
(***************************************************************************)
(* aux_modules/headSynchronizer: the module that lends the robot its voice,*)
(* its ears and its face.  Three kinds of threads share its state:         *)
(*   - the Updater runs updateModule every 0.2 s and speaks the texts of   *)
(*     m_textBuffer one after the other;                                   *)
(*   - one thread per client connection of the thrift port runs the RPC    *)
(*     handlers (say, reset, startHearing, ...);                           *)
(*   - the Callback thread runs StatusCallback::onRead for every state the *)
(*     google modules publish.                                             *)
(* m_mutex guards m_textBuffer alone, in sections that never block, so a   *)
(* section is one step; every other access is a step of its own.           *)
(*                                                                         *)
(* What a handler still has to do is the sequence todo[t] of its steps: a  *)
(* handler that calls another one is the concatenation of their steps.     *)
(* The devices are external: the synthesizer turns a text into audio, the  *)
(* player plays it, the recorder is on or off, and the player and recorder *)
(* publish their status from time to time.  isAudioPlaying() and           *)
(* isHearing() read the last published status, which may be stale.         *)
(***************************************************************************)
EXTENDS Naturals, Sequences, FiniteSets

CONSTANTS
  Clients,    \* the connections of the thrift port
  Calls,      \* the RPC calls they make
  Statuses,   \* the google states StatusCallback receives
  MayFail,    \* whether the devices may refuse a command or lose a text
  LongTexts,  \* whether every text lasts until updateModule notices it
  MaxSays     \* bound: how many texts are said in a behaviour

Updater == "updater"
Callback == "callback"
Threads == Clients \cup {Updater, Callback}

AllCalls == {"say", "pauseSpeaking", "continueSpeaking", "reset", "startHearing",
             "stopHearing", "sadFaceWarning", "sadFaceError", "busyFaceError",
             "happyFace", "busyFace"}
AllStatuses == {"Busy", "Empty", "Done", "Failure", "unknown"}

ASSUME ConstantsOK ==
  /\ Clients \cap {Updater, Callback} = {}
  /\ Calls \subseteq AllCalls
  /\ Statuses \subseteq AllStatuses
  /\ MayFail \in BOOLEAN /\ LongTexts \in BOOLEAN
  /\ MaxSays \in Nat

VARIABLES
  buffer,      \* m_textBuffer: the n-th text said is the number n
  isSpeaking,  \* m_isSpeaking
  isError,     \* m_isError
  upc,         \* where updateModule stands
  str,         \* its local copy of the text being spoken, 0 before the first
  todo,        \* the steps each thread has left in the handler it runs
  synth,       \* external: the texts the synthesizer has not finished
  player,      \* external: the texts whose audio the player holds
  paused,      \* external: the player is paused
  playSeen,    \* external: the last published player status said "playing"
  mic,         \* external: the recorder is enabled
  micSeen,     \* external: the last published recorder status said "enabled"
  said,        \* history: how many texts were pushed
  sent         \* history: the last text sent to the synthesizer

speech == <<buffer, isSpeaking, said>>
update == <<upc, str, sent>>
audio == <<synth, player, paused>>
devices == <<audio, playSeen, mic, micSeen>>
vars == <<speech, update, todo, isError, devices>>

Steps == {"raise", "push", "pause", "resume", "clearBuffer", "clearPlayer",
          "awaitSilence", "setError", "clearError", "start?", "start",
          "stop?", "stop"}

UpdatePCs == {"poll", "pick", "mic", "send", "await", "playing", "erase", "stopped"}
(* The update loop holds a text: it picked it and has not erased it yet.   *)
Working == upc \in UpdatePCs \ {"poll", "pick"}

TypeOK ==
  /\ said \in Nat /\ buffer \in Seq(1..said) /\ isSpeaking \in BOOLEAN
  /\ upc \in UpdatePCs /\ str \in 0..said /\ sent \in 0..said
  /\ Working => str # 0
  /\ todo \in [Threads -> Seq(Steps)]
  /\ isError \in BOOLEAN
  /\ synth \in Seq(1..said) /\ player \in Seq(1..said) /\ paused \in BOOLEAN
  /\ playSeen \in BOOLEAN /\ mic \in BOOLEAN /\ micSeen \in BOOLEAN

----------------------------------------------------------------------------
(* The handlers, as the steps they make.                                   *)

StartHearing == <<"start?">>
StopHearing == <<"stop?">>
HappyFace == <<"clearError">>
ErrorFace == <<"setError">>
Colours == <<>>  \* sadFaceWarning, busyFace: writes to the face's port only

Handler ==
  [say              |-> <<"raise", "push">>,
   pauseSpeaking    |-> <<"pause">>,
   continueSpeaking |-> <<"resume">>,
   reset            |-> <<"clearBuffer", "clearPlayer", "awaitSilence">>
                          \o HappyFace \o StopHearing,
   startHearing     |-> StartHearing,
   stopHearing      |-> StopHearing,
   happyFace        |-> HappyFace,
   sadFaceError     |-> ErrorFace,
   busyFaceError    |-> ErrorFace,
   sadFaceWarning   |-> Colours,
   busyFace         |-> Colours]

(* onRead reads m_isError once, when it chooses between the two faces.     *)
OnRead ==
  [Busy    |-> IF isError THEN ErrorFace ELSE <<>>,
   Empty   |-> HappyFace \o StartHearing,
   Done    |-> IF isError THEN ErrorFace ELSE HappyFace,
   Failure |-> ErrorFace \o StartHearing,
   unknown |-> ErrorFace]

----------------------------------------------------------------------------
(* Threads that serve a call or a status.                                  *)

SaysUnderWay ==
  Cardinality({c \in Clients : \E i \in DOMAIN todo[c] : todo[c][i] = "push"})

Call(c, call) ==
  /\ todo[c] = <<>>
  /\ call = "say" => said + SaysUnderWay < MaxSays
  /\ todo' = [todo EXCEPT ![c] = Handler[call]]
  /\ UNCHANGED <<speech, update, isError, devices>>

Receive(status) ==
  /\ todo[Callback] = <<>>
  /\ todo' = [todo EXCEPT ![Callback] = OnRead[status]]
  /\ UNCHANGED <<speech, update, isError, devices>>

At(t, step) == todo[t] # <<>> /\ Head(todo[t]) = step
(* Thread t makes the step and goes on with `more` before the rest.        *)
Then(t, more) == todo' = [todo EXCEPT ![t] = more \o Tail(@)]
Continue(t) == todo' = [todo EXCEPT ![t] = Tail(@)]

(* say: the flag is raised before the lock is taken.                       *)
RaiseSpeaking(t) ==
  /\ At(t, "raise") /\ Continue(t)
  /\ isSpeaking' = TRUE
  /\ UNCHANGED <<buffer, said, update, isError, devices>>

PushText(t) ==
  /\ At(t, "push") /\ Continue(t)
  /\ said' = said + 1
  /\ buffer' = Append(buffer, said')
  /\ UNCHANGED <<isSpeaking, update, isError, devices>>

(* Mutant: the text being spoken stays in the buffer.                      *)
ClearAllButFirst(t) ==
  /\ At(t, "clearBuffer") /\ Continue(t)
  /\ buffer' = IF buffer = <<>> THEN <<>> ELSE <<Head(buffer)>>
  /\ UNCHANGED <<isSpeaking, said, update, isError, devices>>

(* reset leaves m_isSpeaking alone.                                        *)
ClearBuffer(t) ==
  /\ At(t, "clearBuffer") /\ Continue(t)
  /\ buffer' = <<>>
  /\ UNCHANGED <<isSpeaking, said, update, isError, devices>>

ClearPlayer(t) ==
  /\ At(t, "clearPlayer") /\ Continue(t)
  /\ player' = <<>>
  /\ UNCHANGED <<speech, update, isError, synth, paused, playSeen, mic, micSeen>>

(* Mutant: reset waits for audio instead of silence.                       *)
AwaitSound(t) ==
  /\ At(t, "awaitSilence") /\ Continue(t)
  /\ playSeen
  /\ UNCHANGED <<speech, update, isError, devices>>

(* while (isAudioPlaying()) delay                                          *)
AwaitSilence(t) ==
  /\ At(t, "awaitSilence") /\ Continue(t)
  /\ ~playSeen
  /\ UNCHANGED <<speech, update, isError, devices>>

Pause(t) ==
  /\ At(t, "pause") /\ Continue(t)
  /\ paused' = TRUE \/ (MayFail /\ UNCHANGED paused)
  /\ UNCHANGED <<speech, update, isError, synth, player, playSeen, mic, micSeen>>

Resume(t) ==
  /\ At(t, "resume") /\ Continue(t)
  /\ paused' = FALSE \/ (MayFail /\ UNCHANGED paused)
  /\ UNCHANGED <<speech, update, isError, synth, player, playSeen, mic, micSeen>>

(* startHearing and stopHearing trust the published status.                *)
CheckStart(t) ==
  /\ At(t, "start?")
  /\ Then(t, IF micSeen THEN <<>> ELSE <<"start">>)
  /\ UNCHANGED <<speech, update, isError, devices>>

WriteStart(t) ==
  /\ At(t, "start")
  /\ Continue(t)
  /\ mic' = TRUE \/ (MayFail /\ UNCHANGED mic)
  /\ UNCHANGED <<speech, update, isError, audio, playSeen, micSeen>>

CheckStop(t) ==
  /\ At(t, "stop?")
  /\ Then(t, IF micSeen THEN <<"stop">> ELSE <<>>)
  /\ UNCHANGED <<speech, update, isError, devices>>

WriteStop(t) ==
  /\ At(t, "stop")
  /\ Continue(t)
  /\ mic' = FALSE \/ (MayFail /\ UNCHANGED mic)
  /\ UNCHANGED <<speech, update, isError, audio, playSeen, micSeen>>

SetError(t) ==
  /\ \/ At(t, "setError") /\ isError' = TRUE
     \/ At(t, "clearError") /\ isError' = FALSE
  /\ Continue(t)
  /\ UNCHANGED <<speech, update, devices>>

Step(t) ==
  \/ RaiseSpeaking(t) \/ PushText(t)
  \/ ClearBuffer(t) \/ ClearPlayer(t) \/ AwaitSilence(t)
  \/ Pause(t) \/ Resume(t)
  \/ CheckStart(t) \/ WriteStart(t) \/ CheckStop(t) \/ WriteStop(t)
  \/ SetError(t)

----------------------------------------------------------------------------
(* updateModule.                                                           *)

(* if (!isAudioPlaying()): otherwise the period ends.                      *)
Poll ==
  /\ upc = "poll" /\ ~playSeen
  /\ upc' = "pick"
  /\ UNCHANGED <<speech, str, sent, todo, isError, devices>>

(* Mutant: the flag is never lowered.                                      *)
PickKeepsFlag ==
  /\ upc = "pick"
  /\ IF buffer # <<>>
     THEN upc' = "mic" /\ str' = Head(buffer)
     ELSE upc' = "poll" /\ UNCHANGED str
  /\ UNCHANGED <<buffer, isSpeaking, said, sent, todo, isError, devices>>

(* Mutant: the text is not copied out of the buffer.                       *)
PickWithoutCopy ==
  /\ upc = "pick"
  /\ IF buffer # <<>>
     THEN upc' = "mic" /\ UNCHANGED isSpeaking
     ELSE upc' = "poll" /\ isSpeaking' = FALSE
  /\ UNCHANGED <<buffer, said, str, sent, todo, isError, devices>>

(* Under m_mutex: take the first text, or lower the flag.                  *)
PickText ==
  /\ upc = "pick"
  /\ IF buffer # <<>>
     THEN upc' = "mic" /\ str' = Head(buffer) /\ UNCHANGED isSpeaking
     ELSE upc' = "poll" /\ isSpeaking' = FALSE /\ UNCHANGED str
  /\ UNCHANGED <<buffer, said, sent, todo, isError, devices>>

(* Mutant: the microphone is left as it is.                                *)
LeaveMicrophone ==
  /\ upc = "mic"
  /\ upc' = "send"
  /\ UNCHANGED <<speech, str, sent, todo, isError, devices>>

(* if (isHearing()) stopHearing(), whose result is ignored.                *)
CloseMicrophone ==
  /\ upc = "mic"
  /\ upc' = "send"
  /\ todo' = [todo EXCEPT ![Updater] = IF micSeen THEN StopHearing ELSE <<>>]
  /\ UNCHANGED <<speech, str, sent, isError, devices>>

(* A write that fails ends updateModule with false, hence the module.      *)
SendText ==
  /\ upc = "send" /\ todo[Updater] = <<>>
  /\ \/ upc' = "await" /\ sent' = str /\ synth' = Append(synth, str)
     \/ MayFail /\ upc' = "stopped" /\ UNCHANGED <<sent, synth>>
  /\ UNCHANGED <<speech, str, todo, isError, player, paused, playSeen, mic, micSeen>>

(* Mutant: the loop that waits for the audio to begin is missing.          *)
SkipAwaitAudio ==
  /\ upc = "await"
  /\ upc' = "playing"
  /\ UNCHANGED <<speech, str, sent, todo, isError, devices>>

(* while (!isAudioPlaying()) delay                                         *)
AwaitAudio ==
  /\ upc = "await" /\ playSeen
  /\ upc' = "playing"
  /\ UNCHANGED <<speech, str, sent, todo, isError, devices>>

(* while (isAudioPlaying()) delay                                          *)
AwaitEnd ==
  /\ upc = "playing" /\ ~playSeen
  /\ upc' = "erase"
  /\ UNCHANGED <<speech, str, sent, todo, isError, devices>>

(* Mutants: the spoken text stays; all the texts go.                       *)
EraseNothing ==
  /\ upc = "erase"
  /\ upc' = "poll"
  /\ UNCHANGED <<speech, str, sent, todo, isError, devices>>

EraseEverything ==
  /\ upc = "erase"
  /\ upc' = "poll"
  /\ buffer' = <<>>
  /\ UNCHANGED <<isSpeaking, said, str, sent, todo, isError, devices>>

(* Under m_mutex: erase whatever text is now the first.                    *)
EraseText ==
  /\ upc = "erase"
  /\ upc' = "poll"
  /\ buffer' = IF buffer # <<>> THEN Tail(buffer) ELSE buffer
  /\ UNCHANGED <<isSpeaking, said, str, sent, todo, isError, devices>>

Update == Poll \/ PickText \/ CloseMicrophone \/ SendText
            \/ AwaitAudio \/ AwaitEnd \/ EraseText

----------------------------------------------------------------------------
(* The devices, as src/ uses them.                                         *)

SynthesizeText ==
  /\ synth # <<>>
  /\ synth' = Tail(synth)
  /\ \/ player' = Append(player, Head(synth))
     \/ MayFail /\ UNCHANGED player
  /\ UNCHANGED <<speech, update, todo, isError, paused, playSeen, mic, micSeen>>

(* With LongTexts the audio of a text outlasts the 0.1 s between two looks *)
(* of the update loop at the player.                                       *)
FinishAudio ==
  /\ player # <<>> /\ ~paused
  /\ LongTexts => upc # "await"
  /\ player' = Tail(player)
  /\ UNCHANGED <<speech, update, todo, isError, synth, paused, playSeen, mic, micSeen>>

PublishPlayer ==
  /\ playSeen # (player # <<>>)
  /\ playSeen' = (player # <<>>)
  /\ UNCHANGED <<speech, update, todo, isError, audio, mic, micSeen>>

PublishRecorder ==
  /\ micSeen # mic
  /\ micSeen' = mic
  /\ UNCHANGED <<speech, update, todo, isError, audio, playSeen, mic>>

Devices == SynthesizeText \/ FinishAudio \/ PublishPlayer \/ PublishRecorder

----------------------------------------------------------------------------
Init ==
  /\ buffer = <<>> /\ isSpeaking = FALSE /\ said = 0
  /\ upc = "poll" /\ str = 0 /\ sent = 0
  /\ todo = [t \in Threads |-> <<>>]
  /\ isError = FALSE
  /\ synth = <<>> /\ player = <<>> /\ paused = FALSE /\ playSeen = FALSE
  /\ mic \in BOOLEAN /\ micSeen = mic

Next ==
  \/ \E c \in Clients, call \in Calls : Call(c, call)
  \/ \E status \in Statuses : Receive(status)
  \/ \E t \in Threads : Step(t)
  \/ Update
  \/ Devices

(* Every thread and device keeps running; nobody has to call, to publish a *)
(* google state, or to resume a paused player.                             *)
Fairness ==
  /\ \A t \in Threads : WF_vars(Step(t))
  /\ WF_vars(Update)
  /\ WF_vars(SynthesizeText) /\ WF_vars(FinishAudio)
  /\ WF_vars(PublishPlayer) /\ WF_vars(PublishRecorder)

Spec == Init /\ [][Next]_vars
FairSpec == Spec /\ Fairness

----------------------------------------------------------------------------
(* Properties.                                                             *)

(* The devices never hold two texts: the two waiting loops of updateModule *)
(* keep the robot from talking over itself, whatever resets, pauses and    *)
(* late status messages do to them.                                        *)
OneVoice == Len(synth) + Len(player) <= 1

(* Texts reach the synthesizer in the order they were said and none twice, *)
(* although the erase of line 144 removes the first text of the buffer     *)
(* whichever it is.                                                        *)
SpokenInOrder == [][upc = "send" /\ upc' = "await" => sent' > sent]_vars

(* isSpeaking() goes from true to false only when nothing waits and no     *)
(* audio is left anywhere: the tour manager starts dancing, moving and     *)
(* listening on that edge.                                                 *)
SpeechEndsInSilence ==
  [][isSpeaking /\ ~isSpeaking' => buffer = <<>> /\ synth = <<>> /\ player = <<>>]_vars

(* The microphone is off while the robot talks, in spite of clients and    *)
(* google states that turn it on, if none of them does so while            *)
(* updateModule has a text in hand, and the published status is not stale  *)
(* at the moment updateModule looks at it to turn the microphone off.      *)
OpensInTime == Working => \A t \in Threads : ~At(t, "start")
StatusInTime == upc = "mic" => micSeen = mic
DeafWhileTalking == player # <<>> => ~mic
HearsOnlyOthers == [](OpensInTime /\ StatusInTime) => []DeafWhileTalking

(* Every text that is said is spoken in its turn, as long as nobody resets *)
(* the module and a paused player is resumed for good.                     *)
NoReset == \A c \in Clients : ~At(c, "clearBuffer")
Resumed == <>[]~paused
EveryTextIsSpoken ==
  []NoReset /\ Resumed => \A n \in 1..MaxSays : said >= n ~> sent >= n

(* Without a reset isSpeaking() does not stay true for ever: the loops of  *)
(* BlockSpeak and InterpretCommand that wait for it end.                   *)
SpeechEnds == []NoReset /\ Resumed => (isSpeaking ~> ~isSpeaking)

(* Every RPC call and every status is served once no client is about to    *)
(* say a text any more and the player is not paused.  Reset's wait for the *)
(* player needs both: it looks at a status that a client who goes on       *)
(* talking may always have set again, and that a paused player keeps.      *)
Quiet == SaysUnderWay = 0 /\ ~paused
CallsReturn == <>[]Quiet => \A t \in Threads : todo[t] # <<>> ~> todo[t] = <<>>

(* The log of line 145, "I removed from the buffer the text: str".         *)
RemovesWhatItSpoke ==
  [][upc = "erase" /\ upc' = "poll" /\ buffer # <<>> => Head(buffer) = str]_vars

----------------------------------------------------------------------------
(* Why these hold.                                                         *)

(* The devices are silent outside the two waiting loops; a player seen     *)
(* playing has been given the text, and one seen silent after that has     *)
(* finished it.                                                            *)
AudioInv ==
  /\ upc \notin {"await", "playing"} => synth = <<>> /\ player = <<>>
  /\ upc \in {"mic", "send", "pick"} => ~playSeen
  /\ upc = "await" => Len(synth) + Len(player) <= 1 /\ (playSeen => synth = <<>>)
  /\ upc = "playing" =>
       synth = <<>> /\ Len(player) <= 1 /\ (~playSeen => player = <<>>)

(* A microphone that is on when updateModule goes to send its text is seen *)
(* on and about to be turned off, so that it is off once the text is sent. *)
DeafInv ==
  /\ upc = "send" /\ mic => micSeen /\ todo[Updater] \in {<<"stop?">>, <<"stop">>}
  /\ upc \in {"await", "playing"} => ~mic

(* The buffer grows with age, and what it holds was not sent before.       *)
OrderInv ==
  /\ \A i, j \in DOMAIN buffer : i < j => buffer[i] < buffer[j]
  /\ upc \in {"poll", "pick"} => \A i \in DOMAIN buffer : buffer[i] > sent
  /\ Working => \A i \in DOMAIN buffer : buffer[i] >= str
  /\ upc \in {"mic", "send", "stopped"} => sent < str
  /\ upc \in {"await", "playing", "erase"} => sent = str

(* As long as nobody resets, the buffer is the texts from some number up   *)
(* to the last one said, and the text being spoken is the first of them.   *)
KeepingSteps == Steps \ {"clearBuffer"}
Erased == said - Len(buffer)
QueueInv ==
  /\ \A t \in {Updater, Callback} : todo[t] \in Seq(KeepingSteps)
  /\ Len(buffer) <= said
  /\ \A i \in DOMAIN buffer : buffer[i] = Erased + i
  /\ Working => buffer # <<>> /\ str = Erased + 1
  /\ sent = IF upc \in {"await", "playing", "erase"} THEN str ELSE Erased

(* Then the texts are spoken one by one: the update loop skips none, the   *)
(* counterpart of EveryTextIsSpoken for the steps it takes.                *)
NoTextIsSkipped == [][sent' # sent => sent' = sent + 1]_vars

----------------------------------------------------------------------------
(* HeadSynchronizer implements SpeechQueue: a text is current from the     *)
(* moment updateModule picks it, while it still is the first of buffer.    *)
Current == IF Working THEN str ELSE 0
Recalled == Working /\ (buffer = <<>> \/ Head(buffer) # str)
Waiting == IF Working /\ ~Recalled THEN Tail(buffer) ELSE buffer

Promise == INSTANCE SpeechQueue
             WITH queue <- Waiting, current <- Current, recalled <- Recalled
KeepsThePromise == Promise!QSpec
=============================================================================
