--------------------------- MODULE VoiceActivation ---------------------------
(***************************************************************************)
(* aux_modules/voiceActivationDetection: cuts the sound of the microphone  *)
(* into utterances for the dialogue, and closes the microphone after each. *)
(* Its threads and their mutexes:                                          *)
(*   - AudioProcessor::run, which holds the processor's mutex for the      *)
(*     whole of a sound and takes the callback's mutex to close the        *)
(*     microphone;                                                         *)
(*   - MicrophoneStatusCallback::onRead, which holds its own mutex and     *)
(*     takes the processor's to open the microphone again;                 *)
(*   - AudioCallback::onRead, which takes the processor's.                 *)
(* The recorder and HeadSynchronizer, which turns it on and off, are       *)
(* external.  A status overwrites the unread one before it.                *)
(***************************************************************************)
EXTENDS Naturals, Sequences

CONSTANTS
  BufferSize,   \* m_bufferSize: packets of padding before and after speech
  Sounds,       \* the sounds the recorder sends: sequences of packets
  Adversities,  \* what the connections and HeadSynchronizer may do to it
  MaxQueue,     \* bound: sounds waiting for the processor
  MaxPackets    \* bound: packets held when more speech is recorded

(* fvad_process's verdicts 1, 0 and -1.                                    *)
Packets == {"voice", "silence", "invalid"}

(* lateStatus: sound arrives before the first status of the recorder.      *)
(* quickRestart: the recorder restarts before it is seen stopped.          *)
(* stopIgnored: stopHearing finds the recorder not yet published as on.    *)
AllAdversities == {"lateStatus", "quickRestart", "stopIgnored"}

(* With a buffer of 0 the first silent packet pops an empty deque.         *)
ASSUME VadConstantsOK ==
  /\ BufferSize \in Nat \ {0} /\ MaxQueue \in Nat /\ MaxPackets \in Nat
  /\ Sounds \subseteq Seq(Packets)
  /\ Adversities \subseteq AllAdversities

VARIABLES
  mic,             \* external: the recorder is enabled
  statusIn,        \* the unread status on the callback's port
  soundIn,         \* the sounds (one at most) on the audio callback's port
  soundToProcess,  \* m_soundToProcess
  rest,            \* packets left of the sound being processed
  ppc,             \* where the processor stands; it holds its mutex unless "idle"
  spc,             \* where the status callback stands; likewise
  microphoneOpen,  \* m_microphoneOpen
  soundDetected,   \* m_soundDetected
  padding,         \* m_paddingCurrentSize
  soundToSend,     \* m_soundToSend
  justClosed,      \* m_microphoneJustClosed
  needsToStart     \* m_microphoneNeedsToStart

recorder == <<mic, statusIn, soundIn>>
processor == <<soundToProcess, rest, ppc>>
utterance == <<soundDetected, padding, soundToSend>>
reopening == <<spc, justClosed, needsToStart>>
vars == <<recorder, processor, utterance, microphoneOpen, reopening>>

TypeOK ==
  /\ mic \in BOOLEAN /\ statusIn \in {"none", "ok", "fail"}
  /\ soundIn \in Seq(Seq(Packets)) /\ soundToProcess \in Seq(Seq(Packets))
  /\ rest \in Seq(Packets) /\ soundToSend \in Seq(Packets)
  /\ ppc \in {"idle", "packet", "close", "send"} /\ spc \in {"idle", "open"}
  /\ microphoneOpen \in BOOLEAN /\ soundDetected \in BOOLEAN
  /\ padding \in 0..BufferSize
  /\ ppc # "idle" => rest # <<>> /\ soundToProcess # <<>>
  /\ justClosed \in BOOLEAN /\ needsToStart \in BOOLEAN

ProcessorMutexFree == ppc = "idle"
CallbackMutexFree == spc = "idle"

----------------------------------------------------------------------------
(* The recorder and HeadSynchronizer.                                      *)

HasVoice(sound) == \E i \in DOMAIN sound : sound[i] = "voice"

Record(sound) ==
  /\ mic /\ soundIn = <<>> /\ Len(soundToProcess) < MaxQueue
  /\ HasVoice(sound) => Len(soundToSend) + Len(rest) < MaxPackets
  /\ soundIn' = <<sound>>
  /\ UNCHANGED <<mic, statusIn, processor, utterance, microphoneOpen, reopening>>

PublishStatus ==
  /\ statusIn' = IF mic THEN "ok" ELSE "fail"
  /\ statusIn' # statusIn
  /\ UNCHANGED <<mic, soundIn, processor, utterance, microphoneOpen, reopening>>

(* HeadSynchronizer turns the recorder on, as it does when its own status  *)
(* of the recorder, which may be stale, says that it is off.               *)
StartHearing ==
  /\ ~mic /\ mic' = TRUE
  /\ "quickRestart" \in Adversities \/ ~justClosed
  /\ UNCHANGED <<statusIn, soundIn, processor, utterance, microphoneOpen, reopening>>

(* HeadSynchronizer turns the recorder off before the robot speaks.        *)
StopHearing ==
  /\ mic /\ mic' = FALSE
  /\ UNCHANGED <<statusIn, soundIn, processor, utterance, microphoneOpen, reopening>>

Outside == PublishStatus \/ StartHearing \/ StopHearing \/ \E sound \in Sounds : Record(sound)

----------------------------------------------------------------------------
(* AudioCallback::onRead.                                                  *)
AddSound ==
  /\ soundIn # <<>> /\ ProcessorMutexFree
  /\ soundToProcess' = Append(soundToProcess, Head(soundIn)) /\ soundIn' = <<>>
  /\ UNCHANGED <<mic, statusIn, rest, ppc, utterance, microphoneOpen, reopening>>

----------------------------------------------------------------------------
(* AudioProcessor::run.                                                    *)

(* processAudio, up to its loop over the packets: a sound that cannot be   *)
(* split is one without packets; with the microphone closed it is dropped. *)
TakeSound ==
  /\ ppc = "idle" /\ soundToProcess # <<>>
  /\ IF microphoneOpen /\ Head(soundToProcess) # <<>>
     THEN /\ ppc' = "packet" /\ rest' = Head(soundToProcess)
          /\ UNCHANGED soundToProcess
     ELSE /\ soundToProcess' = Tail(soundToProcess)
          /\ UNCHANGED <<ppc, rest>>
  /\ UNCHANGED <<recorder, utterance, microphoneOpen, reopening>>

(* The packet is done; after the last one the sound is popped and the      *)
(* mutex released.                                                         *)
NextPacket ==
  /\ rest' = Tail(rest)
  /\ IF Len(rest) > 1
     THEN ppc' = "packet" /\ UNCHANGED soundToProcess
     ELSE ppc' = "idle" /\ soundToProcess' = Tail(soundToProcess)

(* processPacket calls sendSound, and the packet itself is lost.           *)
Utter == ppc' = "close" /\ UNCHANGED <<rest, soundToProcess, utterance>>

Voice ==
  /\ Head(rest) = "voice" /\ NextPacket
  /\ soundToSend' = Append(soundToSend, "voice")
  /\ soundDetected' = TRUE /\ padding' = 0

(* Mutants: one packet of padding too many, or too few.                    *)
SilenceAfterLong ==
  /\ Head(rest) = "silence" /\ soundDetected
  /\ IF padding <= BufferSize
     THEN /\ NextPacket /\ padding' = padding + 1
          /\ soundToSend' = Append(soundToSend, "silence") /\ UNCHANGED soundDetected
     ELSE Utter

SilenceAfterShort ==
  /\ Head(rest) = "silence" /\ soundDetected
  /\ IF padding + 1 < BufferSize
     THEN /\ NextPacket /\ padding' = padding + 1
          /\ soundToSend' = Append(soundToSend, "silence") /\ UNCHANGED soundDetected
     ELSE Utter

SilenceAfter ==
  /\ Head(rest) = "silence" /\ soundDetected
  /\ IF padding < BufferSize
     THEN /\ NextPacket /\ padding' = padding + 1
          /\ soundToSend' = Append(soundToSend, "silence") /\ UNCHANGED soundDetected
     ELSE Utter

(* Mutant: a full buffer drops nothing.                                    *)
SilenceBeforeLong ==
  /\ Head(rest) = "silence" /\ ~soundDetected /\ NextPacket
  /\ soundToSend' = Append(soundToSend, "silence")
  /\ UNCHANGED <<soundDetected, padding>>

SilenceBefore ==
  /\ Head(rest) = "silence" /\ ~soundDetected /\ NextPacket
  /\ soundToSend' =
       Append(IF Len(soundToSend) = BufferSize THEN Tail(soundToSend) ELSE soundToSend,
              "silence")
  /\ UNCHANGED <<soundDetected, padding>>

Invalid ==
  /\ Head(rest) = "invalid"
  /\ IF soundDetected
     THEN Utter
     ELSE NextPacket /\ soundToSend' = <<>> /\ UNCHANGED <<soundDetected, padding>>

(* Packets that follow an utterance in the same sound are skipped.         *)
Skip == NextPacket /\ UNCHANGED utterance

ProcessPacket ==
  /\ ppc = "packet"
  /\ IF microphoneOpen
     THEN Voice \/ SilenceAfter \/ SilenceBefore \/ Invalid
     ELSE Skip
  /\ UNCHANGED <<recorder, microphoneOpen, reopening>>

(* MicrophoneStatusCallback::closeMicrophone.                              *)
CloseMicrophone ==
  /\ ppc = "close" /\ CallbackMutexFree
  /\ mic' = FALSE \/ ("stopIgnored" \in Adversities /\ UNCHANGED mic)
  /\ justClosed' = TRUE /\ ppc' = "send"
  /\ UNCHANGED <<statusIn, soundIn, soundToProcess, rest, utterance, microphoneOpen,
                 spc, needsToStart>>

(* The rest of sendSound.                                                  *)
SendSound ==
  /\ ppc = "send" /\ NextPacket
  /\ microphoneOpen' = FALSE
  /\ soundDetected' = FALSE /\ padding' = 0 /\ soundToSend' = <<>>
  /\ UNCHANGED <<recorder, reopening>>

Processor == TakeSound \/ ProcessPacket \/ CloseMicrophone \/ SendSound

----------------------------------------------------------------------------
(* MicrophoneStatusCallback::onRead.                                       *)

(* Mutant: a stopped recorder is forgotten at once.                        *)
ForgetStop ==
  /\ statusIn = "fail" /\ spc = "idle" /\ statusIn' = "none"
  /\ justClosed' = FALSE
  /\ UNCHANGED <<mic, soundIn, processor, utterance, microphoneOpen, spc, needsToStart>>

OnFail ==
  /\ statusIn = "fail" /\ spc = "idle" /\ statusIn' = "none"
  /\ justClosed' = FALSE
  /\ needsToStart' = (needsToStart \/ justClosed)
  /\ UNCHANGED <<mic, soundIn, processor, utterance, microphoneOpen, spc>>

OnOk ==
  /\ statusIn = "ok" /\ spc = "idle" /\ statusIn' = "none"
  /\ spc' = IF needsToStart THEN "open" ELSE "idle"
  /\ UNCHANGED <<mic, soundIn, processor, utterance, microphoneOpen, justClosed, needsToStart>>

(* Mutant: every "ok" opens the microphone.                                *)
OpenAlways ==
  /\ spc = "open" /\ ProcessorMutexFree
  /\ microphoneOpen' = TRUE /\ spc' = "idle"
  /\ UNCHANGED <<recorder, processor, utterance, justClosed, needsToStart>>

OpenMicrophone ==
  /\ spc = "open" /\ ProcessorMutexFree
  /\ microphoneOpen' = TRUE /\ needsToStart' = FALSE /\ spc' = "idle"
  /\ UNCHANGED <<recorder, processor, utterance, justClosed>>

StatusCallback == OnFail \/ OnOk \/ OpenMicrophone

----------------------------------------------------------------------------
(* After configure: without lateStatus the callback has handled an "ok".   *)
Init ==
  /\ mic = FALSE /\ statusIn = "none" /\ soundIn = <<>>
  /\ soundToProcess = <<>> /\ rest = <<>> /\ ppc = "idle"
  /\ soundDetected = FALSE /\ padding = 0 /\ soundToSend = <<>>
  /\ microphoneOpen = TRUE
  /\ spc = "idle" /\ justClosed = FALSE
  /\ needsToStart = ("lateStatus" \in Adversities)

Next == Outside \/ AddSound \/ Processor \/ StatusCallback

Spec == Init /\ [][Next]_vars
FairSpec ==
  /\ Spec /\ WF_vars(PublishStatus) /\ WF_vars(AddSound)
  /\ WF_vars(Processor) /\ WF_vars(StatusCallback)

----------------------------------------------------------------------------
(* Properties.                                                             *)

(* Speech with no more than a buffer of silence in front, and p packets of *)
(* silence at the end.                                                     *)
SpeechKept(s, p) ==
  /\ p < Len(s) /\ s[Len(s) - p] = "voice"
  /\ \A i \in Len(s) - p + 1 .. Len(s) : s[i] = "silence"
  /\ \E i \in 1 .. BufferSize + 1 :
       i <= Len(s) /\ s[i] = "voice" /\ \A j \in 1 .. i - 1 : s[j] = "silence"

SilenceKept(s) ==
  Len(s) <= BufferSize /\ \A i \in 1 .. Len(s) : s[i] = "silence"

(* What is kept is an utterance in the making: silence alone, a buffer of  *)
(* it at most, before speech is detected, and padded speech afterwards.    *)
PacketsKept ==
  IF soundDetected THEN SpeechKept(soundToSend, padding)
                   ELSE padding = 0 /\ SilenceKept(soundToSend)

(* "Not talking, but taking padding in front and at the end of             *)
(* buffersize": only an invalid packet cuts an utterance short.            *)
WholeUtterance ==
  ppc = "close" => soundDetected /\ (padding = BufferSize \/ Head(rest) = "invalid")

(* A closed microphone is one that the status callback still has to see    *)
(* stop, or has seen stop and has to open again: the module is never deaf  *)
(* without a way back, whatever the statuses do.                           *)
SomeoneReopens ==
  ~microphoneOpen => justClosed \/ needsToStart

(* The two mutexes are never waited for in a circle.                       *)
NoMutexCycle == ~(ppc = "close" /\ spc = "open")

(* A status is always handled in the end: onRead gets the processor's      *)
(* mutex, with which it may have to wait for the processor's RPC.          *)
StatusHandled == spc = "open" ~> spc = "idle"

(* The module listens again after the recorder is turned on.               *)
HearsAgain == mic ~> microphoneOpen \/ ~mic

----------------------------------------------------------------------------
(* Why these hold.                                                         *)

(* From the moment the microphone is closed somebody is to reopen it.      *)
ReopenInv ==
  ~microphoneOpen \/ ppc = "send" => justClosed \/ needsToStart

(* Without lateStatus a callback that wants to open the microphone has     *)
(* seen it closed, and a processor that wants to close it has not begun    *)
(* to: the two are never in each other's way.                              *)
MutexInv ==
  /\ ppc = "close" => microphoneOpen
  /\ spc = "open" => needsToStart
  /\ justClosed \/ needsToStart => ~microphoneOpen \/ ppc = "send"
  /\ ~(justClosed /\ needsToStart)
==============================================================================
