----------------------- MODULE HeadSynchronizerProofs -----------------------
(***************************************************************************)
(* What holds of HeadSynchronizer for any number of clients and texts.     *)
(***************************************************************************)
EXTENDS HeadSynchronizer, SequenceTheorems, TLAPS

(* The parts the handlers are made of are sequences of steps.              *)
LEMMA PartsTyped ==
  /\ StartHearing \in Seq(Steps) /\ StopHearing \in Seq(Steps)
  /\ HappyFace \in Seq(Steps) /\ ErrorFace \in Seq(Steps)
  /\ <<>> \in Seq(Steps)
BY DEF StartHearing, StopHearing, HappyFace, ErrorFace, Steps

(* What each call is made of.                                              *)
LEMMA HandlerSteps ==
  /\ Handler["say"] = <<"raise", "push">>
  /\ Handler["pauseSpeaking"] = <<"pause">>
  /\ Handler["continueSpeaking"] = <<"resume">>
  /\ Handler["reset"] =
       <<"clearBuffer", "clearPlayer", "awaitSilence">> \o HappyFace \o StopHearing
  /\ Handler["startHearing"] = StartHearing
  /\ Handler["stopHearing"] = StopHearing
  /\ Handler["happyFace"] = HappyFace
  /\ Handler["sadFaceError"] = ErrorFace
  /\ Handler["busyFaceError"] = ErrorFace
  /\ Handler["sadFaceWarning"] = <<>>
  /\ Handler["busyFace"] = <<>>
BY DEF Handler, Colours

LEMMA HandlerTyped ==
  ASSUME NEW call \in AllCalls PROVE Handler[call] \in Seq(Steps)
<1>1. /\ <<"raise", "push">> \in Seq(Steps)
      /\ <<"pause">> \in Seq(Steps) /\ <<"resume">> \in Seq(Steps)
      /\ <<"clearBuffer", "clearPlayer", "awaitSilence">> \in Seq(Steps)
  BY DEF Steps
<1>2. <<"clearBuffer", "clearPlayer", "awaitSilence">> \o HappyFace \o StopHearing
        \in Seq(Steps)
  BY <1>1, PartsTyped, ConcatProperties
<1> QED BY <1>1, <1>2, HandlerSteps, PartsTyped DEF AllCalls

LEMMA OnReadTyped ==
  ASSUME NEW status \in AllStatuses PROVE OnRead[status] \in Seq(Steps)
<1>1. /\ HappyFace \o StartHearing \in Seq(Steps)
      /\ ErrorFace \o StartHearing \in Seq(Steps)
  BY PartsTyped, ConcatProperties
<1>2. /\ OnRead["Busy"] \in {ErrorFace, <<>>}
      /\ OnRead["Empty"] = HappyFace \o StartHearing
      /\ OnRead["Done"] \in {ErrorFace, HappyFace}
      /\ OnRead["Failure"] = ErrorFace \o StartHearing
      /\ OnRead["unknown"] = ErrorFace
  BY DEF OnRead
<1> QED BY <1>1, <1>2, PartsTyped DEF AllStatuses

(* A number known at one moment is known later.                            *)
LEMMA SeqWidens ==
  ASSUME NEW m \in Nat, NEW n \in Nat, m <= n, NEW s \in Seq(1..m)
  PROVE  s \in Seq(1..n)
OBVIOUS

LEMMA HeadTailTyped ==
  ASSUME NEW S, NEW s \in Seq(S), s # <<>>
  PROVE  Head(s) \in S /\ Tail(s) \in Seq(S)
BY HeadTailProperties

(* What is left of a handler, with other steps put before it.              *)
LEMMA MoreTyped ==
  ASSUME NEW S, NEW s \in Seq(S), NEW more \in Seq(S), s # <<>>
  PROVE  more \o Tail(s) \in Seq(S)
BY HeadTailTyped, ConcatProperties

LEMMA ContinueTyped ==
  ASSUME TypeOK, NEW t \in Threads, todo[t] # <<>>, Continue(t)
  PROVE  todo' \in [Threads -> Seq(Steps)]
BY DEF TypeOK, Continue

LEMMA ThenTyped ==
  ASSUME TypeOK, NEW t \in Threads, todo[t] # <<>>,
         NEW more \in Seq(Steps), Then(t, more)
  PROVE  todo' \in [Threads -> Seq(Steps)]
BY DEF TypeOK, Then

----------------------------------------------------------------------------
(* Every variable keeps its type; in particular no thread meets a text     *)
(* that was not said.                                                      *)
LEMMA TypeInit == Init => TypeOK
<1> SUFFICES ASSUME Init PROVE TypeOK
  OBVIOUS
<1>1. said \in Nat /\ str \in 0..said /\ sent \in 0..said
  BY DEF Init
<1>2. /\ buffer \in Seq(1..said) /\ synth \in Seq(1..said)
      /\ player \in Seq(1..said)
  BY DEF Init
<1>3. todo \in [Threads -> Seq(Steps)]
  BY PartsTyped DEF Init
<1>4. upc \in UpdatePCs /\ ~Working
  BY DEF Init, UpdatePCs, Working
<1> QED BY <1>1, <1>2, <1>3, <1>4 DEF Init, TypeOK

LEMMA TypeStepOfThread ==
  ASSUME TypeOK, NEW t \in Threads, Step(t) PROVE TypeOK'
<1> USE DEF TypeOK, Working, speech, update, audio, devices
<1>1. CASE PushText(t)
  <2>1. said' \in Nat /\ said <= said' /\ said' \in 1..said'
    BY <1>1 DEF PushText
  <2>2. /\ buffer \in Seq(1..said') /\ synth \in Seq(1..said')
        /\ player \in Seq(1..said')
    BY <2>1, SeqWidens
  <2>3. buffer' \in Seq(1..said')
    BY <1>1, <2>1, <2>2 DEF PushText
  <2>4. todo' \in [Threads -> Seq(Steps)]
    BY <1>1, ContinueTyped DEF PushText, At
  <2> QED BY <1>1, <2>1, <2>2, <2>3, <2>4 DEF PushText
<1>2. CASE RaiseSpeaking(t) \/ AwaitSilence(t) \/ Pause(t) \/ Resume(t) \/ SetError(t)
  <2>1. todo' \in [Threads -> Seq(Steps)]
    BY <1>2, ContinueTyped DEF RaiseSpeaking, AwaitSilence, Pause, Resume, SetError, At
  <2> QED BY <1>2, <2>1 DEF RaiseSpeaking, AwaitSilence, Pause, Resume, SetError
<1>3. CASE ClearBuffer(t) \/ ClearPlayer(t)
  <2>1. todo' \in [Threads -> Seq(Steps)]
    BY <1>3, ContinueTyped DEF ClearBuffer, ClearPlayer, At
  <2>2. <<>> \in Seq(1..said)
    OBVIOUS
  <2> QED BY <1>3, <2>1, <2>2 DEF ClearBuffer, ClearPlayer
<1>4. CASE CheckStart(t) \/ CheckStop(t)
  <2>1. <<"start">> \in Seq(Steps) /\ <<"stop">> \in Seq(Steps)
    BY DEF Steps
  <2>2. todo' \in [Threads -> Seq(Steps)]
    BY <1>4, <2>1, PartsTyped, ThenTyped DEF CheckStart, CheckStop, At
  <2> QED BY <1>4, <2>2 DEF CheckStart, CheckStop
<1>5. CASE WriteStart(t) \/ WriteStop(t)
  <2>1. todo' \in [Threads -> Seq(Steps)]
    BY <1>5, ContinueTyped DEF WriteStart, WriteStop, At
  <2> QED BY <1>5, <2>1 DEF WriteStart, WriteStop
<1> QED BY <1>1, <1>2, <1>3, <1>4, <1>5 DEF Step

LEMMA TypeStepOfUpdate == TypeOK /\ Update => TypeOK'
<1> SUFFICES ASSUME TypeOK, Update PROVE TypeOK'
  OBVIOUS
<1> USE DEF TypeOK, Working, speech, update, audio, devices, UpdatePCs
<1>1. CASE PickText
  <2>1. CASE buffer # <<>>
    <3>1. Head(buffer) \in 1..said
      BY <2>1, HeadTailTyped
    <3>2. upc' = "mic" /\ str' \in 0..said /\ str' # 0
      BY <1>1, <2>1, <3>1 DEF PickText
    <3> QED BY <1>1, <2>1, <3>2 DEF PickText
  <2>2. CASE buffer = <<>>
    BY <1>1, <2>2 DEF PickText
  <2> QED BY <2>1, <2>2
<1>2. CASE CloseMicrophone
  <2>1. (IF micSeen THEN StopHearing ELSE <<>>) \in Seq(Steps)
    BY PartsTyped
  <2>2. todo' \in [Threads -> Seq(Steps)]
    BY <1>2, <2>1 DEF CloseMicrophone
  <2> QED BY <1>2, <2>2 DEF CloseMicrophone
<1>3. CASE SendText
  <2>1. Append(synth, str) \in Seq(1..said)
    BY <1>3 DEF SendText
  <2> QED BY <1>3, <2>1 DEF SendText
<1>4. CASE EraseText
  <2>1. buffer # <<>> => Tail(buffer) \in Seq(1..said)
    BY HeadTailTyped
  <2> QED BY <1>4, <2>1 DEF EraseText
<1>5. CASE Poll \/ AwaitAudio \/ AwaitEnd
  BY <1>5 DEF Poll, AwaitAudio, AwaitEnd
<1> QED BY <1>1, <1>2, <1>3, <1>4, <1>5 DEF Update
LEMMA TypeStepOfDevices == TypeOK /\ Devices => TypeOK'
<1> SUFFICES ASSUME TypeOK, Devices PROVE TypeOK'
  OBVIOUS
<1> USE DEF TypeOK, Working, speech, update, audio, devices
<1>1. CASE SynthesizeText
  <2>1. Head(synth) \in 1..said /\ Tail(synth) \in Seq(1..said)
    BY <1>1, HeadTailTyped DEF SynthesizeText
  <2>2. Append(player, Head(synth)) \in Seq(1..said)
    BY <2>1
  <2>3. synth' \in Seq(1..said) /\ player' \in Seq(1..said)
    BY <1>1, <2>1, <2>2 DEF SynthesizeText
  <2> QED BY <1>1, <2>3 DEF SynthesizeText
<1>2. CASE FinishAudio
  <2>1. player' \in Seq(1..said)
    BY <1>2, HeadTailTyped DEF FinishAudio
  <2> QED BY <1>2, <2>1 DEF FinishAudio
<1>3. CASE PublishPlayer
  BY <1>3 DEF PublishPlayer
<1>4. CASE PublishRecorder
  BY <1>4 DEF PublishRecorder
<1> QED BY <1>1, <1>2, <1>3, <1>4 DEF Devices

LEMMA TypeStep == TypeOK /\ [Next]_vars => TypeOK'
<1> SUFFICES ASSUME TypeOK, [Next]_vars PROVE TypeOK'
  OBVIOUS
<1>1. ASSUME NEW c \in Clients, NEW call \in Calls, Call(c, call) PROVE TypeOK'
  <2>1. Handler[call] \in Seq(Steps)
    BY HandlerTyped, ConstantsOK
  <2>2. todo' \in [Threads -> Seq(Steps)]
    BY <1>1, <2>1 DEF Call, TypeOK, Threads
  <2> QED BY <1>1, <2>2 DEF Call, TypeOK, Working, speech, update, audio, devices
<1>2. ASSUME NEW status \in Statuses, Receive(status) PROVE TypeOK'
  <2>1. OnRead[status] \in Seq(Steps)
    BY OnReadTyped, ConstantsOK
  <2>2. todo' \in [Threads -> Seq(Steps)]
    BY <1>2, <2>1 DEF Receive, TypeOK, Threads
  <2> QED BY <1>2, <2>2 DEF Receive, TypeOK, Working, speech, update, audio, devices
<1>3. CASE UNCHANGED vars
  BY <1>3 DEF TypeOK, Working, vars, speech, update, audio, devices
<1> QED BY <1>1, <1>2, <1>3, TypeStepOfThread, TypeStepOfUpdate, TypeStepOfDevices DEF Next

(* Types, whatever the clients call, the dialogue says and the devices do: *)
(* handlers leave only steps that exist.                                   *)
THEOREM TypeCorrect == Spec => []TypeOK
BY TypeInit, TypeStep, PTL DEF Spec
----------------------------------------------------------------------------
(* The waiting loops of updateModule give one text at a time to the        *)
(* devices.                                                                *)
LEMMA AudioInit == Init => AudioInv
BY DEF Init, AudioInv

(* Only ClearPlayer among the steps of the handlers touches the devices.   *)
LEMMA AudioStepOfThread ==
  ASSUME TypeOK, AudioInv, NEW t \in Threads, Step(t) PROVE AudioInv'
<1>1. CASE ClearPlayer(t)
  <2>1. /\ UNCHANGED <<upc, synth, playSeen>> /\ player' = <<>>
    BY <1>1 DEF ClearPlayer, update
  <2>2. Len(player') = 0 /\ Len(player) \in Nat /\ Len(synth) \in Nat
    BY <2>1 DEF TypeOK
  <2> QED BY <2>1, <2>2 DEF AudioInv
<1>2. CASE ~ClearPlayer(t)
  <2>1. UNCHANGED <<upc, synth, player, playSeen>>
    BY <1>2 DEF Step, RaiseSpeaking, PushText, ClearBuffer, AwaitSilence, Pause,
      Resume, CheckStart, WriteStart, CheckStop, WriteStop, SetError,
      update, audio, devices
  <2> QED BY <2>1 DEF AudioInv
<1> QED BY <1>1, <1>2

LEMMA AudioStepOfUpdate == TypeOK /\ AudioInv /\ Update => AudioInv'
<1> SUFFICES ASSUME TypeOK, AudioInv, Update PROVE AudioInv'
  OBVIOUS
<1> USE DEF AudioInv, speech, update, audio, devices
<1>1. CASE Poll
  BY <1>1 DEF Poll
<1>2. CASE PickText
  BY <1>2 DEF PickText
<1>3. CASE CloseMicrophone
  BY <1>3 DEF CloseMicrophone
<1>4. CASE SendText
  <2>1. synth = <<>> /\ player = <<>> /\ ~playSeen
    BY <1>4 DEF SendText
  <2>2. Len(Append(synth, str)) = 1 /\ Len(player) = 0
    BY <2>1
  <2>3. CASE upc' = "await"
    <3>1. synth' = Append(synth, str) /\ UNCHANGED <<player, playSeen>>
      BY <1>4, <2>3 DEF SendText
    <3>2. Len(synth') + Len(player') <= 1 /\ ~playSeen'
      BY <2>1, <2>2, <3>1
    <3> QED BY <2>3, <3>2
  <2>4. CASE upc' = "stopped"
    BY <1>4, <2>1, <2>4 DEF SendText
  <2> QED BY <1>4, <2>3, <2>4 DEF SendText
<1>5. CASE AwaitAudio
  <2>1. synth = <<>> /\ Len(player) <= 1
    BY <1>5 DEF AwaitAudio, TypeOK
  <2> QED BY <1>5, <2>1 DEF AwaitAudio
<1>6. CASE AwaitEnd
  BY <1>6 DEF AwaitEnd
<1>7. CASE EraseText
  BY <1>7 DEF EraseText
<1> QED BY <1>1, <1>2, <1>3, <1>4, <1>5, <1>6, <1>7 DEF Update

LEMMA AudioStepOfDevices == TypeOK /\ AudioInv /\ Devices => AudioInv'
<1> SUFFICES ASSUME TypeOK, AudioInv, Devices PROVE AudioInv'
  OBVIOUS
<1> USE DEF AudioInv, speech, update, audio, devices
<1>0. Len(player) \in Nat /\ Len(synth) \in Nat
  BY DEF TypeOK
<1>1. CASE SynthesizeText
  <2>1. upc = "await" /\ ~playSeen /\ UNCHANGED <<upc, playSeen>>
    BY <1>1 DEF SynthesizeText, TypeOK, UpdatePCs
  <2>2. Len(synth) # 0
    BY <1>1 DEF SynthesizeText, TypeOK
  <2>3. Len(synth') = Len(synth) - 1
    BY <1>1 DEF SynthesizeText, TypeOK
  <2>4. Len(player') \in {Len(player), Len(player) + 1}
    BY <1>1 DEF SynthesizeText, TypeOK
  <2> QED BY <1>0, <2>1, <2>2, <2>3, <2>4
<1>2. CASE FinishAudio
  <2>1. Len(player') = Len(player) - 1 /\ UNCHANGED <<upc, synth, playSeen>>
    BY <1>2 DEF FinishAudio, TypeOK
  <2>2. upc \in {"await", "playing"}
    BY <1>2 DEF FinishAudio
  <2>3. upc = "playing" => player' = <<>>
    BY <1>0, <1>2, <2>1 DEF FinishAudio, TypeOK
  <2> QED BY <1>0, <2>1, <2>2, <2>3
<1>3. CASE PublishPlayer
  <2>1. upc = "await" /\ player # <<>> => synth = <<>>
    BY <1>0 DEF TypeOK
  <2> QED BY <1>3, <2>1 DEF PublishPlayer
<1>4. CASE PublishRecorder
  BY <1>4 DEF PublishRecorder
<1> QED BY <1>1, <1>2, <1>3, <1>4 DEF Devices

LEMMA AudioStep == TypeOK /\ AudioInv /\ [Next]_vars => AudioInv'
<1> SUFFICES ASSUME TypeOK, AudioInv, [Next]_vars PROVE AudioInv'
  OBVIOUS
<1>1. ASSUME NEW c \in Clients, NEW call \in Calls, Call(c, call) PROVE AudioInv'
  BY <1>1 DEF Call, AudioInv, update, audio, devices
<1>2. ASSUME NEW status \in Statuses, Receive(status) PROVE AudioInv'
  BY <1>2 DEF Receive, AudioInv, update, audio, devices
<1>3. CASE UNCHANGED vars
  BY <1>3 DEF AudioInv, vars, update, audio, devices
<1> QED BY <1>1, <1>2, <1>3, AudioStepOfThread, AudioStepOfUpdate,
           AudioStepOfDevices DEF Next

(* Where updateModule stands tells which device may hold audio: none       *)
(* outside its two waiting loops.                                          *)
THEOREM AudioCorrect == Spec => []AudioInv
BY TypeInit, TypeStep, AudioInit, AudioStep, PTL DEF Spec

(* The robot never talks over itself.                                      *)
THEOREM RobotHasOneVoice == Spec => []OneVoice
<1>1. TypeOK /\ AudioInv => OneVoice
  BY DEF TypeOK, AudioInv, OneVoice
<1> QED BY <1>1, TypeCorrect, AudioCorrect, PTL

(* m_isSpeaking falls only in silence.                                     *)
THEOREM FlagFallsInSilence == Spec => SpeechEndsInSilence
<1>1. AudioInv /\ [Next]_vars /\ isSpeaking /\ ~isSpeaking'
        => buffer = <<>> /\ synth = <<>> /\ player = <<>>
  <2> SUFFICES ASSUME AudioInv, [Next]_vars, isSpeaking, ~isSpeaking'
               PROVE  PickText
    BY DEF PickText, AudioInv
  <2> QED BY DEF Next, vars, Call, Receive, Step, RaiseSpeaking, PushText, ClearBuffer,
        ClearPlayer, AwaitSilence, Pause, Resume, CheckStart, WriteStart, CheckStop,
        WriteStop, SetError, Update, Poll, CloseMicrophone, SendText, AwaitAudio,
        AwaitEnd, EraseText, Devices, SynthesizeText, FinishAudio, PublishPlayer,
        PublishRecorder, speech
<1> QED BY <1>1, AudioCorrect, PTL DEF Spec, SpeechEndsInSilence
----------------------------------------------------------------------------
(* The microphone.                                                         *)
LEMMA DeafInit == Init => DeafInv
BY DEF Init, DeafInv

(* While updateModule has a text in hand no handler turns the microphone   *)
(* on, and the only steps of updateModule itself are those of stopHearing. *)
LEMMA DeafStepOfThread ==
  ASSUME ~MayFail, TypeOK, DeafInv, OpensInTime, NEW t \in Threads, Step(t) PROVE DeafInv'
<1>1. UNCHANGED <<upc, micSeen>>
  BY DEF Step, RaiseSpeaking, PushText, ClearBuffer, ClearPlayer, AwaitSilence, Pause,
    Resume, CheckStart, WriteStart, CheckStop, WriteStop, SetError, update, devices
<1>2. CASE upc \notin {"send", "await", "playing"}
  BY <1>1, <1>2 DEF DeafInv
<1>3. CASE upc \in {"send", "await", "playing"}
  <2>1. ~WriteStart(t)
    BY <1>3 DEF WriteStart, OpensInTime, Working, UpdatePCs
  <2>2. CASE WriteStop(t)
    <3>1. mic' = FALSE
      BY <2>2 DEF WriteStop
    <3> QED BY <1>1, <3>1 DEF DeafInv
  <2>3. CASE ~WriteStop(t)
    <3>1. UNCHANGED mic
      BY <2>1, <2>3 DEF Step, RaiseSpeaking, PushText, ClearBuffer, ClearPlayer,
        AwaitSilence, Pause, Resume, CheckStart, CheckStop, SetError, devices
    <3>2. ASSUME upc = "send", mic PROVE todo'[Updater] \in {<<"stop?">>, <<"stop">>}
      <4>1. micSeen /\ todo[Updater] \in {<<"stop?">>, <<"stop">>}
        BY <3>2 DEF DeafInv
      <4>2. CASE t = Updater
        <5>1. Head(todo[t]) \in {"stop?", "stop"}
          BY <4>1, <4>2
        <5>2. CheckStop(t)
          BY <2>1, <2>3, <5>1 DEF Step, RaiseSpeaking, PushText, ClearBuffer, ClearPlayer,
            AwaitSilence, Pause, Resume, CheckStart, SetError, At
        <5>3. todo[t] = <<"stop?">> /\ todo'[t] = <<"stop">> \o Tail(<<"stop?">>)
          <6>1. todo[t] = <<"stop?">>
            BY <4>1, <4>2, <5>2 DEF CheckStop, At
          <6>2. todo'[t] = (IF micSeen THEN <<"stop">> ELSE <<>>) \o Tail(todo[t])
            BY <5>2 DEF CheckStop, Then, TypeOK
          <6> QED BY <4>1, <6>1, <6>2
        <5> QED BY <4>2, <5>3
      <4>3. CASE t # Updater
        <5>1. todo'[Updater] = todo[Updater]
          BY <2>1, <2>3, <4>3 DEF Step, RaiseSpeaking, PushText, ClearBuffer, ClearPlayer,
            AwaitSilence, Pause, Resume, CheckStart, CheckStop, SetError, Continue, Then,
            TypeOK, Threads
        <5> QED BY <4>1, <5>1
      <4> QED BY <4>2, <4>3
    <3> QED BY <1>1, <3>1, <3>2 DEF DeafInv
  <2> QED BY <2>2, <2>3
<1> QED BY <1>2, <1>3

LEMMA DeafStepOfUpdate ==
  ASSUME TypeOK, DeafInv, StatusInTime, Update PROVE DeafInv'
<1> USE DEF devices
<1>1. CASE CloseMicrophone
  <2>1. /\ UNCHANGED <<mic, micSeen>> /\ upc = "mic" /\ upc' = "send"
        /\ todo'[Updater] = IF micSeen THEN StopHearing ELSE <<>>
    BY <1>1 DEF CloseMicrophone, TypeOK, Threads
  <2>2. micSeen = mic
    BY <2>1 DEF StatusInTime
  <2> QED BY <2>1, <2>2 DEF DeafInv, StopHearing
<1>2. CASE SendText
  <2>1. ~mic
    BY <1>2 DEF SendText, DeafInv
  <2> QED BY <1>2, <2>1 DEF SendText, DeafInv
<1>3. CASE Poll \/ PickText \/ AwaitAudio \/ AwaitEnd \/ EraseText
  BY <1>3 DEF Poll, PickText, AwaitAudio, AwaitEnd, EraseText, DeafInv
<1> QED BY <1>1, <1>2, <1>3 DEF Update

LEMMA DeafStep ==
  ASSUME ~MayFail, TypeOK, DeafInv, OpensInTime, StatusInTime, [Next]_vars PROVE DeafInv'
<1>1. ASSUME NEW c \in Clients, NEW call \in Calls, Call(c, call) PROVE DeafInv'
  <2>1. UNCHANGED <<upc, mic, micSeen>> /\ todo'[Updater] = todo[Updater]
    BY <1>1, ConstantsOK DEF Call, update, devices, TypeOK, Threads
  <2> QED BY <2>1 DEF DeafInv
<1>2. ASSUME NEW status \in Statuses, Receive(status) PROVE DeafInv'
  <2>1. UNCHANGED <<upc, mic, micSeen>> /\ todo'[Updater] = todo[Updater]
    BY <1>2 DEF Receive, update, devices, TypeOK, Threads, Callback, Updater
  <2> QED BY <2>1 DEF DeafInv
<1>3. CASE Devices \/ UNCHANGED vars
  BY <1>3 DEF Devices, SynthesizeText, FinishAudio, PublishPlayer, PublishRecorder,
    DeafInv, vars, update, audio, devices
<1> QED BY <1>1, <1>2, <1>3, DeafStepOfThread, DeafStepOfUpdate DEF Next

(* When nobody turns the microphone on while a text is in hand, and the    *)
(* status is right at the one look updateModule takes at it, the stop it   *)
(* decides on is really made before the text is sent.                      *)
THEOREM MicrophoneCloses ==
  ~MayFail => (Spec /\ []OpensInTime /\ []StatusInTime => []DeafInv)
<1>1. CASE ~MayFail
  <2>1. TypeOK /\ DeafInv /\ OpensInTime /\ StatusInTime /\ [Next]_vars => DeafInv'
    BY <1>1, DeafStep
  <2> QED BY <2>1, DeafInit, TypeCorrect, PTL DEF Spec
<1>2. CASE MayFail
  BY <1>2, PTL
<1> QED BY <1>1, <1>2

(* The robot hears itself talk in two ways only, whatever else the clients *)
(* call and the google modules publish: the microphone is turned on when a *)
(* text is already in hand, or its status is stale when it is looked at.   *)
THEOREM RobotIsDeafWhileTalking == ~MayFail => (Spec => HearsOnlyOthers)
<1>1. AudioInv /\ DeafInv => DeafWhileTalking
  BY DEF AudioInv, DeafInv, DeafWhileTalking
<1>2. CASE ~MayFail
  <2>1. Spec /\ []OpensInTime /\ []StatusInTime => []DeafInv
    BY <1>2, MicrophoneCloses
  <2> QED BY <1>1, <2>1, AudioCorrect, PTL DEF HearsOnlyOthers
<1>3. CASE MayFail
  BY <1>3, PTL
<1> QED BY <1>2, <1>3
----------------------------------------------------------------------------
(* The texts of the buffer are younger than those that were sent.          *)
LEMMA OrderInit == Init => OrderInv
BY DEF Init, OrderInv, Working

(* A new text is younger than every text known so far.                     *)
LEMMA OrderStepOfThread ==
  ASSUME TypeOK, OrderInv, NEW t \in Threads, Step(t) PROVE OrderInv'
<1>1. UNCHANGED <<upc, str, sent>>
  BY DEF Step, RaiseSpeaking, PushText, ClearBuffer, ClearPlayer, AwaitSilence, Pause,
    Resume, CheckStart, WriteStart, CheckStop, WriteStop, SetError, update
<1>2. CASE PushText(t)
  <2>1. /\ buffer' = Append(buffer, said + 1)
        /\ DOMAIN buffer = 1..Len(buffer) /\ Len(buffer) \in Nat
        /\ DOMAIN buffer' = 1..(Len(buffer) + 1)
    BY <1>2 DEF PushText, TypeOK
  <2>2. /\ \A i \in DOMAIN buffer : buffer'[i] = buffer[i] /\ buffer[i] \in 1..said
        /\ buffer'[Len(buffer) + 1] = said + 1
    BY <1>2, <2>1 DEF PushText, TypeOK
  <2>3. \A i \in DOMAIN buffer' :
          \/ i \in DOMAIN buffer /\ buffer'[i] = buffer[i] /\ buffer[i] \in 1..said
          \/ i = Len(buffer) + 1 /\ buffer'[i] = said + 1
    BY <2>1, <2>2
  <2>4. said \in Nat /\ str \in 0..said /\ sent \in 0..said
    BY DEF TypeOK
  <2>5. \A i, j \in DOMAIN buffer' : i < j => buffer'[i] < buffer'[j]
    BY <2>1, <2>3, <2>4 DEF OrderInv
  <2>6. /\ upc \in {"poll", "pick"} => \A i \in DOMAIN buffer' : buffer'[i] > sent
        /\ Working => \A i \in DOMAIN buffer' : buffer'[i] >= str
    BY <2>3, <2>4 DEF OrderInv
  <2> QED BY <1>1, <2>5, <2>6 DEF OrderInv, Working
<1>3. CASE ClearBuffer(t)
  BY <1>1, <1>3 DEF ClearBuffer, OrderInv, Working
<1>4. CASE ~PushText(t) /\ ~ClearBuffer(t)
  <2>1. UNCHANGED buffer
    BY <1>4 DEF Step, RaiseSpeaking, ClearPlayer, AwaitSilence, Pause, Resume,
      CheckStart, WriteStart, CheckStop, WriteStop, SetError, speech
  <2> QED BY <1>1, <2>1 DEF OrderInv, Working
<1> QED BY <1>2, <1>3, <1>4

LEMMA OrderStepOfUpdate == TypeOK /\ OrderInv /\ Update => OrderInv'
<1> SUFFICES ASSUME TypeOK, OrderInv, Update PROVE OrderInv'
  OBVIOUS
<1> USE DEF Working, UpdatePCs, speech, update
<1>1. /\ Len(buffer) \in Nat /\ DOMAIN buffer = 1..Len(buffer)
      /\ \A i \in DOMAIN buffer : buffer[i] \in Nat
      /\ str \in Nat /\ sent \in Nat
  BY DEF TypeOK
<1>2. CASE PickText
  <2>1. CASE buffer # <<>>
    <3>1. str' = buffer[1] /\ 1 \in DOMAIN buffer /\ UNCHANGED <<buffer, sent>>
      BY <1>2, <2>1 DEF PickText, TypeOK
    <3>2. sent < str' /\ \A i \in DOMAIN buffer : buffer[i] >= str'
      BY <1>1, <1>2, <3>1 DEF OrderInv, PickText
    <3> QED BY <1>2, <2>1, <3>1, <3>2 DEF OrderInv, PickText
  <2>2. CASE buffer = <<>>
    BY <1>2, <2>2 DEF OrderInv, PickText
  <2> QED BY <2>1, <2>2
<1>3. CASE EraseText
  <2>1. sent = str /\ UNCHANGED <<str, sent>> /\ upc' = "poll"
    BY <1>3 DEF OrderInv, EraseText
  <2>2. CASE buffer # <<>>
    <3>1. /\ buffer' = Tail(buffer) /\ Len(buffer') = Len(buffer) - 1
          /\ DOMAIN buffer' = 1..(Len(buffer) - 1) /\ 1 \in DOMAIN buffer
          /\ \A i \in DOMAIN buffer' : buffer'[i] = buffer[i + 1]
      BY <1>3, <2>2 DEF EraseText, TypeOK
    <3>2. ASSUME NEW i \in DOMAIN buffer' PROVE buffer'[i] > sent
      <4>1. buffer[1] < buffer[i + 1] /\ i + 1 \in DOMAIN buffer
        BY <1>1, <3>1 DEF OrderInv
      <4>2. buffer[1] >= sent
        BY <1>3, <2>1, <3>1 DEF OrderInv, EraseText
      <4> QED BY <1>1, <3>1, <4>1, <4>2
    <3>3. \A i, j \in DOMAIN buffer' : i < j => buffer'[i] < buffer'[j]
      BY <1>1, <3>1 DEF OrderInv
    <3> QED BY <2>1, <3>2, <3>3 DEF OrderInv
  <2>3. CASE buffer = <<>>
    BY <1>3, <2>1, <2>3 DEF OrderInv, EraseText
  <2> QED BY <2>2, <2>3
<1>4. CASE SendText
  BY <1>4 DEF OrderInv, SendText
<1>5. CASE Poll \/ CloseMicrophone \/ AwaitAudio \/ AwaitEnd
  BY <1>5 DEF OrderInv, Poll, CloseMicrophone, AwaitAudio, AwaitEnd
<1> QED BY <1>2, <1>3, <1>4, <1>5 DEF Update

LEMMA OrderStep == TypeOK /\ OrderInv /\ [Next]_vars => OrderInv'
<1> SUFFICES ASSUME TypeOK, OrderInv, [Next]_vars PROVE OrderInv'
  OBVIOUS
<1>1. CASE Devices
  BY <1>1 DEF Devices, SynthesizeText, FinishAudio, PublishPlayer, PublishRecorder,
    OrderInv, Working, speech, update
<1>2. ASSUME NEW c \in Clients, NEW call \in Calls, Call(c, call) PROVE OrderInv'
  BY <1>2 DEF Call, OrderInv, Working, speech, update
<1>3. ASSUME NEW status \in Statuses, Receive(status) PROVE OrderInv'
  BY <1>3 DEF Receive, OrderInv, Working, speech, update
<1>4. CASE UNCHANGED vars
  BY <1>4 DEF OrderInv, Working, vars, speech, update
<1> QED BY <1>1, <1>2, <1>3, <1>4, OrderStepOfThread, OrderStepOfUpdate DEF Next

(* The buffer is always in the order of the says, and the text in hand is  *)
(* not younger than its front.                                             *)
THEOREM OrderCorrect == Spec => []OrderInv
BY TypeInit, TypeStep, OrderInit, OrderStep, PTL DEF Spec

(* Texts are sent in the order they were said, none twice.                 *)
THEOREM TextsAreSpokenInOrder == Spec => SpokenInOrder
<1>1. TypeOK /\ OrderInv /\ [Next]_vars /\ upc = "send" /\ upc' = "await" => sent' > sent
  <2> SUFFICES ASSUME TypeOK, OrderInv, [Next]_vars, upc = "send", upc' = "await"
               PROVE  SendText
    BY DEF SendText, OrderInv, TypeOK
  <2> QED BY DEF Next, vars, Call, Receive, Step, RaiseSpeaking, PushText, ClearBuffer,
        ClearPlayer, AwaitSilence, Pause, Resume, CheckStart, WriteStart, CheckStop,
        WriteStop, SetError, Update, Poll, PickText, CloseMicrophone, AwaitAudio,
        AwaitEnd, EraseText, Devices, SynthesizeText, FinishAudio, PublishPlayer,
        PublishRecorder, update
<1> QED BY <1>1, TypeCorrect, OrderCorrect, PTL DEF Spec, SpokenInOrder
----------------------------------------------------------------------------
(* What no reset disturbs.  Only a client can clear the buffer.            *)
LEMMA OnReadKeepsBuffer ==
  ASSUME NEW status \in AllStatuses
  PROVE  OnRead[status] \in Seq(KeepingSteps)
<1>1. /\ HappyFace \in Seq(KeepingSteps) /\ StartHearing \in Seq(KeepingSteps)
      /\ ErrorFace \in Seq(KeepingSteps) /\ <<>> \in Seq(KeepingSteps)
  BY DEF Steps, KeepingSteps, HappyFace, StartHearing, ErrorFace
<1>2. HappyFace \o StartHearing \in Seq(KeepingSteps) /\ ErrorFace \o StartHearing \in Seq(KeepingSteps)
  BY <1>1, ConcatProperties
<1>3. /\ OnRead["Busy"] \in {ErrorFace, <<>>}
      /\ OnRead["Empty"] = HappyFace \o StartHearing
      /\ OnRead["Done"] \in {ErrorFace, HappyFace}
      /\ OnRead["Failure"] = ErrorFace \o StartHearing
      /\ OnRead["unknown"] = ErrorFace
  BY DEF OnRead
<1> QED BY <1>1, <1>2, <1>3 DEF AllStatuses

LEMMA QueueInit == Init => QueueInv
<1> SUFFICES ASSUME Init PROVE QueueInv
  OBVIOUS
<1>1. buffer = <<>> /\ said = 0 /\ sent = 0 /\ upc = "poll"
  BY DEF Init
<1>2. <<>> \in Seq(KeepingSteps) /\ Len(<<>>) = 0 /\ DOMAIN <<>> = {}
  OBVIOUS
<1>3. \A t \in {Updater, Callback} : todo[t] = <<>>
  BY DEF Init, Threads
<1>4. Len(buffer) = 0 /\ DOMAIN buffer = {}
  BY <1>1, <1>2
<1>5. Erased = 0
  <2>1. Erased = 0 - 0
    BY <1>1, <1>4 DEF Erased
  <2> QED BY <2>1
<1>6. ~Working
  BY <1>1 DEF Working
<1>7. sent = IF upc \in {"await", "playing", "erase"} THEN str ELSE Erased
  BY <1>1, <1>5
<1>8. Len(buffer) <= said /\ \A i \in DOMAIN buffer : buffer[i] = Erased + i
  <2>1. 0 <= 0
    OBVIOUS
  <2> QED BY <1>1, <1>4, <2>1
<1>9. \A t \in {Updater, Callback} : todo[t] \in Seq(KeepingSteps)
  BY <1>2, <1>3
<1> QED BY <1>6, <1>7, <1>8, <1>9 DEF QueueInv

LEMMA QueueUnchanged ==
  ASSUME QueueInv, UNCHANGED <<buffer, said, upc, str, sent>>,
         \A t \in {Updater, Callback} : todo'[t] \in Seq(KeepingSteps)
  PROVE  QueueInv'
BY DEF QueueInv, Erased, Working, UpdatePCs

LEMMA QueueStepOfThread ==
  ASSUME TypeOK, QueueInv, NoReset, NEW t \in Threads, Step(t) PROVE QueueInv'
<1>0. UNCHANGED <<upc, str, sent>> /\ Working' = Working /\ todo[t] # <<>>
  BY DEF Step, RaiseSpeaking, PushText, ClearBuffer, ClearPlayer, AwaitSilence, Pause,
    Resume, CheckStart, WriteStart, CheckStop, WriteStop, SetError, At, update,
    Working, UpdatePCs
<1>1. ASSUME NEW u \in {Updater, Callback}
      PROVE  todo'[u] \in Seq(KeepingSteps)
  <2>1. todo[u] \in Seq(KeepingSteps) /\ u \in Threads
    BY DEF QueueInv, Threads
  <2>2. CASE t = u
    <3>1. Tail(todo[u]) \in Seq(KeepingSteps)
      BY <1>0, <2>1, <2>2, HeadTailTyped
    <3>2. ASSUME NEW more \in {<<"start">>, <<"stop">>, <<>>}
          PROVE  more \o Tail(todo[u]) \in Seq(KeepingSteps)
      <4>1. /\ <<"start">> \in Seq(KeepingSteps) /\ <<"stop">> \in Seq(KeepingSteps)
            /\ <<>> \in Seq(KeepingSteps)
        BY DEF Steps, KeepingSteps
      <4>2. more \in Seq(KeepingSteps)
        BY <4>1
      <4> QED BY <1>0, <2>1, <2>2, <4>2, MoreTyped
    <3>3. \/ todo'[u] = Tail(todo[u])
          \/ \E more \in {<<"start">>, <<"stop">>, <<>>} : todo'[u] = more \o Tail(todo[u])
      BY <2>1, <2>2 DEF Step, RaiseSpeaking, PushText, ClearBuffer, ClearPlayer,
        AwaitSilence, Pause, Resume, CheckStart, WriteStart, CheckStop, WriteStop,
        SetError, Continue, Then, TypeOK
    <3> QED BY <3>1, <3>2, <3>3
  <2>3. CASE t # u
    <3>1. todo'[u] = todo[u]
      BY <2>1, <2>3 DEF Step, RaiseSpeaking, PushText, ClearBuffer, ClearPlayer,
        AwaitSilence, Pause, Resume, CheckStart, WriteStart, CheckStop, WriteStop,
        SetError, Continue, Then, TypeOK
    <3> QED BY <2>1, <3>1
  <2> QED BY <2>2, <2>3
<1>2. CASE PushText(t)
  <2>1. /\ said' = said + 1 /\ buffer' = Append(buffer, said + 1) /\ said \in Nat
        /\ DOMAIN buffer = 1..Len(buffer) /\ Len(buffer) \in Nat
    BY <1>2 DEF PushText, TypeOK
  <2>2. /\ Len(buffer') = Len(buffer) + 1 /\ DOMAIN buffer' = 1..(Len(buffer) + 1)
        /\ buffer'[Len(buffer) + 1] = said + 1
        /\ \A i \in DOMAIN buffer : buffer'[i] = buffer[i]
    BY <2>1 DEF TypeOK
  <2>3. Erased' = Erased /\ Erased \in Int
    BY <2>1, <2>2 DEF Erased
  <2>4. ASSUME NEW i \in DOMAIN buffer' PROVE buffer'[i] = Erased + i
    BY <2>1, <2>2, <2>3 DEF QueueInv, Erased
  <2>5. buffer' # <<>> /\ Len(buffer') <= said'
    BY <2>1, <2>2 DEF QueueInv
  <2> QED BY <1>0, <1>1, <2>3, <2>4, <2>5 DEF QueueInv
<1>3. CASE ClearBuffer(t)
  <2>1. t \in {Updater, Callback}
    BY <1>3 DEF ClearBuffer, NoReset, Threads
  <2>2. Head(todo[t]) \in KeepingSteps
    BY <1>0, <2>1, HeadTailTyped DEF QueueInv
  <2> QED BY <1>3, <2>2 DEF ClearBuffer, At, KeepingSteps
<1>4. CASE ~PushText(t) /\ ~ClearBuffer(t)
  <2>1. UNCHANGED <<buffer, said>>
    BY <1>4 DEF Step, RaiseSpeaking, ClearPlayer, AwaitSilence, Pause, Resume,
      CheckStart, WriteStart, CheckStop, WriteStop, SetError, speech
  <2> QED BY <1>0, <1>1, <2>1, QueueUnchanged
<1> QED BY <1>2, <1>3, <1>4

LEMMA QueueStepOfUpdate ==
  ASSUME TypeOK, QueueInv, Update PROVE QueueInv'
<1>1. /\ Len(buffer) \in Nat /\ DOMAIN buffer = 1..Len(buffer)
      /\ said \in Nat /\ Erased \in Int
  BY DEF TypeOK, Erased
<1>2. \A t \in {Updater, Callback} : todo'[t] \in Seq(KeepingSteps)
  <2>1. StopHearing \in Seq(KeepingSteps) /\ <<>> \in Seq(KeepingSteps)
    BY DEF StopHearing, Steps, KeepingSteps
  <2>2. CASE CloseMicrophone
    <3>1. /\ todo'[Updater] \in {StopHearing, <<>>}
          /\ todo'[Callback] = todo[Callback]
      BY <2>2 DEF CloseMicrophone, TypeOK, Threads, Updater, Callback
    <3> QED BY <2>1, <3>1 DEF QueueInv
  <2>3. CASE ~CloseMicrophone
    BY <2>3 DEF Update, Poll, PickText, SendText, AwaitAudio, AwaitEnd, EraseText, QueueInv
  <2> QED BY <2>2, <2>3
<1>3. CASE PickText
  <2>1. CASE buffer # <<>>
    <3>1. /\ str' = buffer[1] /\ 1 \in DOMAIN buffer /\ upc' = "mic" /\ upc = "pick"
          /\ UNCHANGED <<buffer, said, sent>>
      BY <1>3, <2>1 DEF PickText, TypeOK
    <3>2. str' = Erased + 1 /\ Erased' = Erased /\ sent' = Erased
      BY <3>1 DEF QueueInv, Erased
    <3> QED BY <1>2, <2>1, <3>1, <3>2 DEF QueueInv
  <2>2. CASE buffer = <<>>
    <3>1. upc' = "poll" /\ upc = "pick" /\ UNCHANGED <<buffer, said, sent, str>>
      BY <1>3, <2>2 DEF PickText
    <3> QED BY <1>2, <3>1 DEF QueueInv, Erased, Working
  <2> QED BY <2>1, <2>2
<1>4. CASE EraseText
  <2>1. /\ buffer # <<>> /\ buffer' = Tail(buffer) /\ upc' = "poll"
        /\ UNCHANGED <<said, sent>> /\ sent = Erased + 1
    BY <1>4 DEF EraseText, QueueInv, Working, UpdatePCs
  <2>2. /\ Len(buffer') = Len(buffer) - 1 /\ DOMAIN buffer' = 1..(Len(buffer) - 1)
        /\ \A i \in DOMAIN buffer' : i + 1 \in DOMAIN buffer /\ buffer'[i] = buffer[i + 1]
    BY <2>1 DEF TypeOK
  <2>3. Erased' = Erased + 1
    BY <1>1, <2>1, <2>2 DEF Erased
  <2>4. ASSUME NEW i \in DOMAIN buffer' PROVE buffer'[i] = Erased' + i
    <3>1. buffer'[i] = Erased + (i + 1) /\ i \in Int
      BY <1>1, <2>2 DEF QueueInv
    <3> QED BY <1>1, <2>3, <3>1
  <2>5. Len(buffer') <= said'
    BY <1>1, <2>1, <2>2 DEF QueueInv
  <2>6. ~Working'
    BY <2>1 DEF Working
  <2> QED BY <1>2, <2>1, <2>3, <2>4, <2>5, <2>6 DEF QueueInv
<1>5. CASE SendText
  BY <1>2, <1>5 DEF SendText, QueueInv, Erased, Working, UpdatePCs, speech
<1>6. CASE Poll \/ CloseMicrophone \/ AwaitAudio \/ AwaitEnd
  <2>1. UNCHANGED <<buffer, said, str, sent, Erased>> /\ Working' = Working
    BY <1>6 DEF Poll, CloseMicrophone, AwaitAudio, AwaitEnd, Erased, Working,
      UpdatePCs, speech
  <2>2. upc' \in {"await", "playing", "erase"} <=> upc \in {"await", "playing", "erase"}
    BY <1>6 DEF Poll, CloseMicrophone, AwaitAudio, AwaitEnd
  <2> QED BY <1>2, <2>1, <2>2 DEF QueueInv
<1> QED BY <1>3, <1>4, <1>5, <1>6 DEF Update

LEMMA QueueStep ==
  ASSUME TypeOK, QueueInv, NoReset, [Next]_vars PROVE QueueInv'
<1>1. ASSUME NEW c \in Clients, NEW call \in Calls, Call(c, call) PROVE QueueInv'
  <2>1. \A t \in {Updater, Callback} : todo'[t] = todo[t]
    BY <1>1, ConstantsOK DEF Call, TypeOK, Threads
  <2> QED BY <1>1, <2>1, QueueUnchanged DEF Call, QueueInv, speech, update
<1>2. ASSUME NEW status \in Statuses, Receive(status) PROVE QueueInv'
  <2>1. OnRead[status] \in Seq(KeepingSteps)
    BY OnReadKeepsBuffer, ConstantsOK
  <2>2. todo'[Callback] = OnRead[status] /\ todo'[Updater] = todo[Updater]
    BY <1>2 DEF Receive, TypeOK, Threads, Callback, Updater
  <2> QED BY <1>2, <2>1, <2>2, QueueUnchanged DEF Receive, QueueInv, speech, update
<1>3. CASE Devices \/ UNCHANGED vars
  BY <1>3, QueueUnchanged DEF Devices, SynthesizeText, FinishAudio, PublishPlayer,
    PublishRecorder, QueueInv, vars, speech, update
<1> QED BY <1>1, <1>2, <1>3, QueueStepOfThread, QueueStepOfUpdate DEF Next

(* While nobody resets, the buffer is the texts from one number to the     *)
(* last one said, and updateModule speaks its first.                       *)
THEOREM QueueCorrect == Spec /\ []NoReset => []QueueInv
<1>1. TypeOK /\ QueueInv /\ NoReset /\ [Next]_vars => QueueInv'
  BY QueueStep
<1> QED BY <1>1, QueueInit, TypeCorrect, PTL DEF Spec

(* Without a reset the erase of updateModule removes the text it spoke, as *)
(* its log says: only a reset can make it remove another one.              *)
THEOREM RemovesWhatItSpokeUnlessReset == Spec /\ []NoReset => RemovesWhatItSpoke
<1>1. TypeOK /\ QueueInv /\ upc = "erase" /\ upc' = "poll" /\ buffer # <<>>
        => Head(buffer) = str
  <2> SUFFICES ASSUME TypeOK, QueueInv, upc = "erase", buffer # <<>>
               PROVE  Head(buffer) = str
    OBVIOUS
  <2>1. Head(buffer) = buffer[1] /\ 1 \in DOMAIN buffer
    BY DEF TypeOK
  <2> QED BY <2>1 DEF QueueInv, Working, UpdatePCs
<1> QED BY <1>1, TypeCorrect, QueueCorrect, PTL DEF RemovesWhatItSpoke

(* Without a reset updateModule sends every text, one after the other.     *)
THEOREM SpeaksTextByText == Spec /\ []NoReset => NoTextIsSkipped
<1>1. TypeOK /\ QueueInv /\ [Next]_vars /\ sent' # sent => sent' = sent + 1
  <2> SUFFICES ASSUME TypeOK, QueueInv, [Next]_vars, sent' # sent
               PROVE  sent' = sent + 1
    OBVIOUS
  <2>1. SendText
    BY DEF Next, vars, Call, Receive, Step, RaiseSpeaking, PushText, ClearBuffer,
      ClearPlayer, AwaitSilence, Pause, Resume, CheckStart, WriteStart, CheckStop,
      WriteStop, SetError, Update, Poll, PickText, CloseMicrophone, AwaitAudio,
      AwaitEnd, EraseText, Devices, SynthesizeText, FinishAudio, PublishPlayer,
      PublishRecorder, update
  <2> QED BY <2>1 DEF SendText, QueueInv, Working, UpdatePCs
<1> QED BY <1>1, TypeCorrect, QueueCorrect, PTL DEF Spec, NoTextIsSkipped
----------------------------------------------------------------------------
(* HeadSynchronizer implements SpeechQueue: a handler step that touches    *)
(* the texts is an Enqueue or a Clear, picking is a Take, erasing is a     *)
(* Finish, and everything else stutters.                                   *)
LEMMA PromiseInit == Init => Promise!QInit
BY DEF Init, Promise!QInit, Waiting, Current, Recalled, Working

LEMMA PromiseUnchanged ==
  ASSUME UNCHANGED <<buffer, said, upc, str>> PROVE UNCHANGED Promise!qvars
BY DEF Promise!qvars, Waiting, Current, Recalled, Working, UpdatePCs

LEMMA PromiseStepOfThread ==
  ASSUME TypeOK, NEW t \in Threads, Step(t)
  PROVE  [Promise!QNext]_(Promise!qvars)
<1>0. UNCHANGED <<upc, str>> /\ Working' = Working
  BY DEF Step, RaiseSpeaking, PushText, ClearBuffer, ClearPlayer, AwaitSilence, Pause,
    Resume, CheckStart, WriteStart, CheckStop, WriteStop, SetError, update,
    Working, UpdatePCs
<1>1. CASE PushText(t)
  <2>1. /\ said' = said + 1 /\ buffer' = Append(buffer, said')
        /\ said \in Nat /\ str \in 0..said
    BY <1>1 DEF PushText, TypeOK
  <2>2. CASE buffer = <<>>
    <3>1. Head(buffer') = said' /\ buffer' # <<>> /\ Head(buffer') # str
      BY <2>1, <2>2
    <3> QED BY <1>0, <2>1, <2>2, <3>1
              DEF Promise!QNext, Promise!Enqueue, Waiting, Current, Recalled
  <2>3. CASE buffer # <<>>
    <3>1. /\ Head(buffer') = Head(buffer) /\ buffer' # <<>>
          /\ Tail(buffer') = Append(Tail(buffer), said')
      <4>1. buffer \in Seq(1..said') /\ said' \in 1..said'
        BY <2>1, SeqWidens DEF TypeOK
      <4> QED BY <2>1, <2>3, <4>1, HeadTailAppend, AppendProperties
    <3>2. Recalled' = Recalled /\ Current' = Current
      BY <1>0, <2>3, <3>1 DEF Recalled, Current
    <3>3. Waiting' = Append(Waiting, said')
      BY <1>0, <2>1, <3>1, <3>2 DEF Waiting
    <3> QED BY <2>1, <3>2, <3>3 DEF Promise!QNext, Promise!Enqueue
  <2> QED BY <2>2, <2>3
<1>2. CASE ClearBuffer(t)
  <2>1. buffer' = <<>> /\ UNCHANGED said /\ (Working => str # 0)
    BY <1>2 DEF ClearBuffer, TypeOK
  <2>2. Waiting' = <<>> /\ Current' = Current
    BY <1>0, <2>1 DEF Current, Waiting
  <2>3. Recalled' = (Current # 0)
    BY <1>0, <2>1 DEF Recalled, Current, Working
  <2> QED BY <2>1, <2>2, <2>3 DEF Promise!QNext, Promise!Clear
<1>3. CASE ~PushText(t) /\ ~ClearBuffer(t)
  <2>1. UNCHANGED <<buffer, said, upc, str>>
    BY <1>3 DEF Step, RaiseSpeaking, ClearPlayer, AwaitSilence, Pause, Resume,
      CheckStart, WriteStart, CheckStop, WriteStop, SetError, speech, update
  <2> QED BY <2>1, PromiseUnchanged
<1> QED BY <1>1, <1>2, <1>3

LEMMA PromiseStepOfUpdate ==
  ASSUME TypeOK, Update PROVE [Promise!QNext]_(Promise!qvars)
<1>1. CASE PickText
  <2>1. CASE buffer # <<>>
    <3>1. /\ upc' = "mic" /\ str' = Head(buffer) /\ UNCHANGED <<buffer, said>>
          /\ ~Working /\ Working'
      BY <1>1, <2>1 DEF PickText, Working, UpdatePCs
    <3>2. /\ Current = 0 /\ Waiting = buffer /\ Current' = Head(buffer)
          /\ Waiting' = Tail(buffer)
      BY <2>1, <3>1 DEF Current, Recalled, Waiting
    <3>3. Recalled' = Recalled
      BY <2>1, <3>1 DEF Recalled, Working
    <3> QED BY <2>1, <3>1, <3>2, <3>3 DEF Promise!QNext, Promise!Take
  <2>2. CASE buffer = <<>>
    <3>1. UNCHANGED <<buffer, said, str>> /\ ~Working /\ ~Working'
      BY <1>1, <2>2 DEF PickText, Working, UpdatePCs
    <3> QED BY <3>1 DEF Promise!qvars, Waiting, Current, Recalled
  <2> QED BY <2>1, <2>2
<1>2. CASE EraseText
  <2>1. /\ UNCHANGED <<said, str>> /\ Working /\ ~Working' /\ str # 0
        /\ buffer' = IF buffer # <<>> THEN Tail(buffer) ELSE buffer
    BY <1>2 DEF EraseText, Working, UpdatePCs, TypeOK
  <2>2. /\ Current = str /\ Current' = 0 /\ Recalled' = FALSE
        /\ Waiting' = buffer'
    BY <2>1 DEF Current, Recalled, Waiting
  <2>3. Waiting' = IF Recalled /\ Waiting # <<>> THEN Tail(Waiting) ELSE Waiting
    BY <2>1, <2>2 DEF Recalled, Waiting
  <2> QED BY <2>1, <2>2, <2>3 DEF Promise!QNext, Promise!Finish
<1>3. CASE Poll
  <2>1. UNCHANGED <<buffer, said, str>> /\ ~Working /\ ~Working'
    BY <1>3 DEF Poll, Working, UpdatePCs, speech
  <2> QED BY <2>1 DEF Promise!qvars, Waiting, Current, Recalled
<1>4. CASE CloseMicrophone \/ SendText \/ AwaitAudio \/ AwaitEnd
  <2>1. UNCHANGED <<buffer, said, str>> /\ Working /\ Working'
    BY <1>4 DEF CloseMicrophone, SendText, AwaitAudio, AwaitEnd, Working,
      UpdatePCs, speech
  <2> QED BY <2>1 DEF Promise!qvars, Waiting, Current, Recalled
<1> QED BY <1>1, <1>2, <1>3, <1>4 DEF Update

LEMMA PromiseStep ==
  TypeOK /\ [Next]_vars => [Promise!QNext]_(Promise!qvars)
<1> SUFFICES ASSUME TypeOK, [Next]_vars PROVE [Promise!QNext]_(Promise!qvars)
  OBVIOUS
<1>1. CASE \/ Devices \/ UNCHANGED vars
           \/ \E c \in Clients, call \in Calls : Call(c, call)
           \/ \E status \in Statuses : Receive(status)
  <2>1. UNCHANGED <<buffer, said, upc, str>>
    BY <1>1 DEF Devices, SynthesizeText, FinishAudio, PublishPlayer, PublishRecorder,
      Call, Receive, vars, speech, update
  <2> QED BY <2>1, PromiseUnchanged
<1> QED BY <1>1, PromiseStepOfThread, PromiseStepOfUpdate DEF Next

(* The module keeps the promise of a queue of texts: each step of its      *)
(* threads and devices is a step of SpeechQueue or a stutter.              *)
THEOREM ImplementsSpeechQueue == Spec => KeepsThePromise
BY TypeCorrect, PromiseInit, PromiseStep, PTL DEF Spec, KeepsThePromise, Promise!QSpec
=============================================================================
