------------------------ MODULE VoiceActivationProofs ------------------------
(***************************************************************************)
(* What holds of VoiceActivation for any size of the buffer and any sounds.*)
(***************************************************************************)
EXTENDS VoiceActivation, SequenceTheorems, TLAPS

LEMMA TailTyped ==
  ASSUME NEW S, NEW s \in Seq(S), s # <<>>
  PROVE  /\ Head(s) \in S /\ Tail(s) \in Seq(S)
         /\ Len(s) \in Nat \ {0} /\ Len(Tail(s)) = Len(s) - 1
         /\ Len(s) > 1 => Tail(s) # <<>>
<1>1. /\ Head(s) \in S /\ Tail(s) \in Seq(S) /\ Len(Tail(s)) = Len(s) - 1
  BY HeadTailProperties
<1>2. Len(s) \in Nat /\ Len(s) # 0
  OBVIOUS
<1>3. Len(s) > 1 => Tail(s) # <<>>
  <2>1. Len(s) > 1 => Len(Tail(s)) # 0
    BY <1>1, <1>2
  <2>2. Len(<<>>) = 0
    BY EmptySeq
  <2> QED BY <2>1, <2>2
<1>4. Len(s) \in Nat \ {0}
  BY <1>2
<1> QED BY <1>1, <1>3, <1>4

(* A packet ends, a sound ends: the queues stay what they are.             *)
LEMMA NextPacketTyped ==
  ASSUME TypeOK, ppc # "idle", NextPacket
  PROVE  /\ rest' \in Seq(Packets) /\ soundToProcess' \in Seq(Seq(Packets))
         /\ ppc' \in {"idle", "packet"}
         /\ ppc' # "idle" => rest' # <<>> /\ soundToProcess' # <<>>
<1>1. /\ Tail(rest) \in Seq(Packets) /\ (Len(rest) > 1 => Tail(rest) # <<>>)
      /\ Tail(soundToProcess) \in Seq(Seq(Packets))
  BY TailTyped DEF TypeOK
<1> QED BY <1>1 DEF TypeOK, NextPacket

(* What the processor does with one packet.                                *)
LEMMA PacketTyped ==
  ASSUME TypeOK, ProcessPacket PROVE TypeOK'
<1> USE DEF TypeOK
<1>0. /\ UNCHANGED <<recorder, microphoneOpen, reopening>>
      /\ BufferSize \in Nat \ {0} /\ rest # <<>> /\ Head(rest) \in Packets
  BY TailTyped, VadConstantsOK DEF ProcessPacket
<1>1. CASE Utter
  BY <1>0, <1>1 DEF Utter, ProcessPacket, recorder, utterance, reopening
<1>2. ASSUME NextPacket, soundToSend' \in Seq(Packets), soundDetected' \in BOOLEAN,
             padding' \in 0..BufferSize
      PROVE  TypeOK'
  <2>1. ppc # "idle"
    BY DEF ProcessPacket
  <2> QED BY <1>0, <1>2, <2>1, NextPacketTyped DEF recorder, reopening
<1>3. \A p \in Packets, s \in Seq(Packets) : Append(s, p) \in Seq(Packets)
  OBVIOUS
<1>4. "voice" \in Packets /\ "silence" \in Packets
  BY DEF Packets
<1>5. CASE Voice
  BY <1>0, <1>2, <1>3, <1>4, <1>5 DEF Voice
<1>6. CASE SilenceAfter
  <2>1. CASE padding < BufferSize
    <3>1. NextPacket /\ padding' = padding + 1 /\ UNCHANGED soundDetected
          /\ soundToSend' = Append(soundToSend, "silence")
      BY <1>6, <2>1 DEF SilenceAfter
    <3>2. padding' \in 0..BufferSize /\ soundToSend' \in Seq(Packets)
      BY <1>0, <1>3, <1>4, <2>1, <3>1
    <3> QED BY <1>2, <3>1, <3>2
  <2>2. CASE ~(padding < BufferSize)
    BY <1>1, <1>6, <2>2 DEF SilenceAfter
  <2> QED BY <2>1, <2>2
<1>7. CASE SilenceBefore
  <2>1. Len(soundToSend) = BufferSize => Tail(soundToSend) \in Seq(Packets)
    BY <1>0, TailTyped
  <2>2. soundToSend' \in Seq(Packets)
    BY <1>3, <1>4, <1>7, <2>1 DEF SilenceBefore
  <2> QED BY <1>2, <1>7, <2>2 DEF SilenceBefore
<1>8. CASE Invalid
  <2>1. CASE soundDetected
    BY <1>1, <1>8, <2>1 DEF Invalid
  <2>2. CASE ~soundDetected
    <3>1. NextPacket /\ soundToSend' = <<>> /\ UNCHANGED <<soundDetected, padding>>
      BY <1>8, <2>2 DEF Invalid
    <3>2. soundToSend' \in Seq(Packets)
      BY <3>1
    <3> QED BY <1>2, <3>1, <3>2
  <2> QED BY <2>1, <2>2
<1>9. CASE Skip
  BY <1>2, <1>9 DEF Skip, utterance
<1> QED BY <1>5, <1>6, <1>7, <1>8, <1>9 DEF ProcessPacket

(* Every variable keeps its type; the processor never looks at a packet or *)
(* a sound that is not there.                                              *)
LEMMA TypeInit == Init => TypeOK
<1> SUFFICES ASSUME Init PROVE TypeOK
  OBVIOUS
<1>1. <<>> \in Seq(Seq(Packets)) /\ <<>> \in Seq(Packets)
  OBVIOUS
<1>2. /\ soundIn \in Seq(Seq(Packets)) /\ soundToProcess \in Seq(Seq(Packets))
      /\ rest \in Seq(Packets) /\ soundToSend \in Seq(Packets)
  BY <1>1 DEF Init
<1>3. padding \in 0..BufferSize
  BY VadConstantsOK DEF Init
<1>4. needsToStart \in BOOLEAN
  BY DEF Init
<1> QED BY <1>2, <1>3, <1>4 DEF Init, TypeOK

LEMMA TypeStep == TypeOK /\ [Next]_vars => TypeOK'
<1> SUFFICES ASSUME TypeOK, [Next]_vars PROVE TypeOK'
  OBVIOUS
<1> USE DEF TypeOK, recorder, processor, utterance, reopening
<1>1. CASE PublishStatus \/ StartHearing \/ StopHearing
  BY <1>1 DEF PublishStatus, StartHearing, StopHearing
<1>2. ASSUME NEW sound \in Sounds, Record(sound) PROVE TypeOK'
  <2>1. <<sound>> \in Seq(Seq(Packets))
    BY VadConstantsOK
  <2> QED BY <1>2, <2>1 DEF Record
<1>3. CASE AddSound
  <2>1. Append(soundToProcess, Head(soundIn)) \in Seq(Seq(Packets))
    BY <1>3, TailTyped DEF AddSound
  <2> QED BY <1>3, <2>1 DEF AddSound, ProcessorMutexFree
<1>4. CASE TakeSound
  <2>1. Head(soundToProcess) \in Seq(Packets) /\ Tail(soundToProcess) \in Seq(Seq(Packets))
    BY <1>4, TailTyped DEF TakeSound
  <2> QED BY <1>4, <2>1 DEF TakeSound
<1>5. CASE CloseMicrophone
  BY <1>5 DEF CloseMicrophone
<1>6. CASE SendSound
  <2>1. ppc = "send" /\ NextPacket
    BY <1>6 DEF SendSound
  <2>2. /\ rest' \in Seq(Packets) /\ soundToProcess' \in Seq(Seq(Packets))
        /\ ppc' \in {"idle", "packet"}
        /\ ppc' # "idle" => rest' # <<>> /\ soundToProcess' # <<>>
    BY <2>1, NextPacketTyped
  <2>3. padding' \in 0..BufferSize /\ soundToSend' \in Seq(Packets)
    BY <1>6, VadConstantsOK DEF SendSound
  <2>4. /\ UNCHANGED <<mic, statusIn, soundIn, spc, justClosed, needsToStart>>
        /\ microphoneOpen' = FALSE /\ soundDetected' = FALSE
    BY <1>6 DEF SendSound
  <2> QED BY <2>2, <2>3, <2>4
<1>7. CASE StatusCallback
  BY <1>7 DEF StatusCallback, OnFail, OnOk, OpenMicrophone
<1>8. CASE UNCHANGED vars
  BY <1>8 DEF vars
<1> QED BY <1>1, <1>2, <1>3, <1>4, <1>5, <1>6, <1>7, <1>8, PacketTyped
        DEF Next, Outside, Processor

(* Types, for every size of the buffer and every sound; the processor      *)
(* stands where its code can.                                              *)
THEOREM TypeCorrect == Spec => []TypeOK
BY TypeInit, TypeStep, PTL DEF Spec

----------------------------------------------------------------------------
(* The way back from a closed microphone.                                  *)
LEMMA ProcessPacketFrame ==
  ASSUME ProcessPacket
  PROVE  /\ ppc = "packet" /\ ppc' \in {"idle", "packet", "close"}
         /\ UNCHANGED <<microphoneOpen, spc, justClosed, needsToStart>>
         /\ ppc' = "close" => microphoneOpen /\ Utter
BY DEF ProcessPacket, Voice, SilenceAfter, SilenceBefore, Invalid, Skip, Utter,
  NextPacket, reopening

LEMMA ReopenStep == ReopenInv /\ [Next]_vars => ReopenInv'
<1> SUFFICES ASSUME ReopenInv, [Next]_vars PROVE ReopenInv'
  OBVIOUS
<1>1. CASE ProcessPacket
  BY <1>1, ProcessPacketFrame DEF ReopenInv
<1>2. CASE ~ProcessPacket
  BY <1>2 DEF ReopenInv, Next, vars, Outside, PublishStatus, StartHearing, StopHearing,
    Record, AddSound, Processor, TakeSound, CloseMicrophone, SendSound, NextPacket,
    StatusCallback, OnFail, OnOk, OpenMicrophone, ProcessorMutexFree,
    recorder, processor, utterance, reopening
<1> QED BY <1>1, <1>2

(* The module is never deaf without a way back.                            *)
THEOREM ClosedIsReopened == Spec => []SomeoneReopens
<1>1. Init => ReopenInv
  BY DEF Init, ReopenInv
<1>2. ReopenInv => SomeoneReopens
  BY DEF ReopenInv, SomeoneReopens
<1> QED BY <1>1, <1>2, ReopenStep, PTL DEF Spec

(* Without late statuses the two mutexes are never waited for in a circle, *)
(* even when the recorder restarts early or ignores a stop.                *)
LEMMA MutexStep == MutexInv /\ [Next]_vars => MutexInv'
<1> SUFFICES ASSUME MutexInv, [Next]_vars PROVE MutexInv'
  OBVIOUS
<1>1. CASE ProcessPacket
  BY <1>1, ProcessPacketFrame DEF MutexInv
<1>2. CASE TakeSound
  BY <1>2 DEF MutexInv, TakeSound, reopening
<1>3. CASE CloseMicrophone
  BY <1>3 DEF MutexInv, CloseMicrophone
<1>4. CASE SendSound
  BY <1>4 DEF MutexInv, SendSound, NextPacket, reopening
<1>5. CASE OnFail
  BY <1>5 DEF MutexInv, OnFail, processor
<1>6. CASE OnOk
  BY <1>6 DEF MutexInv, OnOk, processor
<1>7. CASE OpenMicrophone
  BY <1>7 DEF MutexInv, OpenMicrophone, ProcessorMutexFree, processor
<1>8. CASE Outside \/ AddSound \/ UNCHANGED vars
  BY <1>8 DEF MutexInv, Outside, PublishStatus, StartHearing, StopHearing, Record,
    AddSound, vars, processor, reopening
<1> QED BY <1>1, <1>2, <1>3, <1>4, <1>5, <1>6, <1>7, <1>8
        DEF Next, Processor, StatusCallback

(* If the first status comes before the first sound, the callback and the  *)
(* processor never wait for each other's mutex.                            *)
THEOREM MutexesDoNotCycle ==
  ASSUME "lateStatus" \notin Adversities PROVE Spec => []NoMutexCycle
<1>1. Init => MutexInv
  BY DEF Init, MutexInv
<1>2. MutexInv => NoMutexCycle
  BY DEF MutexInv, NoMutexCycle
<1> QED BY <1>1, <1>2, MutexStep, PTL DEF Spec

----------------------------------------------------------------------------
(* What the processor keeps.                                               *)
LEMMA AppendKept ==
  ASSUME NEW s \in Seq(Packets), NEW p \in Packets
  PROVE  /\ Len(s) \in Nat /\ Len(Append(s, p)) = Len(s) + 1
         /\ Append(s, p)[Len(s) + 1] = p
         /\ \A i \in 1 .. Len(s) : Append(s, p)[i] = s[i]
BY AppendProperties

LEMMA SilenceThenVoice ==
  ASSUME NEW s \in Seq(Packets), SilenceKept(s)
  PROVE  SpeechKept(Append(s, "voice"), 0)
<1>1. "voice" \in Packets
  BY DEF Packets
<1> DEFINE t == Append(s, "voice")
           i == Len(s) + 1
<1>2. i \in 1 .. BufferSize + 1 /\ i <= Len(t) /\ t[i] = "voice"
  BY <1>1, AppendKept, VadConstantsOK DEF SilenceKept
<1>3. \A j \in 1 .. i - 1 : t[j] = "silence"
  BY <1>1, AppendKept DEF SilenceKept
<1> HIDE DEF i
<1>4. \E k \in 1 .. BufferSize + 1 :
        k <= Len(t) /\ t[k] = "voice" /\ \A j \in 1 .. k - 1 : t[j] = "silence"
  BY <1>2, <1>3
<1>5. 0 < Len(t) /\ t[Len(t) - 0] = "voice" /\ Len(t) - 0 + 1 .. Len(t) = {}
  BY <1>1, AppendKept
<1> QED BY <1>4, <1>5 DEF SpeechKept

(* Speech stays padded speech when a voiced packet, or a silent one, is    *)
(* added to it.                                                            *)
LEMMA SpeechThenPacket ==
  ASSUME NEW s \in Seq(Packets), NEW p \in Nat, SpeechKept(s, p),
         NEW packet \in {"voice", "silence"}
  PROVE  SpeechKept(Append(s, packet), IF packet = "voice" THEN 0 ELSE p + 1)
<1>1. packet \in Packets
  BY DEF Packets
<1> DEFINE t == Append(s, packet)
           q == IF packet = "voice" THEN 0 ELSE p + 1
<1>2. PICK i \in 1 .. BufferSize + 1 :
        i <= Len(s) /\ s[i] = "voice" /\ \A j \in 1 .. i - 1 : s[j] = "silence"
  BY DEF SpeechKept
<1>3. i <= Len(t) /\ t[i] = "voice" /\ \A j \in 1 .. i - 1 : t[j] = "silence"
  BY <1>1, <1>2, AppendKept, VadConstantsOK
<1>4. q < Len(t) /\ t[Len(t) - q] = "voice"
  <2>1. CASE packet = "voice"
    BY <1>1, <2>1, AppendKept
  <2>2. CASE packet = "silence"
    BY <1>1, <2>2, AppendKept DEF SpeechKept
  <2> QED BY <2>1, <2>2
<1>5. ASSUME NEW k \in Len(t) - q + 1 .. Len(t) PROVE t[k] = "silence"
  <2>1. CASE packet = "voice"
    BY <1>1, <2>1, AppendKept
  <2>2. CASE packet = "silence"
    <3>1. Len(t) = Len(s) + 1 /\ q = p + 1 /\ Len(s) \in Nat /\ p < Len(s)
      BY <1>1, <2>2, AppendKept DEF SpeechKept
    <3>2. k = Len(s) + 1 \/ (k \in 1 .. Len(s) /\ k \in Len(s) - p + 1 .. Len(s))
      BY <3>1
    <3> QED BY <1>1, <2>2, <3>2, AppendKept DEF SpeechKept
  <2> QED BY <2>1, <2>2
<1>6. SpeechKept(t, q)
  <2> HIDE DEF t, q
  <2> QED BY <1>2, <1>3, <1>4, <1>5 DEF SpeechKept
<1> QED BY <1>6

LEMMA SilenceThenSilence ==
  ASSUME NEW s \in Seq(Packets), SilenceKept(s)
  PROVE  SilenceKept(Append(IF Len(s) = BufferSize THEN Tail(s) ELSE s, "silence"))
<1>1. "silence" \in Packets
  BY DEF Packets
<1>2. CASE Len(s) = BufferSize
  <2>1. s # <<>> /\ Tail(s) \in Seq(Packets) /\ Len(Tail(s)) = Len(s) - 1
    BY <1>2, VadConstantsOK, HeadTailProperties, EmptySeq
  <2>2. \A i \in 1 .. Len(Tail(s)) : Tail(s)[i] = "silence"
    BY <2>1, HeadTailProperties DEF SilenceKept
  <2> QED BY <1>1, <1>2, <2>1, <2>2, AppendKept, VadConstantsOK DEF SilenceKept
<1>3. CASE Len(s) # BufferSize
  BY <1>1, <1>3, AppendKept, VadConstantsOK DEF SilenceKept
<1> QED BY <1>2, <1>3

LEMMA NothingKept == SilenceKept(<<>>)
BY VadConstantsOK DEF SilenceKept

LEMMA KeptStep == TypeOK /\ PacketsKept /\ [Next]_vars => PacketsKept'
<1> SUFFICES ASSUME TypeOK, PacketsKept, [Next]_vars PROVE PacketsKept'
  OBVIOUS
<1>0. soundToSend \in Seq(Packets) /\ padding \in Nat /\ soundDetected \in BOOLEAN
  BY VadConstantsOK DEF TypeOK
<1>1. CASE UNCHANGED utterance
  BY <1>1 DEF PacketsKept, utterance
<1>2. CASE SendSound
  BY <1>2, NothingKept DEF PacketsKept, SendSound
<1>3. CASE Voice
  <2>1. /\ soundDetected' = TRUE /\ padding' = 0
        /\ soundToSend' = Append(soundToSend, "voice")
    BY <1>3 DEF Voice
  <2>2. SpeechKept(Append(soundToSend, "voice"), 0)
    BY <1>0, SilenceThenVoice, SpeechThenPacket DEF PacketsKept
  <2> QED BY <2>1, <2>2 DEF PacketsKept
<1>4. CASE SilenceAfter
  <2>1. CASE padding < BufferSize
    <3>1. /\ soundDetected /\ soundDetected' /\ padding' = padding + 1
          /\ soundToSend' = Append(soundToSend, "silence")
      BY <1>4, <2>1 DEF SilenceAfter
    <3>2. SpeechKept(soundToSend, padding)
      BY <3>1 DEF PacketsKept
    <3>3. SpeechKept(Append(soundToSend, "silence"),
                     IF "silence" = "voice" THEN 0 ELSE padding + 1)
      BY <1>0, <3>2, SpeechThenPacket
    <3>4. SpeechKept(Append(soundToSend, "silence"), padding + 1)
      BY <3>3
    <3> QED BY <3>1, <3>4 DEF PacketsKept
  <2>2. CASE ~(padding < BufferSize)
    BY <1>1, <1>4, <2>2 DEF SilenceAfter, Utter
  <2> QED BY <2>1, <2>2
<1>5. CASE SilenceBefore
  <2>1. padding' = 0 /\ ~soundDetected /\ ~soundDetected'
    BY <1>5 DEF PacketsKept, SilenceBefore
  <2>2. SilenceKept(soundToSend')
    BY <1>0, <1>5, <2>1, SilenceThenSilence DEF PacketsKept, SilenceBefore
  <2> QED BY <2>1, <2>2 DEF PacketsKept
<1>6. CASE Invalid
  <2>1. CASE soundDetected
    BY <1>1, <1>6, <2>1 DEF Invalid, Utter
  <2>2. CASE ~soundDetected
    BY <1>6, <2>2, NothingKept DEF Invalid, PacketsKept
  <2> QED BY <2>1, <2>2
<1>7. \/ UNCHANGED utterance \/ SendSound
      \/ Voice \/ SilenceAfter \/ SilenceBefore \/ Invalid
  BY DEF Next, vars, Outside, PublishStatus, StartHearing, StopHearing, Record, AddSound,
    Processor, TakeSound, ProcessPacket, Skip, CloseMicrophone, StatusCallback, OnFail,
    OnOk, OpenMicrophone, utterance
<1> QED BY <1>1, <1>2, <1>3, <1>4, <1>5, <1>6, <1>7

(* An utterance in the making is always well formed.                       *)
THEOREM UtterancesAreCutRight == Spec => []PacketsKept
<1>1. Init => PacketsKept
  BY NothingKept DEF Init, PacketsKept
<1> QED BY <1>1, TypeInit, TypeStep, KeptStep, PTL DEF Spec

(* Only an invalid packet cuts the padding behind the speech short.        *)
THEOREM UtterancesAreWhole == Spec => []WholeUtterance
<1>1. Init => WholeUtterance
  BY DEF Init, WholeUtterance
<1>2. TypeOK /\ WholeUtterance /\ [Next]_vars => WholeUtterance'
  <2> SUFFICES ASSUME TypeOK, WholeUtterance, [Next]_vars, ppc' = "close"
               PROVE  soundDetected' /\ (padding' = BufferSize \/ Head(rest') = "invalid")
    BY DEF WholeUtterance
  <2>1. CASE ProcessPacket
    <3>1. Utter /\ microphoneOpen
      BY <2>1, ProcessPacketFrame
    <3>2. Voice \/ SilenceAfter \/ SilenceBefore \/ Invalid
      BY <2>1, <3>1 DEF ProcessPacket
    <3>3. ~Voice /\ ~SilenceBefore
      BY DEF Voice, SilenceBefore, NextPacket
    <3>4. SilenceAfter \/ Invalid => soundDetected /\ (padding = BufferSize \/ Head(rest) = "invalid")
      BY VadConstantsOK DEF SilenceAfter, Invalid, NextPacket, TypeOK
    <3> QED BY <3>1, <3>2, <3>3, <3>4 DEF Utter, utterance
  <2>2. CASE ~ProcessPacket
    <3>1. ppc = "close" /\ UNCHANGED <<rest, utterance>>
      BY <2>2 DEF Next, vars, Outside, PublishStatus, StartHearing, StopHearing, Record,
        AddSound, Processor, TakeSound, CloseMicrophone, SendSound, NextPacket,
        StatusCallback, OnFail, OnOk, OpenMicrophone, ProcessorMutexFree, processor
    <3> QED BY <3>1 DEF WholeUtterance, utterance
  <2> QED BY <2>1, <2>2
<1> QED BY <1>1, <1>2, TypeInit, TypeStep, PTL DEF Spec
==============================================================================
