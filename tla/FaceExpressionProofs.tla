------------------------ MODULE FaceExpressionProofs ------------------------
(***************************************************************************)
(* What holds of FaceExpression for any requests.                          *)
(***************************************************************************)
EXTENDS FaceExpression, SequenceTheorems, TLAPS

RequestSteps == Seq(Operations \X Parts)

(* The mouth's thread holds the drawing mutex exactly from its clearing to *)
(* its drawing, and has the methods mutex then.                            *)
MouthHolds == drawing = "mouth" <=> at["mouth"] \in {"clear", "draw"}

Places == {"period", "locked", "clear", "draw", "blink"}
Holders == {"free", "mouth", "sender"}

FaceInv == TypeOK /\ MouthHolds

----------------------------------------------------------------------------
(* The steps of the requests.                                              *)

LEMMA OneStep ==
  ASSUME NEW operation \in Operations, NEW part \in Parts
  PROVE  << <<operation, part>> >> \in RequestSteps
BY DEF RequestSteps

LEMMA Joined ==
  ASSUME NEW r \in RequestSteps, NEW s \in RequestSteps
  PROVE  r \o s \in RequestSteps
BY ConcatProperties DEF RequestSteps

LEMMA MethodSteps ==
  ASSUME NEW part \in Parts, NEW on \in BOOLEAN
  PROVE  /\ EnableDrawing(part, on) \in RequestSteps
         /\ Activate(part, on) \in RequestSteps
         /\ ResetEarsSteps \in RequestSteps
<1>1. Operations = {"enable", "disable", "clear", "on", "off", "reset", "rest", "draw", "set"}
  BY DEF Operations
<1>2. /\ << <<"enable", part>> >> \in RequestSteps
      /\ << <<"disable", part>>, <<"clear", part>> >> \in RequestSteps
  BY <1>1 DEF RequestSteps
<1>3. EnableDrawing(part, on) \in RequestSteps
  BY <1>2 DEF EnableDrawing
<1>4. << <<"on", part>> >> \in RequestSteps /\ << <<"off", part>> >> \in RequestSteps
  BY <1>1 DEF RequestSteps
<1>5. Activate(part, on) \in RequestSteps
  BY <1>4 DEF Activate
<1>6. ResetEarsSteps \in RequestSteps
  BY <1>1 DEF ResetEarsSteps, RequestSteps, Parts
<1> QED BY <1>3, <1>5, <1>6

LEMMA PartSteps ==
  ASSUME NEW on \in BOOLEAN
  PROVE  /\ StartBlinking(on) \in RequestSteps
         /\ StartTalking(on) \in RequestSteps
         /\ StartListening(on) \in RequestSteps
<1>1. "eyes" \in Parts /\ "ears" \in Parts /\ "mouth" \in Parts /\ <<>> \in RequestSteps
  BY DEF Parts, RequestSteps
<1>2. << <<"rest", "eyes">> >> \in RequestSteps /\ << <<"reset", "mouth">> >> \in RequestSteps
  BY <1>1, OneStep DEF Operations
<1>3. StartBlinking(on) \in RequestSteps
  BY <1>1, <1>2, MethodSteps, Joined, Zenon DEF StartBlinking
<1>4. StartTalking(on) \in RequestSteps
  BY <1>1, <1>2, MethodSteps, Joined, Zenon DEF StartTalking
<1>5. StartListening(on) \in RequestSteps
  BY <1>1, <1>2, MethodSteps, Joined, Zenon DEF StartListening
<1> QED BY <1>3, <1>4, <1>5

LEMMA FaceSteps ==
  ResetDefault \in RequestSteps /\ BlackScreen \in RequestSteps
<1>1. /\ "eyes" \in Parts /\ "ears" \in Parts /\ "mouth" \in Parts
      /\ TRUE \in BOOLEAN /\ FALSE \in BOOLEAN
  BY DEF Parts
<1>2. << <<"reset", "eyes">>, <<"reset", "mouth">> >> \in RequestSteps
  BY DEF RequestSteps, Operations, Parts
<1>3. ResetDefault \in RequestSteps
  <2> DEFINE a == EnableDrawing("eyes", TRUE) \o EnableDrawing("mouth", TRUE)
                    \o EnableDrawing("ears", TRUE)
             b == a \o Activate("eyes", TRUE) \o Activate("mouth", FALSE)
                    \o Activate("ears", FALSE)
             c == b \o << <<"reset", "eyes">>, <<"reset", "mouth">> >>
  <2>1. a \in RequestSteps
    BY <1>1, MethodSteps, Joined
  <2>2. b \in RequestSteps
    <3> HIDE DEF a
    <3> QED BY <1>1, <2>1, MethodSteps, Joined
  <2>3. c \in RequestSteps
    <3> HIDE DEF b
    <3> QED BY <1>2, <2>2, Joined
  <2>4. c \o ResetEarsSteps \in RequestSteps
    <3> HIDE DEF c
    <3> QED BY <1>1, <2>3, MethodSteps, Joined
  <2> QED BY <2>4 DEF ResetDefault
<1>4. BlackScreen \in RequestSteps
  BY <1>1, MethodSteps, Joined DEF BlackScreen
<1> QED BY <1>3, <1>4

LEMMA AnswerSteps ==
  /\ \A r \in Requests : RespondString(r) \in RequestSteps
  /\ \A v \in Vocabs : RespondVocab(v) \in RequestSteps
<1>1. ASSUME NEW r \in Requests PROVE RespondString(r) \in RequestSteps
  <2>1. r.value \in BOOLEAN /\ r.command \in Commands
    BY RequestsOK
  <2>2. /\ \A part \in Parts : EnableDrawing(part, r.value) \in RequestSteps
        /\ << <<"set", "mouth">> >> \in RequestSteps /\ <<>> \in RequestSteps
        /\ "eyes" \in Parts /\ "ears" \in Parts /\ "mouth" \in Parts
    BY <2>1, MethodSteps DEF RequestSteps, Operations, Parts
  <2> QED BY <2>1, <2>2, PartSteps, FaceSteps, Zenon DEF RespondString, Commands
<1>2. ASSUME NEW v \in Vocabs PROVE RespondVocab(v) \in RequestSteps
  <2>1. v \in AllVocabs
    BY RequestsOK
  <2>2. /\ (v = "AUDIO_START") \in BOOLEAN /\ (v = "TALK_START") \in BOOLEAN
        /\ TRUE \in BOOLEAN
    OBVIOUS
  <2> QED BY <2>1, <2>2, PartSteps, FaceSteps, Zenon DEF RespondVocab, AllVocabs
<1> QED BY <1>1, <1>2

----------------------------------------------------------------------------
LEMMA FaceInit == Init => FaceInv
<1> SUFFICES ASSUME Init PROVE FaceInv
  OBVIOUS
<1>1. face \in [Parts -> {"black", "open", "shut", "drawn"}]
  BY DEF Init, MouthThreadInit, EarsThreadInit, EyesThreadInit, Rest, Black, Parts
<1>2. /\ enabled \in [Parts -> BOOLEAN]
      /\ at \in [Parts -> Places]
      /\ at["mouth"] = "period"
  BY DEF Init, Parts, Places
<1>3. todo \in Seq(Operations \X Parts)
  BY DEF Init
<1>4. /\ blink \in BOOLEAN /\ bars \in BOOLEAN /\ recording \in BOOLEAN
      /\ drawing = "free" /\ drawing \in Holders
  BY Zenon DEF Init, Holders
<1> QED BY <1>1, <1>2, <1>3, <1>4, Zenon DEF FaceInv, TypeOK, MouthHolds, Places, Holders

(* A request and its steps: the threads' places stay.                      *)
LEMMA RequestKeeps == ASSUME FaceInv, Respond \/ Answer PROVE FaceInv'
<1>1. UNCHANGED <<at, drawing>>
  BY DEF Respond, Answer, Does, SetDrawing, ClearWithBlack, ActivateBlink, ActivateBars,
         ActivateTalk, SetMouth, ResetEyes, ResetEars, ResetMouth
<1>2. todo' \in RequestSteps
  <2>1. CASE Respond
    BY <2>1, AnswerSteps DEF Respond
  <2>2. CASE Answer
    <3>1. todo # <<>> /\ todo' = Tail(todo)
      BY <2>2 DEF Answer, Does, SetDrawing, ClearWithBlack, ActivateBlink, ActivateBars,
                  ActivateTalk, SetMouth, ResetEyes, ResetEars, ResetMouth
    <3> QED BY <3>1, HeadTailProperties DEF FaceInv, TypeOK, RequestSteps
  <2> QED BY <2>1, <2>2
<1>3. face' \in [Parts -> {"black", "open", "shut", "drawn"}]
  BY DEF FaceInv, TypeOK, Respond, Answer, Does, SetDrawing, ClearWithBlack, ActivateBlink,
         ActivateBars, ActivateTalk, SetMouth, ResetEyes, ResetEars, ResetMouth, ClearEyes,
         ClearEars, ClearMouth, UpdateBars, Black, Rest, Parts
<1>4. enabled' \in [Parts -> BOOLEAN]
  BY DEF FaceInv, TypeOK, Respond, Answer, Does, SetDrawing, ClearWithBlack, ActivateBlink,
         ActivateBars, ActivateTalk, SetMouth, ResetEyes, ResetEars, ResetMouth
<1>5. blink' \in BOOLEAN /\ bars' \in BOOLEAN /\ recording' \in BOOLEAN
  BY DEF FaceInv, TypeOK, Respond, Answer, Does, SetDrawing, ClearWithBlack, ActivateBlink,
         ActivateBars, ActivateTalk, SetMouth, ResetEyes, ResetEars, ResetMouth, flags
<1> QED BY <1>1, <1>2, <1>3, <1>4, <1>5, Zenon DEF FaceInv, TypeOK, MouthHolds, RequestSteps

(* The threads.                                                            *)
LEMMA ThreadsKeep == ASSUME FaceInv, Eyes \/ Ears \/ Mouth \/ Sender PROVE FaceInv'
<1>1. UNCHANGED <<enabled, blink, bars, todo>>
  BY DEF Eyes, EyesLook, EyesDraw, Blink, Ears, EarsDraw, EarsLook, Mouth, MouthRun,
         TakeDrawing, MouthClear, MouthDraw, Sender, SendImage, ImageSent, flags
<1>2. recording' \in BOOLEAN
  BY DEF FaceInv, TypeOK, Eyes, EyesLook, EyesDraw, Blink, Ears, EarsDraw, EarsLook, Mouth,
         MouthRun, TakeDrawing, MouthClear, MouthDraw, Sender, SendImage, ImageSent, flags
<1>3. face' \in [Parts -> {"black", "open", "shut", "drawn"}]
  BY DEF FaceInv, TypeOK, Eyes, EyesLook, EyesDraw, Blink, Ears, EarsDraw, EarsLook, Mouth,
         MouthRun, TakeDrawing, MouthClear, MouthDraw, Sender, SendImage, ImageSent, ClearEyes, ClearEars, ClearMouth, UpdateBlink,
         UpdateBars, Black, Parts
<1>4. at' \in [Parts -> Places]
  BY DEF FaceInv, TypeOK, Eyes, EyesLook, EyesDraw, Blink, Ears, EarsDraw, EarsLook, Mouth,
         MouthRun, TakeDrawing, MouthClear, MouthDraw, Sender, SendImage, ImageSent, Go, Places
<1>5. drawing' \in Holders /\ MouthHolds'
  <2>1. at \in [Parts -> Places] /\ "mouth" \in Parts
    BY DEF FaceInv, TypeOK, Parts, Places
  <2>2. drawing \in Holders
    BY DEF FaceInv, TypeOK, Holders
  <2>3. CASE Eyes \/ Ears
    <3>1. drawing' = drawing /\ at'["mouth"] = at["mouth"]
      BY <2>1, <2>3
      DEF Eyes, EyesLook, EyesDraw, Blink, Ears, EarsDraw, EarsLook, Go
    <3> QED BY <2>2, <3>1, Zenon DEF FaceInv, MouthHolds
  <2>4. CASE Sender
    <3>1. /\ drawing # "mouth" /\ drawing' # "mouth" /\ drawing' \in Holders
          /\ at'["mouth"] = at["mouth"]
      BY <2>4 DEF Sender, SendImage, ImageSent, Holders
    <3> QED BY <3>1, Zenon DEF FaceInv, MouthHolds
  <2>5. CASE Mouth
    <3>1. \/ /\ drawing' = drawing /\ drawing # "mouth" /\ at'["mouth"] = "locked"
          \/ drawing' = "mouth" /\ at'["mouth"] \in {"clear", "draw"}
          \/ drawing' = "free" /\ at'["mouth"] = "period"
      <4>1. CASE MouthRun
        BY <2>1, <4>1 DEF MouthRun, MouthFree, Go, FaceInv, MouthHolds
      <4>2. CASE TakeDrawing
        BY <2>1, <4>2 DEF TakeDrawing, Go
      <4>3. CASE MouthClear
        <5>1. CASE enabled["mouth"]
          BY <2>1, <4>3, <5>1 DEF MouthClear, Go
        <5>2. CASE ~enabled["mouth"]
          BY <2>1, <4>3, <5>2 DEF MouthClear, Go
        <5> QED BY <5>1, <5>2
      <4>4. CASE MouthDraw
        BY <2>1, <4>4 DEF MouthDraw, Go
      <4> QED BY <2>5, <4>1, <4>2, <4>3, <4>4 DEF Mouth
    <3>2. drawing' \in Holders
      BY <2>2, <3>1 DEF Holders
    <3>3. drawing' = "mouth" <=> at'["mouth"] \in {"clear", "draw"}
      BY <3>1
    <3> QED BY <3>2, <3>3 DEF MouthHolds
  <2> QED BY <2>3, <2>4, <2>5
<1> QED BY <1>1, <1>2, <1>3, <1>4, <1>5, Zenon DEF FaceInv, TypeOK, Places, Holders

LEMMA FaceInductive == Spec => []FaceInv
<1>1. FaceInv /\ [Next]_vars => FaceInv'
  <2> SUFFICES ASSUME FaceInv, [Next]_vars PROVE FaceInv'
    OBVIOUS
  <2>1. CASE Respond \/ Answer
    BY <2>1, RequestKeeps
  <2>2. CASE Eyes \/ Ears \/ Mouth \/ Sender
    BY <2>2, ThreadsKeep
  <2>3. CASE UNCHANGED vars
    BY <2>3, Zenon DEF FaceInv, TypeOK, MouthHolds, vars, flags
  <2> QED BY <2>1, <2>2, <2>3 DEF Next
<1> QED BY <1>1, FaceInit, PTL DEF Spec

----------------------------------------------------------------------------
(* Every variable has its type; in particular the steps a request leaves   *)
(* are operations the parts have.                                          *)
THEOREM TypeCorrect == Spec => []TypeOK
<1>1. FaceInv => TypeOK
  BY DEF FaceInv
<1> QED BY <1>1, FaceInductive, PTL

(* While the drawing thread writes the image to its port, the image changes *)
(* in one way only: a request that disables or resets the mouth blackens it *)
(* without the drawing mutex, and then no thread is drawing the mouth.      *)
SentAsDrawn ==
  [][drawing = "sender" /\ face' # face =>
       /\ \E operation \in {"clear", "reset"} : Head(todo) = <<operation, "mouth">>
       /\ at["mouth"] = "period"
       /\ \A part \in Parts \ {"mouth"} : face'[part] = face[part]]_vars

LEMMA ThreadsLeaveSent ==
  ASSUME FaceInv, drawing = "sender", Eyes \/ Ears \/ Mouth \/ Sender PROVE face' = face
BY DEF FaceInv, MouthHolds, Eyes, EyesLook, EyesDraw, Blink, Ears, EarsLook, EarsDraw, Mouth,
       MouthRun, TakeDrawing, MouthClear, MouthDraw, Sender, SendImage, ImageSent, ClearEyes,
       ClearEars, UpdateBlink, UpdateBars

(* What the display is sent is the image as the drawing mutex leaves it,   *)
(* with the one exception that clearWithBlack's lock, a comment, makes.    *)
THEOREM ImageIsSentAsDrawn == Spec => SentAsDrawn
<1> DEFINE A == drawing = "sender" /\ face' # face =>
                  /\ \E operation \in {"clear", "reset"} : Head(todo) = <<operation, "mouth">>
                  /\ at["mouth"] = "period"
                  /\ \A part \in Parts \ {"mouth"} : face'[part] = face[part]
<1>1. FaceInv /\ [Next]_vars => [A]_vars
  <2> SUFFICES ASSUME FaceInv, Next, drawing = "sender", face' # face PROVE A
    OBVIOUS
  <2>1. Answer
    BY ThreadsLeaveSent DEF Next, Respond
  <2>2. /\ MouthFree /\ ClearMouth
        /\ \E operation \in {"clear", "reset"} : Head(todo) = <<operation, "mouth">>
    BY <2>1
    DEF Answer, SetDrawing, ClearWithBlack, ActivateBlink, ActivateBars, ActivateTalk, SetMouth,
        ResetEyes, ResetEars, ResetMouth, Does, ClearEyes, ClearEars, UpdateBars
  <2>3. \A part \in Parts \ {"mouth"} : face'[part] = face[part]
    BY <2>2 DEF ClearMouth, FaceInv, TypeOK
  <2> QED BY <2>2, <2>3 DEF MouthFree
<1> HIDE DEF A
<1>2. Spec => [][A]_vars
  BY <1>1, FaceInductive, PTL DEF Spec
<1> QED BY <1>2 DEF A, SentAsDrawn

----------------------------------------------------------------------------
(* A black screen.                                                         *)

LEMMA BlackStays == Black \in [Parts -> {"black"}] /\
                    \A part \in Parts : [Black EXCEPT ![part] = "black"] = Black
BY DEF Black

LEMMA ThreadsStayDark == ASSUME FaceInv, Dark, Eyes \/ Ears \/ Mouth \/ Sender PROVE Dark'
<1>1. UNCHANGED <<todo, enabled>>
  BY DEF Eyes, EyesLook, EyesDraw, Blink, Ears, EarsLook, EarsDraw, Mouth, MouthRun,
         TakeDrawing, MouthClear, MouthDraw, Sender, SendImage, ImageSent
<1>2. /\ "eyes" \in Parts /\ "ears" \in Parts /\ "mouth" \in Parts
      /\ at \in [Parts -> Places]
      /\ \A part \in Parts : ~enabled[part] /\ at[part] \in {"period", "locked", "clear"}
  BY DEF Parts, FaceInv, TypeOK, Dark, Places
<1>3. face' = Black
  BY <1>2, BlackStays
  DEF Eyes, EyesLook, EyesDraw, Blink, Ears, EarsLook, EarsDraw, Mouth, MouthRun,
      TakeDrawing, MouthClear, MouthDraw, Sender, SendImage, ImageSent, ClearEyes, ClearEars, ClearMouth, Dark
<1>4. at' = at \/ \E part \in Parts, place \in {"period", "locked", "clear"} : Go(part, place)
  BY <1>2
  DEF Eyes, EyesLook, EyesDraw, Blink, Ears, EarsLook, EarsDraw, Mouth, MouthRun,
      TakeDrawing, MouthClear, MouthDraw, Sender, SendImage, ImageSent
<1>5. \A part \in Parts : at'[part] \in {"period", "locked", "clear"}
  BY <1>2, <1>4 DEF Go
<1> QED BY <1>1, <1>2, <1>3, <1>5 DEF Dark

(* A black screen stays black until a request has something to do: the     *)
(* threads of a disabled face draw nothing but black, whatever they heard. *)
THEOREM BlackIsKept == Spec => KeepsBlack
<1>1. FaceInv /\ [Next]_vars => [Dark /\ todo' = <<>> => Dark']_vars
  <2> SUFFICES ASSUME FaceInv, [Next]_vars, Dark, todo' = <<>> PROVE Dark'
    OBVIOUS
  <2>1. CASE Respond
    BY <2>1 DEF Respond, Dark
  <2>2. ~Answer
    BY DEF Answer, SetDrawing, ClearWithBlack, ActivateBlink, ActivateBars, ActivateTalk,
           SetMouth, ResetEyes, ResetEars, ResetMouth, Does, Dark
  <2>3. CASE Eyes \/ Ears \/ Mouth \/ Sender
    BY <2>3, ThreadsStayDark
  <2>4. CASE UNCHANGED vars
    BY <2>4 DEF vars, Dark
  <2> QED BY <2>1, <2>2, <2>3, <2>4 DEF Next
<1> QED BY <1>1, FaceInductive, PTL DEF Spec, KeepsBlack
==============================================================================
