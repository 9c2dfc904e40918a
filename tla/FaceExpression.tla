--------------------------- MODULE FaceExpression ---------------------------
(***************************************************************************)
(* faceExpressionImage: three periodic threads draw the eyes, the ears and *)
(* the mouth into one image, a fourth sends the image to the display, and  *)
(* a command changes flags and draws, too.                                 *)
(*                                                                         *)
(* What holds the drawing mutex for one part of the image is one step; the *)
(* sender holds it while it writes.  The mouth's thread first takes the    *)
(* mouth's methods mutex, then the drawing mutex, which it holds from its  *)
(* clearing to its drawing; a command's steps on the mouth take the        *)
(* methods mutex alone.  The locks of the ears' and the eyes' methods take *)
(* no mutex (they declare a function), so that their flags may change      *)
(* between a look at them and the drawing.                                 *)
(*                                                                         *)
(* Colours, expressions and the sizes of the bars are left out.            *)
(***************************************************************************)
EXTENDS Sequences

CONSTANTS
  Requests, \* the requests with a string that come, and the value they have
  Vocabs    \* those with a vocab

Commands == {"start_ears", "start_mouth", "start_blinking", "enable_draw_eyes",
             "enable_draw_ears", "enable_draw_mouth", "reset_to_default", "black_screen",
             "emotion", "color_mouth", "color_ears", "help"}
AllVocabs == {"AUDIO_START", "AUDIO_STOP", "TALK_START", "TALK_STOP", "BLINK", "RESET",
              "BLACK_RESET"}

ASSUME RequestsOK ==
  Requests \subseteq [command : Commands, value : BOOLEAN] /\ Vocabs \subseteq AllVocabs

Parts == {"eyes", "ears", "mouth"}
Sounds == {"none", "empty", "samples"} \* what the ears' thread reads

VARIABLES
  face,      \* what the image m_image shows of each part
  enabled,   \* m_drawEnable of each part
  at,        \* where each part's thread is in run; "period" between two
  blink,     \* m_doBlink
  bars,      \* m_doBars
  recording, \* m_audioIsRecording
  todo,      \* the steps left of the request that is answered
  drawing    \* who holds the drawing mutex for more than one step

flags == <<blink, bars, recording>>
vars == <<face, enabled, at, flags, todo, drawing>>

Black == [p \in Parts |-> "black"]
Rest == [Black EXCEPT !["eyes"] = "open"] \* faceRest: eyes and nose

Operations == {"enable", "disable", "clear", "on", "off", "reset", "rest", "draw", "set"}

TypeOK ==
  /\ face \in [Parts -> {"black", "open", "shut", "drawn"}]
  /\ enabled \in [Parts -> BOOLEAN]
  /\ at \in [Parts -> {"period", "locked", "clear", "draw", "blink"}]
  /\ blink \in BOOLEAN /\ bars \in BOOLEAN /\ recording \in BOOLEAN
  /\ todo \in Seq(Operations \X Parts) /\ drawing \in {"free", "mouth", "sender"}

(* Each thread's threadInit ends with resetToDefault, in the order in      *)
(* which configure starts them; the image has no contents before.          *)
EyesThreadInit == Rest
EarsThreadInit(image) == [image EXCEPT !["ears"] = "drawn"]
MouthThreadInit(image) == [image EXCEPT !["mouth"] = "black"]

Init ==
  /\ face = MouthThreadInit(EarsThreadInit(EyesThreadInit))
  /\ enabled = [p \in Parts |-> TRUE]
  /\ at = [p \in Parts |-> "period"]
  /\ blink = TRUE /\ bars = FALSE /\ recording = FALSE
  /\ todo = <<>> /\ drawing = "free"

----------------------------------------------------------------------------
(* The requests, one at a time.                                            *)

EnableDrawing(part, on) ==
  IF on THEN << <<"enable", part>> >> ELSE << <<"disable", part>>, <<"clear", part>> >>

Activate(part, on) == << <<IF on THEN "on" ELSE "off", part>> >>
ResetEarsSteps == << <<"reset", "ears">>, <<"draw", "ears">> >>

StartBlinking(on) == Activate("eyes", on) \o IF on THEN <<>> ELSE << <<"rest", "eyes">> >>
StartTalking(on) == Activate("mouth", on) \o IF on THEN <<>> ELSE << <<"reset", "mouth">> >>
StartListening(on) == Activate("ears", on) \o IF on THEN <<>> ELSE ResetEarsSteps

ResetDefault ==
  EnableDrawing("eyes", TRUE) \o EnableDrawing("mouth", TRUE) \o EnableDrawing("ears", TRUE)
    \o Activate("eyes", TRUE) \o Activate("mouth", FALSE) \o Activate("ears", FALSE)
    \o << <<"reset", "eyes">>, <<"reset", "mouth">> >> \o ResetEarsSteps

BlackScreen ==
  EnableDrawing("eyes", FALSE) \o EnableDrawing("mouth", FALSE) \o EnableDrawing("ears", FALSE)

(* A request is a command with a value, or a vocab.                        *)
RespondString(r) ==
  CASE r.command = "start_ears"        -> StartListening(r.value)
    [] r.command = "start_mouth"       -> StartTalking(r.value)
    [] r.command = "start_blinking"    -> StartBlinking(r.value)
    [] r.command = "enable_draw_eyes"  -> EnableDrawing("eyes", r.value)
    [] r.command = "enable_draw_ears"  -> EnableDrawing("ears", r.value)
    [] r.command = "enable_draw_mouth" -> EnableDrawing("mouth", r.value)
    [] r.command = "reset_to_default"  -> ResetDefault
    [] r.command = "black_screen"      -> BlackScreen
    [] r.command \in {"emotion", "color_mouth"} -> << <<"set", "mouth">> >>
    [] r.command \in {"color_ears", "help"}     -> <<>>

RespondVocab(v) ==
  CASE v \in {"AUDIO_START", "AUDIO_STOP"} -> StartListening(v = "AUDIO_START")
    [] v \in {"TALK_START", "TALK_STOP"}   -> StartTalking(v = "TALK_START")
    [] v = "BLINK"                         -> StartBlinking(TRUE)
    [] v = "RESET"                         -> ResetDefault
    [] v = "BLACK_RESET"                   -> BlackScreen

Respond ==
  /\ todo = <<>>
  /\ \/ \E r \in Requests : todo' = RespondString(r)
     \/ \E v \in Vocabs : todo' = RespondVocab(v)
  /\ UNCHANGED <<face, enabled, at, flags, drawing>>

----------------------------------------------------------------------------
(* Drawing.                                                                *)

(* Clearing or resetting the eyes' part draws over the whole face.         *)
ClearEyes == drawing = "free" /\ face' = Black
ClearEars == drawing = "free" /\ face' = [face EXCEPT !["ears"] = "black"]

(* Mutant: the drawing mutex is taken, as in the line that is a comment.   *)
ClearMouthLocked == drawing = "free" /\ face' = [face EXCEPT !["mouth"] = "black"]
ClearMouth == face' = [face EXCEPT !["mouth"] = "black"]

UpdateBlink(eyes) == drawing = "free" /\ face' = [face EXCEPT !["eyes"] = eyes]
UpdateBars == drawing = "free" /\ face' = [face EXCEPT !["ears"] = "drawn"]
Go(part, place) == at' = [at EXCEPT ![part] = place]

----------------------------------------------------------------------------
(* The steps of a request.                                                 *)

Does(operation, part) ==
  /\ todo # <<>> /\ Head(todo) = <<operation, part>>
  /\ todo' = Tail(todo)
  /\ UNCHANGED <<at, drawing>>

MouthFree == at["mouth"] = "period" \* its methods mutex is free

SetDrawing(part) ==
  /\ \/ Does("enable", part) /\ enabled' = [enabled EXCEPT ![part] = TRUE]
     \/ Does("disable", part) /\ enabled' = [enabled EXCEPT ![part] = FALSE]
  /\ UNCHANGED <<face, flags>>

ClearWithBlack ==
  /\ \/ Does("clear", "eyes") /\ ClearEyes
     \/ Does("clear", "ears") /\ ClearEars
     \/ Does("clear", "mouth") /\ MouthFree /\ ClearMouth
  /\ UNCHANGED <<enabled, flags>>

ActivateBlink ==
  /\ \/ Does("on", "eyes") /\ blink' = TRUE
     \/ Does("off", "eyes") /\ blink' = FALSE
  /\ UNCHANGED <<face, enabled, bars, recording>>

ActivateBars ==
  /\ \/ Does("on", "ears") /\ bars' = TRUE
     \/ Does("off", "ears") /\ bars' = FALSE
  /\ UNCHANGED <<face, enabled, blink, recording>>

(* The flag m_doTalk has no effect: the mouth talks when audio is played.  *)
ActivateTalk ==
  /\ Does("on", "mouth") \/ Does("off", "mouth")
  /\ MouthFree
  /\ UNCHANGED <<face, enabled, flags>>

(* setColor or setExpression: seen at the thread's next drawing only.      *)
SetMouth ==
  /\ Does("set", "mouth") /\ MouthFree
  /\ UNCHANGED <<face, enabled, flags>>

ResetEyes ==
  /\ \/ Does("reset", "eyes") /\ blink' = TRUE
     \/ Does("rest", "eyes") /\ blink' = FALSE
  /\ drawing = "free" /\ face' = Rest
  /\ UNCHANGED <<enabled, bars, recording>>

ResetEars ==
  /\ \/ Does("reset", "ears") /\ bars' = FALSE /\ recording' = FALSE /\ UNCHANGED face
     \/ Does("draw", "ears") /\ UpdateBars /\ UNCHANGED <<bars, recording>>
  /\ UNCHANGED <<enabled, blink>>

ResetMouth ==
  /\ Does("reset", "mouth") /\ MouthFree /\ ClearMouth
  /\ UNCHANGED <<enabled, flags>>

Answer ==
  \/ \E part \in Parts : SetDrawing(part)
  \/ ClearWithBlack
  \/ ActivateBlink \/ ActivateBars \/ ActivateTalk \/ SetMouth
  \/ ResetEyes \/ ResetEars \/ ResetMouth

----------------------------------------------------------------------------
(* The threads.                                                            *)

(* Mutant: a thread whose drawing is disabled leaves the image alone.      *)
EyesLookOnly ==
  /\ at["eyes"] = "period" /\ enabled["eyes"]
  /\ Go("eyes", IF blink THEN "blink" ELSE "draw")
  /\ UNCHANGED <<face, enabled, flags, todo, drawing>>

(* Between two blinks nothing is drawn.                                    *)
EyesLook ==
  /\ at["eyes"] = "period"
  /\ Go("eyes", IF ~enabled["eyes"] THEN "clear" ELSE IF blink THEN "blink" ELSE "draw")
  /\ UNCHANGED <<face, enabled, flags, todo, drawing>>

EyesDraw ==
  /\ \/ at["eyes"] = "clear" /\ ClearEyes
     \/ at["eyes"] = "draw" /\ UpdateBlink("open")
  /\ Go("eyes", "period")
  /\ UNCHANGED <<enabled, flags, todo, drawing>>

(* The steps of a blink, whatever changes meanwhile; the last opens the    *)
(* eyes.                                                                   *)
Blink ==
  /\ at["eyes"] = "blink"
  /\ \/ UpdateBlink("shut") /\ UNCHANGED at
     \/ UpdateBlink("open") /\ Go("eyes", "period")
  /\ UNCHANGED <<enabled, flags, todo, drawing>>

(* Mutant: silent ears are not drawn.                                      *)
EarsLookForSound(sound) ==
  /\ at["ears"] = "period"
  /\ recording' = IF sound = "none" THEN recording ELSE sound = "samples"
  /\ Go("ears", IF ~enabled["ears"] THEN "clear"
                ELSE IF sound # "none" THEN "draw" ELSE "period")
  /\ UNCHANGED <<face, enabled, blink, bars, todo, drawing>>

(* Ears that follow a sound are drawn when one has come, unless its        *)
(* greatest sample is negative.                                            *)
EarsLook(sound) ==
  /\ at["ears"] = "period"
  /\ recording' = IF ~enabled["ears"] \/ sound = "none" THEN recording ELSE sound = "samples"
  /\ \/ ~enabled["ears"] /\ Go("ears", "clear")
     \/ enabled["ears"] /\ (~(bars \/ recording') \/ sound # "none") /\ Go("ears", "draw")
     \/ enabled["ears"] /\ (bars \/ recording') /\ Go("ears", "period")
  /\ UNCHANGED <<face, enabled, blink, bars, todo, drawing>>

EarsDraw ==
  /\ \/ at["ears"] = "clear" /\ ClearEars
     \/ at["ears"] = "draw" /\ UpdateBars
  /\ Go("ears", "period")
  /\ UNCHANGED <<enabled, flags, todo, drawing>>

(* run takes the methods mutex.                                            *)
MouthRun ==
  /\ MouthFree /\ Go("mouth", "locked")
  /\ UNCHANGED <<face, enabled, flags, todo, drawing>>

(* updateTalk or showExpression takes the drawing mutex.                   *)
TakeDrawing ==
  /\ at["mouth"] = "locked" /\ drawing = "free"
  /\ drawing' = "mouth"
  /\ Go("mouth", "clear")
  /\ UNCHANGED <<face, enabled, flags, todo>>

MouthClear ==
  /\ at["mouth"] = "clear" /\ ClearMouth
  /\ drawing' = IF enabled["mouth"] THEN "mouth" ELSE "free"
  /\ Go("mouth", IF enabled["mouth"] THEN "draw" ELSE "period")
  /\ UNCHANGED <<enabled, flags, todo>>

MouthDraw ==
  /\ at["mouth"] = "draw" /\ face' = [face EXCEPT !["mouth"] = "drawn"]
  /\ drawing' = "free"
  /\ Go("mouth", "period")
  /\ UNCHANGED <<enabled, flags, todo>>

(* The drawing thread: it holds the drawing mutex while the image, which   *)
(* it hands over without a copy, is written to the port.                   *)
SendImage ==
  /\ drawing = "free" /\ drawing' = "sender"
  /\ UNCHANGED <<face, enabled, at, flags, todo>>

ImageSent ==
  /\ drawing = "sender" /\ drawing' = "free"
  /\ UNCHANGED <<face, enabled, at, flags, todo>>

Eyes == EyesLook \/ EyesDraw \/ Blink
Ears == EarsDraw \/ \E sound \in Sounds : EarsLook(sound)
Mouth == MouthRun \/ TakeDrawing \/ MouthClear \/ MouthDraw
Sender == SendImage \/ ImageSent

Next == Respond \/ Answer \/ Eyes \/ Ears \/ Mouth \/ Sender
Spec == Init /\ [][Next]_vars

(* The threads' periods pass, a blink and the writing of an image end, a   *)
(* mutex that is free again and again is taken, and neither requests nor   *)
(* sounds have to come.                                                    *)
FairSpec ==
  /\ Spec
  /\ SF_vars(Answer)
  /\ WF_vars(EyesLook) /\ SF_vars(EyesDraw) /\ SF_vars(Blink /\ Go("eyes", "period"))
  /\ WF_vars(EarsLook("none")) /\ SF_vars(EarsDraw)
  /\ SF_vars(MouthRun) /\ SF_vars(TakeDrawing) /\ WF_vars(MouthClear) /\ WF_vars(MouthDraw)
  /\ WF_vars(ImageSent)

----------------------------------------------------------------------------
(* Properties.                                                             *)

(* Every request is answered, whichever mutexes it takes while the threads *)
(* draw.                                                                   *)
RequestsAnswered == []<>(todo = <<>>)

(* A face whose drawing is disabled gets black and stays so after the last *)
(* request, whatever was being drawn at the time.                          *)
StaysBlack ==
  <>[](todo = <<>> /\ \A part \in Parts : ~enabled[part]) => <>[](face = Black)

(* Once the screen is black and each thread between two periods, or about  *)
(* to draw black, only a request ends it: no step of the threads, which    *)
(* have gone on clearing and looking at their flags, draws a part again.   *)
Dark ==
  /\ todo = <<>> /\ face = Black
  /\ \A part \in Parts : ~enabled[part] /\ at[part] \in {"period", "locked", "clear"}
KeepsBlack == [][Dark /\ todo' = <<>> => Dark']_vars

(* A face whose drawing is enabled is drawn again, although the eyes wipe  *)
(* the whole of it; ears that wait for a sound are not.                    *)
DrawnAgain ==
  /\ <>[](\A part \in Parts : enabled[part])
  /\ <>[](~bars /\ ~recording)
  => \A part \in Parts : []<>(face[part] # "black")
==============================================================================
