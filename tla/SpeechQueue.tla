---------------------------- MODULE SpeechQueue ----------------------------
(***************************************************************************)
(* What HeadSynchronizer promises to whoever makes the robot talk, without *)
(* its threads, its locks, its players and its microphone: texts are taken *)
(* in the order they were said, one at a time, each at most once.  A Clear *)
(* forgets the texts that wait but cannot recall the one being spoken, and *)
(* it costs one more text: the one that has come to the head of the queue  *)
(* when the recalled one is finished is dropped unspoken.                  *)
(***************************************************************************)
EXTENDS Naturals, Sequences

VARIABLES
  said,      \* how many texts were said so far: the n-th text is the number n
  queue,     \* the texts waiting to be spoken
  current,   \* the text being spoken, 0 when there is none
  recalled   \* a Clear came while current was being spoken

qvars == <<said, queue, current, recalled>>

QInit == said = 0 /\ queue = <<>> /\ current = 0 /\ recalled = FALSE

(* A client adds a text.                                                   *)
Enqueue ==
  /\ said' = said + 1
  /\ queue' = Append(queue, said')
  /\ UNCHANGED <<current, recalled>>

(* The oldest waiting text starts.                                         *)
Take ==
  /\ current = 0 /\ queue # <<>>
  /\ current' = Head(queue) /\ queue' = Tail(queue)
  /\ UNCHANGED <<said, recalled>>

(* The text ends: with a Clear behind it, the next waiting text goes too.  *)
Finish ==
  /\ current # 0
  /\ current' = 0 /\ recalled' = FALSE
  /\ queue' = IF recalled /\ queue # <<>> THEN Tail(queue) ELSE queue
  /\ UNCHANGED said

(* The waiting texts are forgotten.                                        *)
Clear ==
  /\ queue' = <<>> /\ recalled' = (current # 0)
  /\ UNCHANGED <<said, current>>

QNext == Enqueue \/ Take \/ Finish \/ Clear

QSpec == QInit /\ [][QNext]_qvars
============================================================================
