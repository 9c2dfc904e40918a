------------------------- MODULE TourManagerProofs -------------------------
(***************************************************************************)
(* What holds of TourManager for any tour, any watchdogs and any commands. *)
(***************************************************************************)
EXTENDS TourManager, SequenceTheorems, TLAPS

(* What the invariants say of a thread's steps: whether one is among them, *)
(* and with which they end.                                                *)
Has(s, x) == \E i \in DOMAIN s : s[i] = x
End(s) == IF s = <<>> THEN "none" ELSE s[Len(s)]
OnlyLast(s, x) == \A i \in DOMAIN s : s[i] = x => i = Len(s)

----------------------------------------------------------------------------
(* Sequences of steps.                                                     *)

LEMMA TailSteps ==
  ASSUME NEW S, NEW s \in Seq(S), s # <<>>
  PROVE  /\ Head(s) \in S /\ Tail(s) \in Seq(S)
         /\ \A x : Has(s, x) <=> Head(s) = x \/ Has(Tail(s), x)
         /\ End(s) = IF Tail(s) = <<>> THEN Head(s) ELSE End(Tail(s))
         /\ \A x : OnlyLast(s, x) => OnlyLast(Tail(s), x)
         /\ \A x : OnlyLast(s, x) /\ Head(s) = x => Tail(s) = <<>>
<1>1. /\ Head(s) \in S /\ Tail(s) \in Seq(S)
      /\ Len(s) \in Nat \ {0} /\ Len(Tail(s)) = Len(s) - 1
      /\ DOMAIN s = 1..Len(s) /\ DOMAIN Tail(s) = 1..Len(s) - 1
      /\ Head(s) = s[1] /\ \A i \in 1..Len(s) - 1 : Tail(s)[i] = s[i + 1]
  BY HeadTailProperties
<1>2. Tail(s) = <<>> <=> Len(s) = 1
  <2>1. Tail(s) = <<>> <=> Len(Tail(s)) = 0
    BY <1>1, EmptySeq
  <2> QED BY <1>1, <2>1
<1>3. ASSUME NEW x PROVE Has(s, x) <=> Head(s) = x \/ Has(Tail(s), x)
  <2>1. ASSUME Has(s, x) PROVE Head(s) = x \/ Has(Tail(s), x)
    <3>1. PICK i \in DOMAIN s : s[i] = x
      BY <2>1 DEF Has
    <3>2. CASE i = 1
      BY <1>1, <3>1, <3>2
    <3>3. CASE i # 1
      <4>1. i - 1 \in DOMAIN Tail(s) /\ Tail(s)[i - 1] = s[i]
        BY <1>1, <3>1, <3>3
      <4> QED BY <4>1, <3>1 DEF Has
    <3> QED BY <3>2, <3>3
  <2>2. ASSUME Head(s) = x PROVE Has(s, x)
    <3>1. 1 \in DOMAIN s /\ s[1] = x
      BY <1>1, <2>2
    <3> QED BY <3>1 DEF Has
  <2>3. ASSUME Has(Tail(s), x) PROVE Has(s, x)
    <3>1. PICK i \in DOMAIN Tail(s) : Tail(s)[i] = x
      BY <2>3 DEF Has
    <3>2. i + 1 \in DOMAIN s /\ s[i + 1] = x
      BY <1>1, <3>1
    <3> QED BY <3>2 DEF Has
  <2> QED BY <2>1, <2>2, <2>3
<1>4. End(s) = IF Tail(s) = <<>> THEN Head(s) ELSE End(Tail(s))
  BY <1>1, <1>2 DEF End
<1>5. ASSUME NEW x, OnlyLast(s, x)
      PROVE  OnlyLast(Tail(s), x) /\ (Head(s) = x => Tail(s) = <<>>)
  <2>1. ASSUME NEW i \in DOMAIN Tail(s), Tail(s)[i] = x PROVE i = Len(Tail(s))
    <3>1. i + 1 \in DOMAIN s /\ s[i + 1] = x
      BY <1>1, <2>1
    <3>2. i + 1 = Len(s)
      BY <1>5, <3>1 DEF OnlyLast
    <3> QED BY <1>1, <3>2
  <2>2. ASSUME Head(s) = x PROVE Tail(s) = <<>>
    <3>1. 1 \in DOMAIN s /\ s[1] = x
      BY <1>1, <2>2
    <3>2. 1 = Len(s)
      BY <1>5, <3>1 DEF OnlyLast
    <3> QED BY <1>2, <3>2
  <2> QED BY <2>1, <2>2 DEF OnlyLast
<1> QED
  BY <1>1, <1>3, <1>4, <1>5

LEMMA ConcatSteps ==
  ASSUME NEW S, NEW r \in Seq(S), NEW s \in Seq(S)
  PROVE  /\ r \o s \in Seq(S)
         /\ \A x : Has(r \o s, x) <=> Has(r, x) \/ Has(s, x)
         /\ s # <<>> => End(r \o s) = End(s)
         /\ s = <<>> => r \o s = r
         /\ \A x : ~Has(r, x) /\ OnlyLast(s, x) => OnlyLast(r \o s, x)
<1>1. /\ r \o s \in Seq(S) /\ Len(r \o s) = Len(r) + Len(s)
      /\ Len(r) \in Nat /\ Len(s) \in Nat
      /\ DOMAIN r = 1..Len(r) /\ DOMAIN s = 1..Len(s)
      /\ DOMAIN (r \o s) = 1..Len(r) + Len(s)
      /\ \A i \in 1..Len(r) + Len(s) :
           (r \o s)[i] = IF i <= Len(r) THEN r[i] ELSE s[i - Len(r)]
  BY ConcatProperties
<1>2. ASSUME NEW x PROVE Has(r \o s, x) <=> Has(r, x) \/ Has(s, x)
  <2>1. ASSUME Has(r \o s, x) PROVE Has(r, x) \/ Has(s, x)
    <3>1. PICK i \in DOMAIN (r \o s) : (r \o s)[i] = x
      BY <2>1 DEF Has
    <3>2. CASE i <= Len(r)
      <4>1. i \in DOMAIN r /\ r[i] = x
        BY <1>1, <3>1, <3>2
      <4> QED BY <4>1 DEF Has
    <3>3. CASE ~(i <= Len(r))
      <4>1. i - Len(r) \in DOMAIN s /\ s[i - Len(r)] = x
        BY <1>1, <3>1, <3>3
      <4> QED BY <4>1 DEF Has
    <3> QED BY <3>2, <3>3
  <2>2. ASSUME Has(r, x) PROVE Has(r \o s, x)
    <3>1. PICK i \in DOMAIN r : r[i] = x
      BY <2>2 DEF Has
    <3>2. i \in DOMAIN (r \o s) /\ (r \o s)[i] = x
      BY <1>1, <3>1
    <3> QED BY <3>2 DEF Has
  <2>3. ASSUME Has(s, x) PROVE Has(r \o s, x)
    <3>1. PICK i \in DOMAIN s : s[i] = x
      BY <2>3 DEF Has
    <3>2. i + Len(r) \in DOMAIN (r \o s) /\ (r \o s)[i + Len(r)] = x
      BY <1>1, <3>1
    <3> QED BY <3>2 DEF Has
  <2> QED BY <2>1, <2>2, <2>3
<1>3. s # <<>> => r \o s # <<>> /\ End(r \o s) = End(s)
  BY <1>1, EmptySeq DEF End
<1>4. s = <<>> => r \o s = r
  BY ConcatEmptySeq
<1>5. ASSUME NEW x, ~Has(r, x), OnlyLast(s, x) PROVE OnlyLast(r \o s, x)
  <2> SUFFICES ASSUME NEW i \in DOMAIN (r \o s), (r \o s)[i] = x PROVE i = Len(r \o s)
    BY DEF OnlyLast
  <2>1. ~(i <= Len(r))
    <3>1. i <= Len(r) => i \in DOMAIN r /\ r[i] = x
      BY <1>1
    <3> QED BY <1>5, <3>1 DEF Has
  <2>2. i - Len(r) \in DOMAIN s /\ s[i - Len(r)] = x
    BY <1>1, <2>1
  <2>3. i - Len(r) = Len(s)
    BY <1>5, <2>2 DEF OnlyLast
  <2> QED BY <1>1, <2>3
<1> QED
  BY <1>1, <1>2, <1>3, <1>4, <1>5

LEMMA EndHas ==
  ASSUME NEW S, NEW s \in Seq(S)
  PROVE  /\ s # <<>> => Has(s, End(s))
         /\ \A x : Has(s, x) => x \in S /\ s # <<>>
<1>1. /\ s # <<>> => Len(s) \in Nat \ {0} /\ Len(s) \in DOMAIN s
      /\ \A i \in DOMAIN s : s[i] \in S
      /\ DOMAIN <<>> = {}
  BY EmptySeq
<1> QED BY <1>1 DEF Has, End

LEMMA SeqMono ==
  ASSUME NEW S, NEW T, S \subseteq T, NEW s \in Seq(S) PROVE s \in Seq(T)
OBVIOUS

----------------------------------------------------------------------------
(* The steps that move the robot, that count fallbacks, that take the next *)
(* PoI, and the others.                                                    *)
ToGoal == {"gotoTarget", "awaitMoving", "whileMoving", "awaitGoal"}
Counting == {"fallback", "count"}
Turning == {"nextPoi", "increment", "wrap"}
Special == ToGoal \cup {"arrive", "locate"} \cup Counting \cup Turning
Plain == Steps \ Special

(* Sentences that are waited for.                                          *)
LEMMA SayPlain ==
  /\ BlockSpeak \in Seq(Plain) /\ <<"say", "push">> \o BlockSpeak \in Seq(Plain)
  /\ \A s \in Seq(Plain) : <<"say", "push">> \o BlockSpeak \o s \in Seq(Plain)
<1>1. {"say", "push", "awaitSpeech", "awaitQuiet"} \subseteq Plain
  BY DEF Plain, Special, Steps, ToGoal, Counting, Turning
<1>2. BlockSpeak \in Seq(Plain) /\ <<"say", "push">> \in Seq(Plain)
  BY <1>1 DEF BlockSpeak
<1> QED BY <1>2, ConcatProperties

(* Of the commands only fallback counts, only nextPoi takes the next PoI,  *)
(* and none moves the robot.                                               *)
AskAgain == <<"say", "push">> \o BlockSpeak \o <<"count">>
ToWrap == <<"wrap", "updatePoI", "uncount">>
Turn == <<"increment", "wrap", "updatePoI", "uncount">>
Turns == {<<"nextPoi">>, Turn, ToWrap}

LEMMA ScriptSteps ==
  /\ \A c \in Interpreted \ {"fallback", "nextPoi"} : Script[c] \subseteq Seq(Plain)
  /\ Script["fallback"] = {AskAgain} /\ Script["nextPoi"] = {Turn}
<1>1. {"uncount", "hear", "firstPoI", "headReset", "language", "updatePoI"}
        \subseteq Plain
  BY DEF Plain, Special, Steps, ToGoal, Counting, Turning
<1>2. /\ <<"uncount">> \in Seq(Plain) /\ <<"hear", "uncount">> \in Seq(Plain)
      /\ <<>> \in Seq(Plain)
      /\ <<"firstPoI", "headReset", "language", "updatePoI", "hear", "uncount">> \in Seq(Plain)
  BY <1>1
<1>3. /\ <<"say", "push">> \o BlockSpeak \o <<"uncount">> \in Seq(Plain)
      /\ <<"say", "push">> \o BlockSpeak \o <<"hear", "uncount">> \in Seq(Plain)
  BY <1>2, SayPlain
<1> DEFINE said == <<"say", "push">> \o BlockSpeak \o <<"uncount">>
<1>4. ASSUME NEW c \in Interpreted \ {"fallback", "nextPoi"}
      PROVE  Script[c] \subseteq Seq(Plain)
  <2>1. c \in {"warningNextNavigation", "sayWhileNavigating", "navigationError",
               "watchdogError", "explain", "resetTourManager"}
    BY DEF Interpreted, Script
  <2>2. /\ Script["warningNextNavigation"] = {said} /\ Script["navigationError"] = {said}
        /\ Script["watchdogError"] = {said} /\ Script["sayWhileNavigating"] = {<<>>, said}
        /\ Script["explain"] = {<<"say", "push">> \o BlockSpeak \o <<"hear", "uncount">>}
        /\ Script["resetTourManager"] =
             {<<"firstPoI", "headReset", "language", "updatePoI", "hear", "uncount">>}
    BY DEF Script
  <2> DEFINE asked == <<"say", "push">> \o BlockSpeak \o <<"hear", "uncount">>
             reset == <<"firstPoI", "headReset", "language", "updatePoI", "hear", "uncount">>
  <2>3. said \in Seq(Plain) /\ asked \in Seq(Plain) /\ reset \in Seq(Plain)
        /\ <<>> \in Seq(Plain)
    BY <1>2, <1>3 DEF said
  <2>4. Script[c] \in {{said}, {<<>>, said}, {asked}, {reset}}
    BY <2>1, <2>2
  <2> HIDE DEF said, asked, reset
  <2> QED BY <2>3, <2>4
<1>5. Script["fallback"] = {AskAgain} /\ Script["nextPoi"] = {Turn}
  BY DEF Script, AskAgain, Turn
<1> QED BY <1>4, <1>5

LEMMA AskAgainCounts ==
  /\ AskAgain \in Seq(Steps) /\ OnlyLast(AskAgain, "count")
  /\ \A x \in Special \ {"count"} : ~Has(AskAgain, x)
<1>1. <<"say", "push">> \o BlockSpeak \in Seq(Plain) /\ <<"count">> \in Seq(Steps)
  BY SayPlain DEF Steps
<1>2. <<"say", "push">> \o BlockSpeak \in Seq(Steps)
  BY <1>1, SeqMono DEF Plain
<1>3. \A x : x \notin Plain => ~Has(<<"say", "push">> \o BlockSpeak, x)
  BY <1>1, EndHas
<1>4. OnlyLast(<<"count">>, "count") /\ \A x : Has(<<"count">>, x) => x = "count"
  BY DEF OnlyLast, Has
<1>5. "count" \notin Plain /\ Special \cap Plain = {}
  BY DEF Plain, Special, Counting
<1> DEFINE pre == <<"say", "push">> \o BlockSpeak
           last == <<"count">>
<1>6. AskAgain = pre \o last
  BY DEF AskAgain
<1>7. /\ pre \in Seq(Steps) /\ last \in Seq(Steps) /\ OnlyLast(last, "count")
      /\ \A x : x \notin Plain => ~Has(pre, x)
      /\ \A x : Has(last, x) => x = "count"
  BY <1>1, <1>2, <1>3, <1>4
<1> HIDE DEF pre, last
<1> QED BY <1>5, <1>6, <1>7, ConcatSteps

(* nextPoi takes the next PoI in two steps that follow one another.        *)
LEMMA TurnSteps ==
  /\ Turn \in Seq(Steps) /\ ToWrap \in Seq(Steps) /\ Tail(Turn) = ToWrap
  /\ Head(Turn) = "increment" /\ Head(ToWrap) = "wrap" /\ ToWrap # <<>>
  /\ \A x \in Special : (Has(Turn, x) => x \in Turning) /\ (Has(ToWrap, x) => x \in Turning)
  /\ Head(<<"nextPoi">>) = "nextPoi" /\ Tail(<<"nextPoi">>) = <<>>
  /\ Tail(ToWrap) \in Seq(Plain) /\ Has(Turn, "uncount") /\ Has(ToWrap, "uncount")
<1>1. {"increment", "wrap", "updatePoI", "uncount"} \subseteq Steps
      /\ {"updatePoI", "uncount"} \subseteq Plain
  BY DEF Plain, Special, Steps, ToGoal, Counting, Turning
<1>2. Turn \in Seq(Steps) /\ ToWrap \in Seq(Steps) /\ <<"updatePoI", "uncount">> \in Seq(Plain)
  BY <1>1 DEF Turn, ToWrap
<1>3. /\ Tail(<<"increment", "wrap", "updatePoI", "uncount">>) = <<"wrap", "updatePoI", "uncount">>
      /\ Tail(<<"wrap", "updatePoI", "uncount">>) = <<"updatePoI", "uncount">>
      /\ Head(<<"increment", "wrap", "updatePoI", "uncount">>) = "increment"
      /\ Head(<<"wrap", "updatePoI", "uncount">>) = "wrap"
      /\ Head(<<"nextPoi">>) = "nextPoi" /\ Tail(<<"nextPoi">>) = <<>>
  OBVIOUS
<1>4. /\ \A x : Has(Turn, x) <=> x \in {"increment", "wrap", "updatePoI", "uncount"}
      /\ \A x : Has(ToWrap, x) <=> x \in {"wrap", "updatePoI", "uncount"}
      /\ ToWrap # <<>>
  BY DEF Has, Turn, ToWrap
<1>5. {"updatePoI", "uncount"} \cap Special = {}
  BY DEF Special, ToGoal, Counting, Turning
<1> QED BY <1>2, <1>3, <1>4, <1>5 DEF Turn, ToWrap, Turning

----------------------------------------------------------------------------
(* The inductive invariant.  Only GoTo moves the robot: its sequence is    *)
(* "locate" when sendToPoI starts, ends with "awaitGoal" until the end of  *)
(* the movement, and with "arrive" after it.                               *)
Threaded == todo \in [Threads -> Seq(Steps)]
RouteOK ==
  /\ \A x \in ToGoal : Has(todo[GoTo], x) => End(todo[GoTo]) = "awaitGoal"
  /\ Has(todo[GoTo], "arrive") => End(todo[GoTo]) = "arrive"
  /\ Has(todo[GoTo], "locate") => Tail(todo[GoTo]) = <<>>
OthersStay ==
  \A t \in Threads \ {GoTo}, x \in ToGoal \cup {"arrive", "locate"} : ~Has(todo[t], x)

(* Only Dialog counts fallbacks, as its last step.                         *)
CountsLast ==
  /\ \A t \in Threads \ {Dialog}, x \in Counting : ~Has(todo[t], x)
  /\ \A x \in Counting : OnlyLast(todo[Dialog], x)

(* Only Dialog takes the next PoI, and it wraps the index around at once.  *)
TurnsOnce ==
  /\ \A t \in Threads \ {Dialog}, x \in Turning : ~Has(todo[t], x)
  /\ \A x \in Turning : Has(todo[Dialog], x) => todo[Dialog] \in Turns

Shape == Threaded /\ RouteOK /\ OthersStay /\ CountsLast /\ TurnsOnce

(* Whoever has brought the counter to the threshold is to clear it.        *)
CountBounded ==
  /\ \A x \in Counting : Has(todo[Dialog], x) => fallbacks < Threshold
  /\ fallbacks = Threshold => Has(todo[Dialog], "uncount")

(* The index is past the end of the list only between lines 390 and 391.   *)
IndexOK == index \notin PoIs => todo[Dialog] = ToWrap

TourInv == TypeOK /\ Shape /\ CountBounded /\ IndexOK

UnderWay == End(todo[GoTo]) = "awaitGoal"
Locating == Has(todo[GoTo], "locate")
MovesOnRoute ==
  /\ nav \in {"preparing", "moving"} => UnderWay
  /\ UnderWay \/ Locating => ~hasReached

SameWay == (UnderWay' <=> UnderWay) /\ (Locating' => Locating)

----------------------------------------------------------------------------
(* What may become of a thread's steps.                                    *)

LEMMA AssignShape ==
  ASSUME Shape, NEW t \in Threads, NEW s \in Seq(Steps), todo' = [todo EXCEPT ![t] = s],
         t = GoTo => /\ \A x \in ToGoal : Has(s, x) => End(s) = "awaitGoal"
                     /\ Has(s, "arrive") => End(s) = "arrive"
                     /\ Has(s, "locate") => Tail(s) = <<>>,
         t # GoTo => \A x \in ToGoal \cup {"arrive", "locate"} : ~Has(s, x),
         t # Dialog => \A x \in Counting \cup Turning : ~Has(s, x),
         t = Dialog => /\ \A x \in Counting : OnlyLast(s, x)
                       /\ \A x \in Turning : Has(s, x) => s \in Turns
  PROVE  Shape' /\ todo'[t] = s /\ \A u \in Threads \ {t} : todo'[u] = todo[u]
<1>1. GoTo \in Threads /\ Dialog \in Threads
  BY DEF Threads
<1>2. /\ Threaded' /\ todo'[t] = s
      /\ \A u \in Threads \ {t} : todo'[u] = todo[u]
  BY DEF Shape, Threaded
<1>3. RouteOK'
  BY <1>1, <1>2 DEF Shape, RouteOK
<1>4. OthersStay'
  BY <1>2 DEF Shape, OthersStay
<1>5. CountsLast'
  BY <1>1, <1>2 DEF Shape, CountsLast
<1>6. TurnsOnce'
  BY <1>1, <1>2 DEF Shape, TurnsOnce
<1> QED BY <1>2, <1>3, <1>4, <1>5, <1>6 DEF Shape

LEMMA PlainHas ==
  ASSUME NEW s \in Seq(Plain)
  PROVE  /\ s \in Seq(Steps)
         /\ \A x \in Special : ~Has(s, x) /\ OnlyLast(s, x)
<1>1. s \in Seq(Steps)
  BY SeqMono DEF Plain
<1>2. ASSUME NEW x \in Special PROVE ~Has(s, x)
  BY EndHas DEF Plain
<1>3. \A x : ~Has(s, x) => OnlyLast(s, x)
  BY DEF Has, OnlyLast
<1> QED BY <1>1, <1>2, <1>3

(* A step is replaced by plain ones.                                       *)
LEMMA AdvanceShape ==
  ASSUME Shape, NEW t \in Threads, todo[t] # <<>>, NEW more \in Seq(Plain),
         Head(todo[t]) # "increment",
         todo' = [todo EXCEPT ![t] = more \o Tail(todo[t])]
  PROVE  /\ Shape'
         /\ Head(todo[t]) # "awaitGoal" => SameWay
         /\ \A x \in Counting : Has(todo'[Dialog], x) => Has(todo[Dialog], x)
         /\ \A x : Has(todo[Dialog], x) => \/ t = Dialog /\ Head(todo[t]) = x
                                           \/ Has(todo'[Dialog], x)
<1> DEFINE s == todo[t]
           r == more \o Tail(s)
<1>1. GoTo \in Threads /\ Dialog \in Threads /\ s \in Seq(Steps)
  BY DEF Threads, Shape, Threaded
<1>2. /\ Tail(s) \in Seq(Steps)
      /\ \A x : Has(s, x) <=> Head(s) = x \/ Has(Tail(s), x)
      /\ End(s) = IF Tail(s) = <<>> THEN Head(s) ELSE End(Tail(s))
      /\ \A x : OnlyLast(s, x) => OnlyLast(Tail(s), x)
  BY <1>1, TailSteps
<1>3. /\ more \in Seq(Steps)
      /\ \A x \in Special : ~Has(more, x) /\ OnlyLast(more, x)
  BY PlainHas
<1>4. /\ r \in Seq(Steps)
      /\ \A x : Has(r, x) <=> Has(more, x) \/ Has(Tail(s), x)
      /\ Tail(s) # <<>> => End(r) = End(Tail(s))
      /\ Tail(s) = <<>> => r = more
      /\ \A x : ~Has(more, x) /\ OnlyLast(Tail(s), x) => OnlyLast(r, x)
  BY <1>2, <1>3, ConcatSteps
<1>5. \A x : Has(Tail(s), x) => Tail(s) # <<>>
  BY <1>2, EndHas
<1> HIDE DEF r
<1>6. todo' = [todo EXCEPT ![t] = r]
  BY DEF r
<1>7. /\ t = GoTo => /\ \A x \in ToGoal : Has(r, x) => End(r) = "awaitGoal"
                     /\ Has(r, "arrive") => End(r) = "arrive"
                     /\ ~Has(r, "locate")
      /\ t # GoTo => \A x \in ToGoal \cup {"arrive", "locate"} : ~Has(r, x)
  <2>1. \A x \in Special : Has(r, x) => Has(s, x) /\ Tail(s) # <<>> /\ End(r) = End(s)
    BY <1>2, <1>3, <1>4, <1>5
  <2>2. ToGoal \cup {"arrive", "locate"} \subseteq Special
    BY DEF Special
  <2> QED BY <2>1, <2>2 DEF Shape, RouteOK, OthersStay
<1>8. /\ t # Dialog => \A x \in Counting \cup Turning : ~Has(r, x)
      /\ t = Dialog => /\ \A x \in Counting : OnlyLast(r, x)
                       /\ \A x \in Turning : ~Has(r, x)
  <2>1. Counting \cup Turning \subseteq Special
    BY DEF Special
  <2>2. ASSUME t = Dialog, NEW x \in Turning, Has(r, x) PROVE FALSE
    <3>1. Has(Tail(s), x)
      BY <1>3, <1>4, <2>1, <2>2
    <3>2. s \in Turns /\ Tail(s) # <<>>
      BY <1>2, <1>5, <2>2, <3>1 DEF Shape, TurnsOnce
    <3>3. s = ToWrap
      BY <3>2, TurnSteps DEF Turns
    <3> QED BY <2>1, <2>2, <3>1, <3>3, TurnSteps, PlainHas
  <2> QED BY <1>2, <1>3, <1>4, <2>1, <2>2 DEF Shape, CountsLast, TurnsOnce
<1>9. Shape' /\ todo'[t] = r /\ \A u \in Threads \ {t} : todo'[u] = todo[u]
  BY <1>4, <1>6, <1>7, <1>8, AssignShape
<1>10. ASSUME t = GoTo, Head(s) # "awaitGoal" PROVE End(r) = "awaitGoal" <=> End(s) = "awaitGoal"
  <2>1. CASE Tail(s) # <<>>
    BY <1>2, <1>4, <2>1
  <2>2. CASE Tail(s) = <<>>
    <3>1. "awaitGoal" \in Special
      BY DEF Special, ToGoal
    <3>2. ~Has(more, "awaitGoal") /\ (more # <<>> => Has(more, End(more)))
      BY <1>3, <3>1, EndHas
    <3>3. End(more) # "awaitGoal"
      BY <3>2 DEF End
    <3> QED BY <1>2, <1>4, <1>10, <2>2, <3>3
  <2> QED BY <2>1, <2>2
<1>11. Head(s) # "awaitGoal" => SameWay
  BY <1>1, <1>7, <1>9, <1>10 DEF SameWay, UnderWay, Locating
<1>12. \A x \in Counting : Has(todo'[Dialog], x) => Has(todo[Dialog], x)
  BY <1>1, <1>2, <1>3, <1>4, <1>9 DEF Special
<1>13. ASSUME NEW x, Has(todo[Dialog], x)
       PROVE  (t = Dialog /\ Head(s) = x) \/ Has(todo'[Dialog], x)
  BY <1>1, <1>2, <1>4, <1>9, <1>13
<1> QED BY <1>9, <1>11, <1>12, <1>13

----------------------------------------------------------------------------
(* The steps of the threads.                                               *)

LEMMA ContinuePlain ==
  ASSUME Shape, NEW t \in Threads, todo[t] # <<>>, Continue(t)
  PROVE  <<>> \in Seq(Plain) /\ todo' = [todo EXCEPT ![t] = <<>> \o Tail(todo[t])]
<1>1. Tail(todo[t]) \in Seq(Steps)
  BY TailSteps DEF Shape, Threaded
<1>2. <<>> \o Tail(todo[t]) = Tail(todo[t]) /\ <<>> \in Seq(Plain)
  BY <1>1, ConcatEmptySeq, EmptySeq
<1> QED BY <1>2 DEF Continue

(* A thread goes on with plain steps, and the counter is left alone.       *)
LEMMA AdvanceCounts ==
  ASSUME Shape, CountBounded, NEW t \in Threads, todo[t] # <<>>,
         Head(todo[t]) \notin {"uncount", "increment"},
         NEW more \in Seq(Plain), todo' = [todo EXCEPT ![t] = more \o Tail(todo[t])],
         fallbacks' = fallbacks
  PROVE  Shape' /\ CountBounded' /\ (Head(todo[t]) # "awaitGoal" => SameWay)
BY AdvanceShape DEF CountBounded

(* A thread gets a new list of plain steps, Dialog only a first one.       *)
LEMMA AssignCounts ==
  ASSUME Shape, CountBounded, NEW t \in Threads, t = Dialog => todo[t] = <<>>,
         NEW s \in Seq(Plain), todo' = [todo EXCEPT ![t] = s], fallbacks' = fallbacks
  PROVE  Shape' /\ CountBounded' /\ (t = GoTo => ~UnderWay' /\ ~Locating')
         /\ (t # GoTo => SameWay)
<1>1. GoTo \in Threads /\ Dialog \in Threads
  BY DEF Threads
<1>2. /\ s \in Seq(Steps)
      /\ \A x \in ToGoal \cup {"arrive", "locate"} \cup Counting \cup Turning :
           ~Has(s, x) /\ OnlyLast(s, x)
  BY PlainHas DEF Special
<1>3. Shape' /\ todo'[t] = s /\ \A u \in Threads \ {t} : todo'[u] = todo[u]
  BY <1>2, AssignShape
<1>4. CountBounded'
  <2>1. CASE t = Dialog
    <3>1. \A x : ~Has(<<>>, x)
      BY EmptySeq DEF Has
    <3>2. fallbacks # Threshold
      BY <2>1, <3>1 DEF CountBounded
    <3> QED BY <1>2, <1>3, <2>1, <3>2 DEF CountBounded
  <2>2. CASE t # Dialog
    BY <1>1, <1>3, <2>2 DEF CountBounded
  <2> QED BY <2>1, <2>2
<1>5. End(s) # "awaitGoal"
  <2>1. ~Has(s, "awaitGoal")
    BY <1>2 DEF ToGoal
  <2> QED BY <2>1, EndHas DEF End
<1> QED BY <1>1, <1>2, <1>3, <1>4, <1>5 DEF SameWay, UnderWay, Locating

(* Dialog takes up nextPoi, or has a step of it done.                      *)
LEMMA TurnAssigned ==
  ASSUME Shape, CountBounded, fallbacks' = fallbacks, NEW s \in Turns,
         fallbacks = Threshold => s \in {Turn, ToWrap},
         todo' = [todo EXCEPT ![Dialog] = s]
  PROVE  /\ Shape' /\ CountBounded' /\ SameWay /\ todo'[Dialog] = s
<1>1. Dialog \in Threads /\ GoTo \in Threads /\ GoTo # Dialog
  BY DEF Threads, GoTo, Dialog
<1>2. <<"nextPoi">> \in Seq(Steps) /\ \A x : Has(<<"nextPoi">>, x) => x = "nextPoi"
  BY DEF Has, Steps, Interpreted, Script
<1>3. /\ s \in Seq(Steps) /\ \A x \in Special : Has(s, x) => x \in Turning
      /\ s \in {Turn, ToWrap} => Has(s, "uncount")
  BY <1>2, TurnSteps DEF Turns, Turning
<1>4. \A x \in ToGoal \cup {"arrive", "locate"} \cup Counting : x \in Special \ Turning
  BY DEF Special, Turning, ToGoal, Counting
<1>5. /\ \A x \in ToGoal \cup {"arrive", "locate"} \cup Counting : ~Has(s, x)
      /\ \A x \in Counting : OnlyLast(s, x)
  BY <1>3, <1>4 DEF Has, OnlyLast
<1>6. Shape' /\ todo'[Dialog] = s /\ \A u \in Threads \ {Dialog} : todo'[u] = todo[u]
  BY <1>1, <1>3, <1>5, AssignShape
<1>7. CountBounded'
  BY <1>3, <1>5, <1>6 DEF CountBounded
<1> QED BY <1>1, <1>6, <1>7 DEF SameWay, UnderWay, Locating

LEMMA ShortPlain ==
  /\ <<>> \in Seq(Plain) /\ <<"announce">> \in Seq(Plain)
  /\ <<"headReset", "navigationError">> \in Seq(Plain) /\ <<"navigationError">> \in Seq(Plain)
  /\ <<"headReset", "markInterrupted">> \in Seq(Plain) /\ <<"uninterrupt">> \in Seq(Plain)
  /\ <<"resume">> \in Seq(Plain) /\ <<"hear">> \in Seq(Plain)
  /\ <<"uncount", "hear">> \in Seq(Plain) /\ <<"sayWhileNavigating">> \in Seq(Plain)
  /\ <<"language", "startpoi", "hear">> \in Seq(Plain)
  /\ <<"stopNavigation", "cutSpeech", "watchdogError">> \in Seq(Plain)
  /\ <<"headReset", "ifArrived">> \in Seq(Plain) /\ <<"headReset">> \in Seq(Plain)
<1>1. {"announce", "headReset", "navigationError", "markInterrupted", "uninterrupt", "resume",
       "hear", "uncount", "sayWhileNavigating", "language", "startpoi", "stopNavigation",
       "cutSpeech", "watchdogError", "ifArrived"} \subseteq Plain
  BY DEF Plain, Special, Steps, Interpreted, Script, ToGoal, Counting, Turning
<1> QED BY <1>1

(* Whose steps change how.                                                 *)
Advances(t) ==
  /\ todo[t] # <<>>
  /\ \E more \in Seq(Plain) : todo' = [todo EXCEPT ![t] = more \o Tail(todo[t])]

LEMMA ContinueAdvances ==
  ASSUME Shape, NEW t \in Threads, todo[t] # <<>>, Continue(t) PROVE Advances(t)
BY ContinuePlain DEF Advances

(* The steps that neither count nor end a movement.                        *)
LEMMA StepAdvances ==
  ASSUME Shape, NEW t \in Threads,
         \/ Say(t) \/ Push(t) \/ AwaitSpeech(t) \/ AwaitQuiet(t) \/ HeadReset(t) \/ Hear(t)
         \/ Wrap(t) \/ FirstPoI(t) \/ SetLanguage(t)
         \/ GotoTarget(t) \/ WhileMoving(t) \/ Arrive(t) \/ Announce(t) \/ AnnounceStart(t)
         \/ StopNavigation(t) \/ CutSpeech(t) \/ MarkInterrupted(t)
         \/ IfArrived(t) \/ ResumeHearing(t)
  PROVE  /\ Advances(t) /\ Head(todo[t]) \notin {"uncount", "awaitGoal", "increment"}
         /\ fallbacks' = fallbacks
<1>1. CASE Say(t) \/ Push(t) \/ AwaitSpeech(t) \/ AwaitQuiet(t) \/ HeadReset(t) \/ Hear(t)
  BY <1>1, ContinueAdvances
  DEF Say, Push, AwaitSpeech, AwaitQuiet, HeadReset, Hear, At, talk
<1>2. CASE Wrap(t) \/ FirstPoI(t) \/ SetLanguage(t)
  BY <1>2, ContinueAdvances DEF Wrap, FirstPoI, SetLanguage, UpdatePoI, At, talk
<1>3. CASE GotoTarget(t) \/ AnnounceStart(t) \/ StopNavigation(t) \/ MarkInterrupted(t)
            \/ ResumeHearing(t)
  BY <1>3, ContinueAdvances
  DEF GotoTarget, AnnounceStart, StopNavigation, MarkInterrupted, ResumeHearing, At, talk
<1>4. CASE Arrive(t) \/ Announce(t)
  BY <1>4, ShortPlain DEF Arrive, Announce, Advances, Then, At, talk
<1>5. CASE CutSpeech(t)
  BY <1>5, ShortPlain DEF CutSpeech, Advances, Then, At, talk
<1>6. CASE WhileMoving(t)
  <2>1. <<"say", "push">> \o BlockSpeak \o <<"uninterrupt">> \in Seq(Plain)
    BY ShortPlain, SayPlain
  <2> QED BY <1>6, <2>1, ShortPlain DEF WhileMoving, Advances, Then, At, talk
<1>7. CASE IfArrived(t)
  <2> DEFINE repeat == IF interrupted THEN <<"say", "push">> \o BlockSpeak \o <<"uninterrupt">> ELSE <<>>
  <2>1. repeat \in Seq(Plain)
    BY ShortPlain, SayPlain
  <2>2. repeat \o <<"resume">> \in Seq(Plain)
    BY <2>1, ShortPlain, ConcatProperties
  <2>3. (IF nav # "reached" THEN <<>> ELSE repeat \o <<"resume">>) \in Seq(Plain)
    BY <2>2, ShortPlain
  <2> QED BY <1>7, <2>3 DEF IfArrived, Advances, Then, At, talk
<1> QED BY <1>1, <1>2, <1>3, <1>4, <1>5, <1>6, <1>7

----------------------------------------------------------------------------
(* Types.                                                                  *)

LEMMA CountsBelow ==
  ASSUME Shape, CountBounded, NEW t \in Threads, At(t, "count")
  PROVE  t = Dialog /\ fallbacks < Threshold /\ Tail(todo[t]) = <<>>
<1>1. Has(todo[t], "count")
  BY TailSteps DEF Shape, Threaded, At
<1>2. t = Dialog
  BY <1>1 DEF Shape, CountsLast, Counting
<1>3. fallbacks < Threshold /\ OnlyLast(todo[t], "count")
  BY <1>1, <1>2 DEF CountBounded, Counting, Shape, CountsLast
<1> QED BY <1>2, <1>3, TailSteps DEF At, Shape, Threaded

(* Between the increment and the wrap Dialog does nothing else.            *)
LEMMA HeadsTurn ==
  ASSUME Shape, NEW t \in Threads, todo[t] # <<>>, Head(todo[t]) \in Turning
  PROVE  /\ t = Dialog
         /\ Head(todo[t]) = "nextPoi" => todo[t] = <<"nextPoi">>
         /\ Head(todo[t]) = "increment" => todo[t] = Turn
         /\ Head(todo[t]) = "wrap" => todo[t] = ToWrap
<1>1. Has(todo[t], Head(todo[t]))
  BY TailSteps DEF Shape, Threaded
<1>2. t = Dialog /\ todo[t] \in Turns
  BY <1>1 DEF Shape, TurnsOnce
<1> QED BY <1>2, TurnSteps DEF Turns

LEMMA PlacesTyped ==
  ASSUME NEW p \in PoIs PROVE LocationOf[p] \in Places
BY DEF Places

LEMMA PoIsTyped ==
  /\ StartPoI \in PoIs /\ PoIs \subseteq 1..(Stops + 1)
  /\ \A i \in 1..(Stops + 1) : ((i - 1) % Stops) + 1 \in PoIs
  /\ \A i \in PoIs : i + 1 \in 1..(Stops + 1)
BY TourConstantsOK DEF PoIs, StartPoI

LEMMA StepTyped ==
  ASSUME TourInv, NEW t \in Threads, Step(t), Threaded' PROVE TypeOK'
<1>0. TypeOK
  BY DEF TourInv
<1> USE DEF tour, arrival, talk, speech, world
<1>1. CASE UNCHANGED <<tour, arrival, firstStart, talk, goal, failing, speech, world>>
  BY <1>0, <1>1 DEF TypeOK, Threaded
<1>2. CASE Say(t) \/ Push(t) \/ HeadReset(t)
  BY <1>0, <1>2 DEF Say, Push, HeadReset, TypeOK, Threaded
<1>3. CASE Count(t)
  <2>1. fallbacks < Threshold
    BY <1>3, CountsBelow DEF TourInv, Count
  <2>2. fallbacks' \in 0..Threshold
    BY <1>0, <1>3, <2>1 DEF Count, TypeOK, Threshold
  <2> QED BY <1>0, <1>3, <2>2 DEF Count, TypeOK, Threaded
<1>4. CASE Uncount(t)
  BY <1>0, <1>4 DEF Uncount, TypeOK, Threaded, Threshold
<1>5. CASE Increment(t)
  <2>1. index \in PoIs
    BY <1>5, HeadsTurn, TurnSteps DEF TourInv, Increment, At, IndexOK, Turning
  <2> QED BY <1>0, <1>5, <2>1, PoIsTyped DEF Increment, TypeOK, Threaded
<1>9. CASE Wrap(t) \/ FirstPoI(t) \/ SetLanguage(t)
  BY <1>0, <1>9, PoIsTyped DEF Wrap, FirstPoI, SetLanguage, UpdatePoI, TypeOK, Threaded
<1>10. CASE Locate(t)
  <2>1. LocationOf[currentPoI] \in Places
    BY <1>0, PlacesTyped DEF TypeOK
  <2> QED BY <1>0, <1>10, <2>1 DEF Locate, TypeOK, Threaded
<1>6. CASE GotoTarget(t)
  <2>1. LocationOf[currentPoI] \in Places
    BY <1>0, PlacesTyped DEF TypeOK
  <2> QED BY <1>0, <1>6, <2>1 DEF GotoTarget, TypeOK, Threaded, NavStatus
<1>7. CASE Arrive(t) \/ AnnounceStart(t) \/ MarkInterrupted(t)
  BY <1>0, <1>7 DEF Arrive, AnnounceStart, MarkInterrupted, TypeOK, Threaded
<1>8. CASE StopNavigation(t)
  BY <1>0, <1>8 DEF StopNavigation, NavigationStops, TypeOK, Threaded, NavStatus
<1> QED
  BY <1>1, <1>2, <1>3, <1>4, <1>5, <1>6, <1>7, <1>8, <1>9, <1>10
  DEF Step, InterpretCommand, AwaitSpeech, AwaitQuiet, Hear, AwaitMoving, WhileMoving,
      AwaitGoal, Announce, CutSpeech, IfArrived, ResumeHearing

----------------------------------------------------------------------------
(* The steps that count or end a movement.                                 *)

LEMMA InterpretShape ==
  ASSUME Shape, CountBounded, NEW t \in Threads, InterpretCommand(t)
  PROVE  Shape' /\ CountBounded' /\ SameWay
<1> PICK c \in Interpreted : /\ At(t, c)
                             /\ \E steps \in Script[c] : Then(t, steps)
                             /\ UNCHANGED <<tour, arrival, firstStart, talk, goal, failing,
                                            speech, world>>
  BY DEF InterpretCommand
<1> PICK steps \in Script[c] : Then(t, steps)
  OBVIOUS
<1>1. fallbacks' = fallbacks /\ todo[t] # <<>> /\ Head(todo[t]) = c
      /\ todo' = [todo EXCEPT ![t] = steps \o Tail(todo[t])]
      /\ GoTo \in Threads /\ Dialog \in Threads
  BY DEF talk, At, Then, Threads
<1>2. c \notin {"uncount", "awaitGoal", "increment"}
  BY DEF Interpreted, Script
<1>3. CASE c \notin {"fallback", "nextPoi"}
  <2>1. steps \in Seq(Plain)
    BY <1>3, ScriptSteps
  <2> QED BY <1>1, <1>2, <2>1, AdvanceCounts
<1>4. CASE c = "fallback"
  <2>1. Has(todo[t], "fallback")
    BY <1>1, <1>4, TailSteps DEF Shape, Threaded
  <2>2. t = Dialog
    BY <2>1 DEF Shape, CountsLast, Counting
  <2>3. fallbacks < Threshold /\ OnlyLast(todo[t], "fallback")
    BY <2>1, <2>2 DEF CountBounded, Shape, CountsLast, Counting
  <2>4. Tail(todo[t]) = <<>>
    BY <1>1, <1>4, <2>3, TailSteps DEF Shape, Threaded
  <2>5. steps = AskAgain /\ AskAgain \o <<>> = AskAgain
    BY <1>4, ScriptSteps, AskAgainCounts, ConcatEmptySeq
  <2>6. todo' = [todo EXCEPT ![t] = AskAgain]
    BY <1>1, <2>4, <2>5
  <2>7. /\ \A x \in ToGoal \cup {"arrive", "locate"} \cup Turning : ~Has(AskAgain, x)
        /\ \A x \in Counting : OnlyLast(AskAgain, x)
    BY AskAgainCounts DEF Counting, Turning, ToGoal, Special, Has, OnlyLast
  <2>8. GoTo # Dialog
    BY DEF GoTo, Dialog
  <2>9. Shape' /\ \A u \in Threads \ {t} : todo'[u] = todo[u]
    BY <2>2, <2>6, <2>7, <2>8, AskAgainCounts, AssignShape
  <2>10. CountBounded'
    BY <1>1, <2>3 DEF CountBounded, Threshold
  <2>11. SameWay
    BY <1>1, <2>2, <2>8, <2>9 DEF SameWay, UnderWay, Locating
  <2> QED BY <2>9, <2>10, <2>11
<1>5. CASE c = "nextPoi"
  <2>1. steps = Turn
    BY <1>5, ScriptSteps
  <2>2. t = Dialog /\ todo[t] = <<"nextPoi">> /\ Tail(todo[t]) = <<>>
    BY <1>1, <1>5, HeadsTurn, TurnSteps DEF Turning
  <2>3. Turn \o <<>> = Turn
    BY TurnSteps, ConcatEmptySeq
  <2>4. todo' = [todo EXCEPT ![t] = Turn]
    BY <1>1, <2>1, <2>2, <2>3
  <2>5. Shape' /\ CountBounded' /\ SameWay
    BY <1>1, <2>2, <2>4, TurnAssigned DEF Turns
  <2> QED BY <2>5
<1> QED BY <1>3, <1>4, <1>5

LEMMA CountShape ==
  ASSUME Shape, CountBounded, NEW t \in Threads, Count(t)
  PROVE  Shape' /\ CountBounded' /\ SameWay
<1>1. t = Dialog /\ fallbacks < Threshold /\ Tail(todo[t]) = <<>>
      /\ todo[t] # <<>> /\ Head(todo[t]) = "count" /\ fallbacks' = fallbacks + 1
      /\ Dialog \in Threads
  BY CountsBelow DEF Count, At, Threads
<1>2. PICK more \in Seq(Plain) : /\ todo' = [todo EXCEPT ![t] = more \o Tail(todo[t])]
                                 /\ fallbacks' = Threshold => Has(more, "uncount")
  <2> DEFINE again == <<"say", "push">> \o BlockSpeak \o <<"uncount", "hear">>
  <2>1. again \in Seq(Plain) /\ <<"hear">> \in Seq(Plain)
    BY ShortPlain, SayPlain
  <2>2. Has(again, "uncount")
    <3>1. Has(<<"uncount", "hear">>, "uncount")
      BY DEF Has
    <3>2. <<"say", "push">> \o BlockSpeak \in Seq(Plain) /\ <<"uncount", "hear">> \in Seq(Plain)
      BY ShortPlain, SayPlain
    <3> QED BY <3>1, <3>2, ConcatSteps
  <2> HIDE DEF again
  <2>3. Count(t) => todo' = [todo EXCEPT ![t] =
                       (IF fallbacks' = Threshold THEN again ELSE <<"hear">>) \o Tail(todo[t])]
    BY DEF Count, Then, again
  <2> QED BY <2>1, <2>2, <2>3
<1>3. Shape' /\ SameWay /\ todo'[t] = more
  <2>1. more \o Tail(todo[t]) = more
    BY <1>1, ConcatEmptySeq
  <2>2. todo' = [todo EXCEPT ![t] = more]
    BY <1>2, <2>1
  <2>3. todo'[t] = more
    BY <2>2 DEF Shape, Threaded
  <2>4. Shape' /\ (Head(todo[t]) # "awaitGoal" => SameWay)
    BY <1>1, <1>2, AdvanceShape
  <2> QED BY <1>1, <2>3, <2>4
<1>4. \A x \in Counting : ~Has(todo'[Dialog], x)
  BY <1>1, <1>3, PlainHas DEF Special
<1>5. fallbacks' = Threshold => Has(todo'[Dialog], "uncount")
  BY <1>1, <1>2, <1>3
<1> QED BY <1>3, <1>4, <1>5 DEF CountBounded

LEMMA UncountShape ==
  ASSUME Shape, CountBounded, NEW t \in Threads, Uncount(t)
  PROVE  Shape' /\ CountBounded' /\ SameWay
<1>1. todo[t] # <<>> /\ Head(todo[t]) = "uncount" /\ fallbacks' = 0
      /\ <<>> \in Seq(Plain) /\ todo' = [todo EXCEPT ![t] = <<>> \o Tail(todo[t])]
  BY ContinuePlain DEF Uncount, At
<1>2. Shape' /\ SameWay
  BY <1>1, AdvanceShape
<1> QED BY <1>1, <1>2 DEF CountBounded, Threshold

(* The two steps at which sendToPoI may return.                            *)
LEMMA ReturnShape ==
  ASSUME Shape, CountBounded, NEW t \in Threads, AwaitMoving(t) \/ AwaitGoal(t)
  PROVE  /\ t = GoTo /\ Shape' /\ CountBounded'
         /\ AwaitMoving(t) /\ nav = "moving" => SameWay
         /\ ~(AwaitMoving(t) /\ nav = "moving") => ~UnderWay' /\ ~Locating'
<1>1. todo[t] # <<>> /\ Head(todo[t]) \in ToGoal /\ fallbacks' = fallbacks
      /\ Head(todo[t]) \notin {"uncount", "increment"}
  BY DEF AwaitMoving, AwaitGoal, At, ToGoal, talk
<1>2. Has(todo[t], Head(todo[t]))
  BY <1>1, TailSteps DEF Shape, Threaded
<1>3. t = GoTo /\ t # Dialog
  BY <1>1, <1>2 DEF Shape, OthersStay, GoTo, Dialog
<1>4. CASE AwaitMoving(t) /\ nav = "moving"
  <2>1. Continue(t) /\ Head(todo[t]) # "awaitGoal"
    BY <1>4 DEF AwaitMoving, At
  <2>2. <<>> \in Seq(Plain) /\ todo' = [todo EXCEPT ![t] = <<>> \o Tail(todo[t])]
    BY <1>1, <2>1, ContinuePlain
  <2> QED BY <1>1, <1>3, <1>4, <2>1, <2>2, AdvanceCounts
<1>5. CASE AwaitMoving(t) /\ nav # "moving"
  <2>1. todo' = [todo EXCEPT ![t] = <<>>]
    BY <1>5 DEF AwaitMoving, Return
  <2> QED BY <1>1, <1>3, <1>5, <2>1, ShortPlain, AssignCounts
<1>6. CASE AwaitGoal(t)
  <2>1. /\ Head(todo[t]) = "awaitGoal" /\ ~AwaitMoving(t)
    BY <1>6 DEF AwaitGoal, AwaitMoving, At
  <2>2. CASE nav # "reached"
    <3> DEFINE s == IF nav = "idle" THEN <<>>
                    ELSE (IF isSpeaking THEN <<"headReset">> ELSE <<>>)
                           \o <<"navigationError">>
    <3>1. s \in Seq(Plain)
      BY ShortPlain, ConcatProperties
    <3>2. todo' = [todo EXCEPT ![t] = s]
      BY <1>6, <2>2 DEF AwaitGoal
    <3> HIDE DEF s
    <3> QED BY <1>1, <1>3, <2>1, <3>1, <3>2, AssignCounts
  <2>3. CASE nav = "reached"
    <3>1. todo' = [todo EXCEPT ![t] = <<"arrive">>]
      BY <1>6, <2>3 DEF AwaitGoal
    <3>2. /\ <<"arrive">> \in Seq(Steps) /\ End(<<"arrive">>) = "arrive"
          /\ \A x \in ToGoal \cup {"locate"} \cup Counting \cup Turning :
               ~Has(<<"arrive">>, x)
      BY DEF Steps, Has, End, ToGoal, Counting, Turning
    <3>3. Shape' /\ todo'[t] = <<"arrive">> /\ \A u \in Threads \ {t} : todo'[u] = todo[u]
      BY <1>3, <3>1, <3>2, AssignShape
    <3>4. CountBounded' /\ ~UnderWay' /\ ~Locating'
      BY <1>1, <1>3, <3>2, <3>3 DEF CountBounded, UnderWay, Locating, Threads
    <3> QED BY <1>3, <2>1, <3>3, <3>4
  <2> QED BY <2>2, <2>3
<1> QED BY <1>4, <1>5, <1>6

LEMMA IncrementShape ==
  ASSUME Shape, CountBounded, NEW t \in Threads, Increment(t)
  PROVE  Shape' /\ CountBounded' /\ SameWay /\ t = Dialog /\ todo'[t] = ToWrap
<1>1. t = Dialog /\ Tail(todo[t]) = ToWrap /\ Continue(t) /\ fallbacks' = fallbacks
  BY HeadsTurn, TurnSteps DEF Increment, At, Turning, talk
<1>2. todo' = [todo EXCEPT ![Dialog] = ToWrap] /\ ToWrap \in Turns
  BY <1>1 DEF Continue, Turns
<1> QED BY <1>1, <1>2, TurnAssigned

(* Once the PoI is located the route is the steps of a movement; where the *)
(* coordinates are the same there is none.                                 *)
Move4 == <<"gotoTarget", "awaitMoving", "whileMoving", "awaitGoal">>
Route(first) == (IF first THEN <<>> ELSE <<"warningNextNavigation">>) \o Move4

LEMMA RouteSteps ==
  ASSUME NEW first \in BOOLEAN
  PROVE  /\ Route(first) \in Seq(Steps) /\ End(Route(first)) = "awaitGoal"
         /\ \A x \in Special \ ToGoal : ~Has(Route(first), x)
<1> DEFINE warning == IF first THEN <<>> ELSE <<"warningNextNavigation">>
<1>1. <<>> \in Seq(Plain) /\ <<"warningNextNavigation">> \in Seq(Plain)
  BY DEF Plain, Special, Steps, Interpreted, Script, ToGoal, Counting, Turning
<1>2. /\ warning \in Seq(Steps)
      /\ \A x \in Special : ~Has(warning, x)
  BY <1>1, PlainHas
<1>3. {"gotoTarget", "awaitMoving", "whileMoving", "awaitGoal"} \subseteq Steps
  BY DEF Steps
<1>4. /\ Move4 \in Seq(Steps) /\ Move4 # <<>> /\ End(Move4) = "awaitGoal"
      /\ \A x : Has(Move4, x) => x \in ToGoal
  BY <1>3 DEF Move4, Has, End, ToGoal
<1>5. Route(first) = warning \o Move4
  BY DEF Route
<1> HIDE DEF warning
<1>6. /\ warning \o Move4 \in Seq(Steps) /\ End(warning \o Move4) = "awaitGoal"
      /\ \A x : Has(warning \o Move4, x) <=> Has(warning, x) \/ Has(Move4, x)
  BY <1>2, <1>4, ConcatSteps
<1> QED BY <1>2, <1>4, <1>5, <1>6

LEMMA LocateShape ==
  ASSUME Shape, CountBounded, NEW t \in Threads, Locate(t), firstStart \in BOOLEAN
  PROVE  Shape' /\ CountBounded' /\ t = GoTo /\ Locating /\ ~UnderWay /\ ~Locating'
<1>1. todo[t] # <<>> /\ Head(todo[t]) = "locate" /\ fallbacks' = fallbacks
      /\ todo[t] \in Seq(Steps)
  BY DEF Locate, At, talk, Shape, Threaded
<1>2. Has(todo[t], "locate") /\ t = GoTo /\ t # Dialog /\ Dialog \in Threads
  BY <1>1, TailSteps DEF Shape, OthersStay, GoTo, Dialog, Threads
<1>3. Tail(todo[t]) = <<>>
  BY <1>2 DEF Shape, RouteOK
<1>4. Locating /\ ~UnderWay
  BY <1>1, <1>2, <1>3, TailSteps DEF Locating, UnderWay
<1>5. CASE Return(t)
  <2>1. todo' = [todo EXCEPT ![t] = <<>>]
    BY <1>5 DEF Return
  <2> QED BY <1>1, <1>2, <1>4, <2>1, ShortPlain, AssignCounts
<1>6. CASE ~Return(t)
  <2>1. PICK s \in {<<"arrive">>, Route(firstStart)} : todo' = [todo EXCEPT ![t] = s]
    BY <1>6 DEF Locate, Route, Move4
  <2>2. /\ <<"arrive">> \in Seq(Steps) /\ End(<<"arrive">>) = "arrive"
        /\ \A x : Has(<<"arrive">>, x) => x = "arrive"
    BY DEF Steps, Has, End
  <2>3. {"arrive", "locate"} \cup Counting \cup Turning \subseteq Special \ ToGoal
        /\ "arrive" \notin ToGoal \cup {"locate"} \cup Counting \cup Turning
    BY DEF Special, ToGoal, Counting, Turning
  <2>4. /\ s \in Seq(Steps) /\ ~Has(s, "locate")
        /\ \A x \in Counting \cup Turning : ~Has(s, x)
        /\ \A x \in ToGoal : Has(s, x) => End(s) = "awaitGoal"
        /\ Has(s, "arrive") => End(s) = "arrive"
    BY <2>2, <2>3, RouteSteps
  <2>5. Shape' /\ todo'[t] = s /\ \A u \in Threads \ {t} : todo'[u] = todo[u]
    BY <1>2, <2>1, <2>4, AssignShape
  <2>6. CountBounded'
    BY <1>1, <1>2, <2>5 DEF CountBounded
  <2> QED BY <1>2, <1>4, <2>4, <2>5, <2>6 DEF Locating
<1> QED BY <1>5, <1>6

(* The index comes back into the list before Dialog does anything else.    *)
LEMMA StepIndex ==
  ASSUME TourInv, NEW t \in Threads, Step(t), Threaded' PROVE IndexOK'
<1>1. TypeOK /\ Shape /\ CountBounded /\ IndexOK /\ Dialog \in Threads
  BY DEF TourInv, Threads
<1>2. CASE Increment(t)
  BY <1>1, <1>2, IncrementShape DEF IndexOK
<1>3. CASE Wrap(t) \/ FirstPoI(t)
  BY <1>1, <1>3, PoIsTyped DEF Wrap, FirstPoI, IndexOK, TypeOK
<1>4. CASE ~(Increment(t) \/ Wrap(t) \/ FirstPoI(t))
  <2>1. index' = index /\ (t = Dialog => ~At(t, "wrap"))
    BY <1>4
    DEF Step, InterpretCommand, Say, Push, AwaitSpeech, AwaitQuiet, HeadReset, Count, Uncount,
        Hear, SetLanguage, UpdatePoI, Locate, GotoTarget, AwaitMoving, WhileMoving, AwaitGoal,
        Arrive, Announce, AnnounceStart, StopNavigation, CutSpeech, MarkInterrupted, IfArrived,
        ResumeHearing, At, tour, Interpreted, Script
  <2>2. CASE t = Dialog
    BY <1>1, <2>1, <2>2, TurnSteps DEF IndexOK, At
  <2>3. CASE t # Dialog
    <3>1. todo'[Dialog] = todo[Dialog]
      BY <1>1, <1>4, <2>3
      DEF Step, InterpretCommand, Say, Push, AwaitSpeech, AwaitQuiet, HeadReset, Count, Uncount,
        Hear, SetLanguage, UpdatePoI, Locate, GotoTarget, AwaitMoving, WhileMoving, AwaitGoal,
        Arrive, Announce, AnnounceStart, StopNavigation, CutSpeech, MarkInterrupted, IfArrived,
        ResumeHearing, Continue, Then, Return, Shape, Threaded
    <3> QED BY <1>1, <2>1, <3>1 DEF IndexOK
  <2> QED BY <2>2, <2>3
<1> QED BY <1>2, <1>3, <1>4

----------------------------------------------------------------------------
(* Every step of every thread keeps the invariant.                         *)
IInv == TourInv /\ (Punctual => MovesOnRoute)

LEMMA StepShape ==
  ASSUME TourInv, NEW t \in Threads, Step(t)
  PROVE  TourInv'
<1>1. Shape /\ CountBounded
  BY DEF TourInv
<1>2. Shape' /\ CountBounded'
  <2>1. CASE \/ Say(t) \/ Push(t) \/ AwaitSpeech(t) \/ AwaitQuiet(t) \/ HeadReset(t) \/ Hear(t)
             \/ Wrap(t) \/ FirstPoI(t) \/ SetLanguage(t)
             \/ GotoTarget(t) \/ WhileMoving(t) \/ Arrive(t) \/ Announce(t) \/ AnnounceStart(t)
             \/ StopNavigation(t) \/ CutSpeech(t) \/ MarkInterrupted(t)
             \/ IfArrived(t) \/ ResumeHearing(t)
    BY <1>1, <2>1, StepAdvances, AdvanceCounts DEF Advances
  <2>2. CASE InterpretCommand(t)
    BY <1>1, <2>2, InterpretShape
  <2>3. CASE Count(t)
    BY <1>1, <2>3, CountShape
  <2>4. CASE Uncount(t)
    BY <1>1, <2>4, UncountShape
  <2>5. CASE AwaitMoving(t) \/ AwaitGoal(t)
    BY <1>1, <2>5, ReturnShape
  <2>6. CASE Increment(t)
    BY <1>1, <2>6, IncrementShape
  <2>7. CASE Locate(t)
    BY <1>1, <2>7, LocateShape DEF TourInv, TypeOK
  <2> QED BY <2>1, <2>2, <2>3, <2>4, <2>5, <2>6, <2>7 DEF Step
<1>3. TypeOK'
  BY <1>2, StepTyped DEF Shape
<1>4. IndexOK'
  BY <1>1, <1>2, StepIndex DEF TourInv, Shape
<1> QED BY <1>2, <1>3, <1>4 DEF TourInv

LEMMA StepRoute ==
  ASSUME TourInv, Punctual, MovesOnRoute, NEW t \in Threads, Step(t)
  PROVE  MovesOnRoute'
<1>1. Shape /\ CountBounded
  BY DEF TourInv
<1>2. todo[t] # <<>> => Has(todo[t], Head(todo[t]))
  BY <1>1, TailSteps DEF Shape, Threaded
<1> USE DEF arrival, world
<1>3. CASE AwaitMoving(t)
  <2>1. /\ nav = "moving" => SameWay
        /\ nav # "moving" => ~UnderWay' /\ ~Locating'
    BY <1>1, <1>3, ReturnShape
  <2>2. nav' = nav /\ hasReached' = hasReached /\ (nav # "moving" => nav # "preparing")
    BY <1>3 DEF AwaitMoving
  <2> QED BY <2>1, <2>2 DEF MovesOnRoute, SameWay
<1>4. CASE AwaitGoal(t)
  <2>1. ~UnderWay' /\ ~Locating'
    BY <1>1, <1>4, ReturnShape DEF AwaitGoal, AwaitMoving, At
  <2>2. nav' = nav /\ nav \notin {"moving", "preparing"}
    BY <1>4 DEF AwaitGoal
  <2> QED BY <2>1, <2>2 DEF MovesOnRoute
<1>5. CASE Arrive(t)
  <2>1. SameWay
    BY <1>1, <1>5, StepAdvances, AdvanceCounts DEF Advances
  <2>2. Has(todo[t], "arrive")
    BY <1>2, <1>5 DEF Arrive, At
  <2>3. ~UnderWay /\ ~Locating
    <3>1. t = GoTo /\ End(todo[GoTo]) = "arrive" /\ Head(todo[GoTo]) = "arrive"
      BY <1>1, <1>5, <2>2 DEF Shape, RouteOK, OthersStay, Arrive, At
    <3>2. ~Has(todo[GoTo], "locate")
      <4>1. \A x : ~Has(<<>>, x)
        BY EmptySeq DEF Has
      <4> QED BY <1>1, <1>5, <3>1, <4>1, TailSteps DEF Shape, Threaded, RouteOK, Arrive, At
    <3> QED BY <3>1, <3>2 DEF UnderWay, Locating
  <2>4. nav' = nav
    BY <1>5 DEF Arrive
  <2> QED BY <2>1, <2>3, <2>4 DEF MovesOnRoute, SameWay
<1>6. CASE GotoTarget(t)
  <2>1. SameWay
    BY <1>1, <1>6, StepAdvances, AdvanceCounts DEF Advances
  <2>2. Has(todo[t], "gotoTarget")
    BY <1>2, <1>6 DEF GotoTarget, At
  <2>3. UnderWay
    BY <1>1, <2>2 DEF Shape, RouteOK, OthersStay, UnderWay, ToGoal
  <2>4. hasReached' = hasReached
    BY <1>6 DEF GotoTarget
  <2> QED BY <2>1, <2>3, <2>4 DEF MovesOnRoute, SameWay
<1>7. CASE StopNavigation(t)
  <2>1. SameWay
    BY <1>1, <1>7, StepAdvances, AdvanceCounts DEF Advances
  <2>2. hasReached' = hasReached /\ (nav' = "idle" \/ nav' = nav)
    BY <1>7 DEF StopNavigation, NavigationStops
  <2> QED BY <2>1, <2>2 DEF MovesOnRoute, SameWay
<1>8. ASSUME SameWay, nav' = nav, hasReached' = hasReached
      PROVE  MovesOnRoute'
  BY <1>8 DEF MovesOnRoute, SameWay
<1>9. CASE InterpretCommand(t) \/ Count(t) \/ Uncount(t) \/ Increment(t)
  <2>1. SameWay
    BY <1>1, <1>9, InterpretShape, CountShape, UncountShape, IncrementShape
  <2>2. nav' = nav /\ hasReached' = hasReached
    BY <1>9 DEF InterpretCommand, Count, Uncount, Increment
  <2> QED BY <1>8, <2>1, <2>2
<1>11. CASE Locate(t)
  <2>1. Locating /\ ~UnderWay /\ ~Locating'
    BY <1>1, <1>11, LocateShape DEF TourInv, TypeOK
  <2>2. nav' = nav /\ hasReached' = hasReached
    BY <1>11 DEF Locate
  <2> QED BY <2>1, <2>2 DEF MovesOnRoute
<1>10. CASE \/ Say(t) \/ Push(t) \/ AwaitSpeech(t) \/ AwaitQuiet(t) \/ HeadReset(t) \/ Hear(t)
            \/ Wrap(t) \/ FirstPoI(t) \/ SetLanguage(t)
            \/ WhileMoving(t) \/ Announce(t) \/ AnnounceStart(t)
            \/ CutSpeech(t) \/ MarkInterrupted(t) \/ IfArrived(t) \/ ResumeHearing(t)
  <2>1. SameWay
    BY <1>1, <1>10, StepAdvances, AdvanceCounts DEF Advances
  <2>2. nav' = nav /\ hasReached' = hasReached
    BY <1>10
    DEF Say, Push, AwaitSpeech, AwaitQuiet, HeadReset, Hear, Wrap, FirstPoI, SetLanguage, UpdatePoI,
        WhileMoving, Announce, AnnounceStart, CutSpeech, MarkInterrupted, IfArrived, ResumeHearing
  <2> QED BY <1>8, <2>1, <2>2
<1> QED
  BY <1>3, <1>4, <1>5, <1>6, <1>7, <1>9, <1>10, <1>11 DEF Step

----------------------------------------------------------------------------
(* The calls, the head and the robot's base keep the invariant.            *)

LEMMA SendToPoIKeeps == ASSUME IInv, SendToPoI PROVE IInv'
<1>1. TypeOK /\ Shape /\ CountBounded /\ IndexOK /\ GoTo \in Threads /\ Dialog \in Threads
  BY DEF IInv, TourInv, Threads
<1>2. /\ todo[GoTo] = <<>> /\ hasReached' = FALSE
      /\ todo' = [todo EXCEPT ![GoTo] = <<"locate">>]
      /\ UNCHANGED <<tour, previousPoI, previousLoc, firstStart, talk, goal, failing,
                     speech, world>>
  BY DEF SendToPoI
<1>3. /\ <<"locate">> \in Seq(Steps) /\ Tail(<<"locate">>) = <<>>
      /\ \A x : Has(<<"locate">>, x) => x = "locate"
      /\ "locate" \notin ToGoal \cup {"arrive"} \cup Counting \cup Turning
      /\ End(<<"locate">>) = "locate"
  BY DEF Steps, Has, End, ToGoal, Counting, Turning
<1>4. GoTo # Dialog
  BY DEF GoTo, Dialog
<1>5. Shape' /\ todo'[GoTo] = <<"locate">> /\ \A u \in Threads \ {GoTo} : todo'[u] = todo[u]
  BY <1>1, <1>2, <1>3, <1>4, AssignShape
<1>6. CountBounded' /\ IndexOK'
  BY <1>1, <1>2, <1>4, <1>5 DEF CountBounded, IndexOK, talk, tour
<1>7. TypeOK'
  BY <1>1, <1>2, <1>5 DEF TypeOK, Shape, Threaded, tour, talk, speech, world
<1>8. ASSUME Punctual PROVE MovesOnRoute'
  <2>1. ~UnderWay
    BY <1>2 DEF UnderWay, End
  <2>2. nav' \notin {"preparing", "moving"}
    BY <1>2, <1>8, <2>1 DEF IInv, MovesOnRoute, world
  <2> QED BY <1>2, <2>2 DEF MovesOnRoute
<1> QED BY <1>5, <1>6, <1>7, <1>8 DEF IInv, TourInv

(* fallback itself is the command that counts.                             *)
LEMMA ReceiveKeeps ==
  ASSUME IInv, NEW command \in Commands, Receive(command) PROVE IInv'
<1>1. /\ TypeOK /\ Shape /\ CountBounded /\ IndexOK
      /\ GoTo \in Threads /\ Dialog \in Threads /\ GoTo # Dialog
  BY DEF IInv, TourInv, Threads, GoTo, Dialog
<1>2. /\ todo[Dialog] = <<>> /\ todo' = [todo EXCEPT ![Dialog] = <<command>>]
      /\ UNCHANGED <<tour, arrival, firstStart, talk, goal, failing, speech, world>>
  BY DEF Receive
<1>3. /\ command \in Steps /\ command \notin ToGoal \cup {"arrive", "locate", "count"}
      /\ command \in Turning => command = "nextPoi"
  BY TourConstantsOK DEF AllCommands, Steps, Interpreted, Script, ToGoal, Turning
<1>4. /\ <<command>> \in Seq(Steps) /\ \A x : OnlyLast(<<command>>, x)
      /\ \A x : Has(<<command>>, x) <=> x = command
      /\ command \in Turning => <<command>> \in Turns
  BY <1>3 DEF Has, OnlyLast, Turns
<1>5. Shape' /\ \A u \in Threads \ {Dialog} : todo'[u] = todo[u]
  BY <1>1, <1>2, <1>3, <1>4, AssignShape
<1>6. fallbacks # Threshold
  <2>1. ~Has(<<>>, "uncount")
    BY EmptySeq DEF Has
  <2> QED BY <1>1, <1>2, <2>1 DEF CountBounded
<1>7. fallbacks \in 0..Threshold /\ fallbacks' = fallbacks
  BY <1>1, <1>2 DEF TypeOK, talk
<1>8. CountBounded' /\ IndexOK'
  <2>1. index \in PoIs
    BY <1>1, <1>2, TurnSteps DEF IndexOK
  <2> QED BY <1>2, <1>6, <1>7, <2>1 DEF CountBounded, Threshold, IndexOK, tour
<1>9. TypeOK'
  BY <1>1, <1>2, <1>5 DEF TypeOK, Shape, Threaded, tour, arrival, talk, speech, world
<1>10. ASSUME Punctual PROVE MovesOnRoute'
  BY <1>1, <1>2, <1>5, <1>10 DEF IInv, MovesOnRoute, UnderWay, Locating, arrival, world
<1> QED BY <1>5, <1>8, <1>9, <1>10 DEF IInv, TourInv

LEMMA WatchdogKeeps ==
  ASSUME IInv, NEW w \in Watchdogs, SendError(w) \/ Recovered(w) PROVE IInv'
<1>1. /\ TypeOK /\ Shape /\ CountBounded /\ IndexOK
      /\ w \in Threads /\ w # GoTo /\ w # Dialog /\ Dialog \in Threads
  BY TourConstantsOK DEF IInv, TourInv, Threads
<1>2. PICK s \in Seq(Plain) : todo' = [todo EXCEPT ![w] = s]
  BY ShortPlain DEF SendError, Recovered
<1>3. /\ failing' \in {failing \cup {w}, failing \ {w}}
      /\ UNCHANGED <<tour, arrival, firstStart, talk, goal, speech, world>>
  BY DEF SendError, Recovered
<1>4. Shape' /\ CountBounded' /\ SameWay
  BY <1>1, <1>2, <1>3, AssignCounts DEF talk
<1>5. TypeOK' /\ IndexOK'
  <2>1. todo'[Dialog] = todo[Dialog]
    BY <1>1, <1>2 DEF Shape, Threaded
  <2> QED BY <1>1, <1>3, <1>4, <2>1
          DEF TypeOK, IndexOK, Shape, Threaded, tour, arrival, talk, speech, world
<1>6. ASSUME Punctual PROVE MovesOnRoute'
  BY <1>3, <1>4, <1>6 DEF IInv, MovesOnRoute, SameWay, arrival, world
<1> QED BY <1>4, <1>5, <1>6 DEF IInv, TourInv

(* Whatever stops or moves the robot, and an end of the speech.            *)
LEMMA WorldKeeps ==
  ASSUME IInv,
         \/ FinishText \/ LowerFlag \/ Move \/ UNCHANGED vars
         \/ /\ NavigationStops
            /\ UNCHANGED <<tour, arrival, firstStart, talk, goal, todo, failing, speech,
                           target, place>>
  PROVE  IInv'
<1>1. /\ UNCHANGED <<tour, arrival, firstStart, talk, goal, todo, failing, target>>
      /\ isSpeaking' \in {isSpeaking, FALSE} /\ voice' \in {voice, "idle"}
      /\ place' \in {place, 0, target}
      /\ nav' \in NavStatus \/ nav' = nav
      /\ nav' \in {"preparing", "moving"} => nav \in {"preparing", "moving"}
  BY DEF FinishText, LowerFlag, Move, NavigationStops, vars, speech, world, NavStatus
<1>2. TypeOK /\ Shape /\ CountBounded /\ IndexOK /\ 0 \in Places
  BY DEF IInv, TourInv, Places
<1>3. TypeOK'
  BY <1>1, <1>2 DEF TypeOK, tour, arrival, talk
<1>4. Shape' /\ CountBounded' /\ IndexOK' /\ SameWay
  BY <1>1, <1>2
  DEF Shape, Threaded, RouteOK, OthersStay, CountsLast, TurnsOnce, CountBounded, IndexOK,
      SameWay, UnderWay, Locating, talk, tour
<1>5. ASSUME Punctual PROVE MovesOnRoute'
  BY <1>1, <1>4, <1>5 DEF IInv, MovesOnRoute, SameWay, arrival
<1> QED BY <1>3, <1>4, <1>5 DEF IInv, TourInv

LEMMA InitInv == Init => IInv
<1> SUFFICES ASSUME Init PROVE IInv
  OBVIOUS
<1>1. /\ todo = [t \in Threads |-> <<>>] /\ <<>> \in Seq(Steps)
      /\ GoTo \in Threads /\ Dialog \in Threads
      /\ \A x : ~Has(<<>>, x) /\ OnlyLast(<<>>, x)
      /\ End(<<>>) = "none"
  BY EmptySeq DEF Init, Threads, Has, OnlyLast, End
<1>2. TypeOK
  <2>1. /\ StartPoI \in PoIs /\ 0 \in Places /\ 0 \in 0..Threshold
        /\ StartPoI \in 1..(Stops + 1) /\ "idle" \in {"idle", "texts", "cut"}
        /\ FALSE \in BOOLEAN /\ TRUE \in BOOLEAN /\ "idle" \in NavStatus
    BY TourConstantsOK DEF StartPoI, PoIs, Places, Threshold, NavStatus
  <2>2. todo \in [Threads -> Seq(Steps)]
    BY <1>1
  <2> QED BY <2>1, <2>2, Zenon DEF Init, TypeOK
<1>3. Shape
  BY <1>1 DEF Shape, Threaded, RouteOK, OthersStay, CountsLast, TurnsOnce
<1>4. CountBounded /\ IndexOK
  BY <1>1, PoIsTyped DEF Init, CountBounded, Threshold, IndexOK
<1>5. MovesOnRoute
  BY <1>1 DEF Init, MovesOnRoute, UnderWay, Locating
<1> QED BY <1>2, <1>3, <1>4, <1>5 DEF IInv, TourInv

(* Whatever the threads do in whatever order, only sendToPoI has the steps *)
(* of a movement, only the dialogue counts fallbacks, and a punctual base  *)
(* moves only for a sendToPoI that waits for it.                           *)
THEOREM Inductive == Spec => []IInv
<1>1. IInv /\ [Next]_vars => IInv'
  <2> SUFFICES ASSUME IInv, [Next]_vars PROVE IInv'
    OBVIOUS
  <2>1. CASE Calls
    BY <2>1, SendToPoIKeeps, ReceiveKeeps, WatchdogKeeps DEF Calls
  <2>2. ASSUME NEW t \in Threads, Step(t) PROVE IInv'
    BY <2>2, StepShape, StepRoute DEF IInv
  <2>3. CASE FinishText \/ LowerFlag \/ Move \/ UNCHANGED vars
    BY <2>3, WorldKeeps
  <2> QED BY <2>1, <2>2, <2>3 DEF Next
<1> QED BY <1>1, InitInv, PTL DEF Spec

----------------------------------------------------------------------------
(* Every variable has its type; among them the counter of the fallbacks    *)
(* never gets past the threshold.                                          *)
THEOREM TypeCorrect == Spec => []TypeOK
<1>1. IInv => TypeOK
  BY DEF IInv, TourInv
<1> QED BY <1>1, Inductive, PTL

(* After each command the counter is below the threshold: the third        *)
(* fallback in a row has cleared it before the next one comes, whichever   *)
(* threads speak meanwhile.                                                *)
LEMMA InvBounds == IInv => FallbacksBounded
<1> SUFFICES ASSUME IInv, todo[Dialog] = <<>> PROVE fallbacks < Threshold
  BY DEF FallbacksBounded
<1>1. fallbacks \in 0..Threshold
  BY DEF IInv, TourInv, TypeOK
<1>2. ~Has(todo[Dialog], "uncount")
  BY EmptySeq DEF Has
<1>3. fallbacks # Threshold
  BY <1>2 DEF IInv, TourInv, CountBounded
<1> QED BY <1>1, <1>3 DEF Threshold

(* The counter of fallbacks is below the threshold after each command, so  *)
(* that the next fallback that reaches it is noticed.                      *)
THEOREM Bounded == Spec => []FallbacksBounded
BY Inductive, InvBounds, PTL

(* With a navigation server that starts to move within the 2 s sendToPoI   *)
(* gives it, a robot that believes it is at a PoI is not moving, even if   *)
(* nextPoi and resetTourManager come at any time and watchdogs stop it.    *)
LEMMA InvStands == IInv /\ Punctual => StandsAtPoI
BY DEF IInv, MovesOnRoute, StandsAtPoI, AtPoI

(* With a punctual navigation server a robot that isAtPoI() says is at a   *)
(* PoI does not move.                                                      *)
THEOREM StandsThere == Punctual /\ Spec => []StandsAtPoI
<1>1. CASE Punctual
  BY <1>1, Inductive, InvStands, PTL
<1>2. CASE ~Punctual
  BY <1>2
<1> QED BY <1>1, <1>2
==============================================================================
