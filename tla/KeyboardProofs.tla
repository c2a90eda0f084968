--------------------------- MODULE KeyboardProofs ---------------------------
(***************************************************************************)
(* Lighting for any number of zones, any colours, brightness levels and    *)
(* effects: what the loop takes for written is on the keyboard, and a      *)
(* sleeping machine is dark. Then KeyInput for any keyboards, layouts and  *)
(* shortcuts: a shortcut is heard as it was typed, and starts one thing.   *)
(***************************************************************************)
EXTENDS Lighting, KeyInput, FiniteSetTheorems, SequenceTheorems, TLAPS

(* Each zone has a colour and a brightness.                                *)
LedShape ==
  led = [z \in Zones |-> [colour |-> led[z].colour, level |-> led[z].level]]

(* The loop takes the backlight for off only while it wants it off: every  *)
(* change of what it wants makes it forget.                                *)
OffIsWanted == backlight = FALSE => ~settings.on \/ dimmed

IInv == LedShape /\ OffIsWanted /\ BeliefHolds /\ SleepsDark

-----------------------------------------------------------------------------
(* What is not known of the backlight is no truth value.                   *)
LEMMA NoneIs == None # FALSE /\ None # TRUE
  BY LightingAssumption

(* A write of the brightness that reaches all zones.                       *)
LEMMA AllZones ==
  ASSUME NEW done, Complete(done), NEW z \in Zones
  PROVE  z =< done
<1>1. Zones = 1..Cardinality(Zones)
  BY LightingAssumption
<1>2. Cardinality(Zones) \in Nat
  BY PolicyAssumption, FS_CardinalityType
<1>3. done = Cardinality(Zones)
  BY DEF Complete
<1> QED
  BY <1>1, <1>2, <1>3

(* What a write of the brightness leaves in a zone: the level or something *)
(* unknown, and the level once all zones took it.                          *)
LEMMA Written ==
  ASSUME LedShape, NEW level, NEW done, NEW z \in Zones
  PROVE  \E new \in {level, Unsure} :
           /\ Brightness(led, level, done)[z] = [colour |-> led[z].colour, level |-> new]
           /\ Complete(done) => new = level
<1> DEFINE new == IF z =< done THEN level ELSE Unsure
<1>1. led[z] = [colour |-> led[z].colour, level |-> led[z].level]
  BY DEF LedShape
<1>2. Brightness(led, level, done)[z] = [led[z] EXCEPT !.level = new]
  BY DEF Brightness
<1>3. new \in {level, Unsure} /\ (Complete(done) => new = level)
  BY AllZones
<1> HIDE DEF new
<1>4. [led[z] EXCEPT !.level = new] = [colour |-> led[z].colour, level |-> new]
  BY <1>1
<1> QED
  BY <1>2, <1>3, <1>4

(* The colour stays,                                                       *)
LEMMA WrittenColour ==
  ASSUME LedShape, NEW level, NEW done, NEW z \in Zones
  PROVE  Brightness(led, level, done)[z].colour = led[z].colour
<1>1. PICK new \in {level, Unsure} :
        Brightness(led, level, done)[z] = [colour |-> led[z].colour, level |-> new]
  BY Written
<1> QED
  BY <1>1

(* the level is the one written or unsure,                                 *)
LEMMA WrittenLevel ==
  ASSUME LedShape, NEW level, NEW done, NEW z \in Zones
  PROVE  Brightness(led, level, done)[z].level \in {level, Unsure}
<1>1. PICK new \in {level, Unsure} :
        Brightness(led, level, done)[z] = [colour |-> led[z].colour, level |-> new]
  BY Written
<1> QED
  BY <1>1

(* and not unsure once all zones took it.                                  *)
LEMMA WrittenAll ==
  ASSUME LedShape, NEW level, NEW done, Complete(done), NEW z \in Zones
  PROVE  Brightness(led, level, done)[z].level = level
<1>1. Brightness(led, level, done)[z] = [colour |-> led[z].colour, level |-> level]
  BY Written
<1> QED
  BY <1>1

(* The zone is a record again.                                             *)
LEMMA WrittenShape ==
  ASSUME LedShape, NEW level, NEW done, NEW z \in Zones,
         NEW light, light = Brightness(led, level, done)[z]
  PROVE  light = [colour |-> light.colour, level |-> light.level]
<1>1. PICK new \in {level, Unsure} :
        light = [colour |-> led[z].colour, level |-> new]
  BY Written
<1>2. light.colour = led[z].colour /\ light.level = new
  BY <1>1
<1> QED
  BY <1>1, <1>2

(* So it leaves LEDs of that shape.                                        *)
LEMMA BrightnessShape ==
  ASSUME LedShape, NEW level, NEW done, led' = Brightness(led, level, done)
  PROVE  LedShape'
<1>1. \A z \in Zones : led'[z] = [colour |-> led'[z].colour, level |-> led'[z].level]
  BY WrittenShape
<1>2. led' = [z \in Zones |-> led'[z]]
  BY DEF Brightness
<1> QED
  BY <1>1, <1>2 DEF LedShape

-----------------------------------------------------------------------------
LEMMA InitIInv == Init => IInv
<1> SUFFICES ASSUME Init PROVE IInv
  OBVIOUS
<1>1. led \in [Zones -> {[colour |-> c, level |-> Top] : c \in Colours}]
  BY DEF Init
<1>2. LedShape
  BY <1>1 DEF LedShape
<1> QED
  BY <1>2, NoneIs DEF Init, IInv, OffIsWanted, BeliefHolds, SleepsDark

(* The loop wants the light off.                                           *)
LEMMA OffKeeps ==
  ASSUME IInv, ~suspended, dimmed' = DimmedNow, TickOff,
         UNCHANGED <<settings, suspended>>
  PROVE  IInv'
<1>1. WantOff /\ user' = user
  BY DEF TickOff
<1>2. OffIsWanted' /\ SleepsDark'
  BY <1>1 DEF OffIsWanted, WantOff, SleepsDark
<1>3. CASE BacklightNow # FALSE /\ ~recent
  <2>1. PICK done \in Outcomes :
          led' = Brightness(led, 0, done) /\ backlight' = FALSE
    BY <1>3 DEF TickOff
  <2>2. LedShape'
    BY <2>1, BrightnessShape DEF IInv
  <2>3. BeliefHolds'
    BY <2>1, WrittenLevel DEF BeliefHolds, IInv
  <2> QED
    BY <1>2, <2>2, <2>3 DEF IInv
<1>4. CASE ~(BacklightNow # FALSE /\ ~recent)
  <2>1. /\ sent' = SentNow /\ backlight' = BacklightNow
        /\ led' = led /\ lastLevel' = lastLevel
    BY <1>4 DEF TickOff
  <2>2. BeliefHolds'
    <3>1. CASE DimmedNow = dimmed
      BY <1>1, <2>1, <3>1 DEF BeliefHolds, SentNow, BacklightNow, IInv
    <3>2. CASE DimmedNow # dimmed
      <4>1. backlight' = None
        BY <2>1, <3>2 DEF BacklightNow
      <4> QED
        BY <4>1, NoneIs DEF BeliefHolds
    <3> QED
      BY <3>1, <3>2
  <2> QED
    BY <1>2, <2>1, <2>2 DEF IInv, LedShape
<1> QED
  BY <1>3, <1>4

(* The loop wants it on: the brightness first, then the colours of the     *)
(* zones that do not have theirs.                                          *)
LEMMA OnKeeps ==
  ASSUME IInv, ~suspended, dimmed' = DimmedNow, TickOn,
         UNCHANGED <<settings, suspended>>
  PROVE  IInv'
<1>1. PICK done \in IF LevelDue THEN Outcomes ELSE {0}, frame \in Frames(settings) :
        LET lit == IF LevelDue THEN Brightness(led, settings.level, done) ELSE led
            due == Due(frame)
        IN  /\ lastLevel' = IF LevelDue THEN LevelSent(done) ELSE lastLevel
            /\ user' = IF LevelDue THEN settings.level ELSE user
            /\ foreign' = (foreign /\ ~LevelDue)
            /\ \E ok \in [due -> WriteResults] :
                 led' = [z \in Zones |->
                           IF z \in due THEN WriteColour(frame[z], user', ok[z]) ELSE lit[z]]
            /\ sent' = [z \in Zones |-> IF z \in due THEN frame[z] ELSE SentNow[z]]
            /\ backlight' = IF recent THEN BacklightNow ELSE TRUE
            /\ recent' = (recent \/ due # {})
  BY DEF TickOn
<1> DEFINE lit == IF LevelDue THEN Brightness(led, settings.level, done) ELSE led
           due == Due(frame)
<1>2. PICK ok \in [due -> WriteResults] :
        led' = [z \in Zones |->
                  IF z \in due THEN WriteColour(frame[z], user', ok[z]) ELSE lit[z]]
  BY <1>1
<1>3. /\ lastLevel' = IF LevelDue THEN LevelSent(done) ELSE lastLevel
      /\ user' = IF LevelDue THEN settings.level ELSE user
      /\ sent' = [z \in Zones |-> IF z \in due THEN frame[z] ELSE SentNow[z]]
      /\ backlight' = IF recent THEN BacklightNow ELSE TRUE
  BY <1>1
<1>4. \A z \in Zones : lit[z] = [colour |-> lit[z].colour, level |-> lit[z].level]
  BY WrittenShape DEF IInv, LedShape
<1>5. \A z \in Zones : lit[z].colour = led[z].colour
  <2>1. ASSUME NEW z \in Zones
        PROVE  Brightness(led, settings.level, done)[z].colour = led[z].colour
    <3>1. LedShape
      BY DEF IInv
    <3> QED
      BY <3>1, WrittenColour
  <2> QED
    BY <2>1
<1>6. ~LevelDue => lit = led
  OBVIOUS
<1>7. ASSUME LevelDue, lastLevel' # None, NEW z \in Zones
      PROVE  lit[z].level = user'
  <2>1. Complete(done)
    BY <1>7, <1>3 DEF LevelSent
  <2> QED
    <3>1. LedShape /\ user' = settings.level
      BY <1>7, <1>3 DEF IInv
    <3>2. lit = Brightness(led, settings.level, done)
      BY <1>7
    <3> QED
      BY <2>1, <3>1, <3>2, WrittenAll
<1> HIDE DEF lit, due
<1>8. LedShape'
  <2>1. \A z \in Zones : led'[z] = [colour |-> led'[z].colour, level |-> led'[z].level]
    BY <1>2, <1>4 DEF WriteColour
  <2> QED
    BY <1>2, <2>1 DEF LedShape
<1>9. backlight' # FALSE
  <2>1. ~WantOff
    BY DEF TickOn
  <2> QED
    BY <2>1, <1>3, NoneIs DEF WantOff, BacklightNow, IInv, OffIsWanted
<1>10. ASSUME NEW z \in Zones, backlight' = TRUE, sent'[z] # None
       PROVE  /\ led'[z].colour \in {sent'[z], Unsure}
              /\ lastLevel' # None => led'[z].level \in {user', Unsure}
  <2>1. CASE z \in due
    <3>1. led'[z] = WriteColour(sent'[z], user', ok[z])
      BY <1>2, <1>3, <2>1
    <3> QED
      BY <3>1 DEF WriteColour
  <2>2. CASE z \notin due
    <3>1. led'[z] = lit[z] /\ sent'[z] = SentNow[z]
      BY <1>2, <1>3, <2>2
    <3>2. BacklightNow = TRUE
      BY <1>10, <1>3, <2>2 DEF due, Due
    <3>3. SentNow = sent /\ backlight = TRUE
      BY <3>2, NoneIs DEF SentNow, BacklightNow
    <3>4. /\ led[z].colour \in {sent[z], Unsure}
          /\ lastLevel # None => led[z].level \in {user, Unsure}
      BY <1>10, <3>1, <3>3 DEF IInv, BeliefHolds
    <3> QED
      BY <3>1, <3>3, <3>4, <1>3, <1>5, <1>6, <1>7
  <2> QED
    BY <2>1, <2>2
<1> QED
  BY <1>8, <1>9, <1>10 DEF IInv, OffIsWanted, BeliefHolds, SleepsDark

(* Forgetting what was sent keeps the belief true, whatever comes.         *)
LEMMA Forgets ==
  ASSUME sent' = Forgotten, backlight' = None
  PROVE  BeliefHolds' /\ OffIsWanted'
  BY NoneIs DEF BeliefHolds, OffIsWanted

LEMMA NextIInv == IInv /\ [Next]_vars => IInv'
<1> SUFFICES ASSUME IInv, [Next]_vars PROVE IInv'
  OBVIOUS
<1>1. CASE SetLighting \/ StepKey \/ Resume \/ Restart
  <2>1. /\ sent' = Forgotten /\ backlight' = None /\ led' = led
        /\ suspended' = suspended \/ suspended' = FALSE
    BY <1>1 DEF SetLighting, StepKey, Resume, Restart, Invalidate
  <2>2. LedShape' /\ SleepsDark'
    BY <2>1 DEF IInv, LedShape, SleepsDark
  <2> QED
    BY <2>1, <2>2, Forgets DEF IInv
<1>2. CASE RawColour
  <2>1. /\ UNCHANGED <<settings, suspended, dimmed, sent, backlight, lastLevel, user>>
        /\ \E z \in Zones : led' = [led EXCEPT ![z] = WriteColour(None, user, FALSE)]
    BY <1>2 DEF RawColour, belief
  <2>2. PICK w \in Zones : led' = [led EXCEPT ![w] = [colour |-> Unsure, level |-> Unsure]]
    BY <2>1 DEF WriteColour
  <2>3. LedShape'
    BY <2>2 DEF IInv, LedShape
  <2>4. \A z \in Zones : led'[z] = led[z]
                           \/ led'[z] = [colour |-> Unsure, level |-> Unsure]
    BY <2>2 DEF IInv, LedShape
  <2>5. \A z \in Zones : /\ led'[z].colour \in {led[z].colour, Unsure}
                        /\ led'[z].level \in {led[z].level, Unsure}
    BY <2>4
  <2>6. BeliefHolds'
    BY <2>1, <2>5 DEF IInv, BeliefHolds
  <2>7. SleepsDark' /\ OffIsWanted'
    BY <2>1, <2>5 DEF IInv, SleepsDark, OffIsWanted
  <2> QED
    BY <2>3, <2>6, <2>7 DEF IInv
<1>3. CASE RawBrightness
  <2>1. /\ led' = Brightness(led, Unsure, Cardinality(Zones))
        /\ UNCHANGED <<settings, suspended, dimmed, sent, backlight, lastLevel>>
    BY <1>3 DEF RawBrightness, belief
  <2>2. \A z \in Zones : led'[z].colour = led[z].colour /\ led'[z].level = Unsure
    <3>1. LedShape
      BY DEF IInv
    <3> QED
      BY <2>1, <3>1, WrittenColour, WrittenLevel
  <2>3. LedShape'
    BY <2>1, BrightnessShape DEF IInv
  <2>4. BeliefHolds' /\ SleepsDark' /\ OffIsWanted'
    BY <2>1, <2>2 DEF IInv, BeliefHolds, SleepsDark, OffIsWanted
  <2> QED
    BY <2>3, <2>4 DEF IInv
<1>4. CASE PrepareSleep
  <2>1. PICK done \in Outcomes : led' = Brightness(led, 0, done)
    BY <1>4 DEF PrepareSleep
  <2>2. sent' = Forgotten /\ backlight' = None
    BY <1>4 DEF PrepareSleep, Invalidate
  <2>3. LedShape'
    BY <2>1, BrightnessShape DEF IInv
  <2>4. SleepsDark'
    BY <2>1, WrittenLevel DEF IInv, SleepsDark
  <2> QED
    BY <2>2, <2>3, <2>4, Forgets DEF IInv
<1>5. CASE LightingTick
  BY <1>5, OffKeeps, OnKeeps DEF LightingTick
<1>6. CASE Input \/ Interval \/ HalfSecond \/ Calm \/ UNCHANGED vars
  <2>1. UNCHANGED <<settings, suspended, dimmed, sent, backlight, lastLevel, user, led>>
    BY <1>6 DEF Input, Interval, HalfSecond, Calm, vars, belief
  <2> QED
    BY <2>1 DEF IInv, LedShape, OffIsWanted, BeliefHolds, SleepsDark
<1> QED
  BY <1>1, <1>2, <1>3, <1>4, <1>5, <1>6 DEF Next

-----------------------------------------------------------------------------
(* IInv holds of every behaviour of the lighting.                          *)
THEOREM LightingInvariant == Spec => []IInv
  BY InitIInv, NextIInv, PTL DEF Spec

(* For any keyboard, settings and failing writes, a colour or a darkness   *)
(* that the loop will not write again is on the keyboard, but where a      *)
(* failed write or a raw command leaves it unsure.                         *)
THEOREM BeliefIsTrue == Spec => []BeliefHolds
<1>1. IInv => BeliefHolds
  BY DEF IInv
<1> QED
  BY LightingInvariant, <1>1, PTL

(* No tick, key, setting or raw command lights a sleeping machine.         *)
THEOREM SleepIsDark == Spec => []SleepsDark
<1>1. IInv => SleepsDark
  BY DEF IInv
<1> QED
  BY LightingInvariant, <1>1, PTL

-----------------------------------------------------------------------------
(* KeyInput: what the thread believes held, once it has read what is       *)
(* queued, is what is held.                                                *)

(* Modifier m is one the thread will believe held once it has read q, when *)
(* it believes those of was held now.                                      *)
Believes(q, was, m) ==
  LET events == {i \in DOMAIN q : q[i].code = m}
  IN  IF events = {} THEN m \in was
      ELSE \E i \in events : q[i].press /\ \A j \in events : j =< i

(* The keys of a keyboard are all that it queues; what is held on it and   *)
(* what the thread holds are modifiers.                                    *)
InputTypes ==
  /\ present \subseteq Devices /\ opened \subseteq Devices
  /\ down \in [Devices -> SUBSET Modifiers]
  /\ \A d \in Devices : down[d] \subseteq Layout[d]
  /\ queue \in [Devices -> Seq([code : Codes, press : BOOLEAN])]
  /\ \A d \in Devices : \A i \in DOMAIN queue[d] : queue[d][i].code \in Layout[d]
  /\ lost \in BOOLEAN

(* HeardAsTyped, one modifier at a time.                                   *)
HeardEach ==
  ~lost => \A d \in opened : \A m \in Modifiers \cap Layout[d] :
             Believes(queue[d], held, m) <=> m \in down[d] /\ m \notin before

(* The threads that run what a shortcut asked for.                         *)
Running == {t \in threads : t.step = "runs"}

(* One thread runs, or none, as the flag says.                             *)
GuardHeld ==
  /\ activating \in BOOLEAN
  /\ \A t \in threads : t = [chord |-> t.chord, step |-> t.step, id |-> t.id]
  /\ activating => \E t \in threads : Running = {t}
  /\ ~activating => Running = {}

(* The inductive invariant: what is typed is what the thread will believe, *)
(* and the flag is true to the threads.                                    *)
InputInv == InputTypes /\ HeardEach /\ GuardHeld

-----------------------------------------------------------------------------
(* What is left of a queue whose first element is taken.                   *)
LEMMA TailFacts ==
  ASSUME NEW S, NEW q \in Seq(S), q # <<>>
  PROVE  /\ DOMAIN q = 1..Len(q) /\ Len(q) \in Nat \ {0} /\ Head(q) = q[1]
         /\ Tail(q) \in Seq(S) /\ DOMAIN Tail(q) = 1..Len(q) - 1
         /\ \A i \in 1..Len(q) - 1 : Tail(q)[i] = q[i + 1]
  OBVIOUS

(* With nothing left to read it goes on believing what it does.            *)
LEMMA BelievesEmpty ==
  ASSUME NEW was, NEW m
  PROVE  Believes(<<>>, was, m) <=> m \in was
  BY DEF Believes

(* The newest event of a modifier decides.                                 *)
LEMMA BelievesAppend ==
  ASSUME NEW q \in Seq([code : Codes, press : BOOLEAN]), NEW was, NEW m,
         NEW e \in [code : Codes, press : BOOLEAN]
  PROVE  Believes(Append(q, e), was, m)
           <=> IF e.code = m THEN e.press ELSE Believes(q, was, m)
<1> DEFINE r == Append(q, e)
           old == {i \in DOMAIN q : q[i].code = m}
           new == {i \in DOMAIN r : r[i].code = m}
<1>1. /\ DOMAIN r = 1..Len(q) + 1 /\ DOMAIN q = 1..Len(q) /\ Len(q) \in Nat
      /\ \A i \in 1..Len(q) : r[i] = q[i]
      /\ r[Len(q) + 1] = e
  OBVIOUS
<1> HIDE DEF r
<1>2. CASE e.code = m
  <2>1. new = old \cup {Len(q) + 1}
    BY <1>1, <1>2
  <2>2. \A i \in old : i < Len(q) + 1
    BY <1>1
  <2>3. (\E i \in new : r[i].press /\ \A j \in new : j =< i) <=> e.press
    BY <2>1, <2>2, <1>1
  <2>4. Believes(r, was, m) <=> e.press
    BY <2>1, <2>3 DEF Believes
  <2> QED
    BY <2>4, <1>2 DEF r, Believes
<1>3. CASE e.code # m
  <2>1. new = old
    BY <1>1, <1>3
  <2>2. (\E i \in new : r[i].press /\ \A j \in new : j =< i)
          <=> (\E i \in old : q[i].press /\ \A j \in old : j =< i)
    BY <2>1, <1>1
  <2>3. Believes(r, was, m) <=> Believes(q, was, m)
    BY <2>1, <2>2 DEF Believes
  <2> QED
    BY <2>3, <1>3 DEF r, Believes
<1> QED
  BY <1>2, <1>3

(* Reading an event changes only what is believed now.                     *)
LEMMA BelievesTail ==
  ASSUME NEW q \in Seq([code : Codes, press : BOOLEAN]), q # <<>>,
         NEW was, NEW now, NEW m,
         m \in now <=> IF Head(q).code = m THEN Head(q).press ELSE m \in was
  PROVE  Believes(Tail(q), now, m) <=> Believes(q, was, m)
<1> DEFINE r == Tail(q)
           old == {i \in DOMAIN q : q[i].code = m}
           new == {i \in DOMAIN r : r[i].code = m}
<1>1. /\ DOMAIN q = 1..Len(q) /\ Len(q) \in Nat \ {0} /\ Head(q) = q[1]
      /\ DOMAIN r = 1..Len(q) - 1
      /\ \A i \in 1..Len(q) - 1 : r[i] = q[i + 1]
  OBVIOUS
<1>2. q[1] \in [code : Codes, press : BOOLEAN]
  <2>1. 1 \in 1..Len(q)
    BY <1>1
  <2> QED
    BY <2>1, ElementOfSeq, Zenon
<1> SUFFICES Believes(r, now, m) <=> Believes(q, was, m)
  OBVIOUS
<1> HIDE DEF r
<1>3. \A i \in DOMAIN r : i \in new <=> i + 1 \in old
  BY <1>1
<1>4. \A j \in old : j = 1 \/ j - 1 \in new
  BY <1>1
<1>5. 1 \in old <=> Head(q).code = m
  BY <1>1
<1> HIDE DEF old, new
<1>6. \A i \in new : i \in DOMAIN r /\ i + 1 \in old /\ i \in 1..Len(q) - 1
  BY <1>1, <1>3 DEF new
<1>7. \A j \in old : j \in 1..Len(q)
  BY <1>1 DEF old
<1>8. /\ Believes(r, now, m) <=> IF new = {} THEN m \in now
                                 ELSE \E i \in new : r[i].press /\ \A j \in new : j =< i
      /\ Believes(q, was, m) <=> IF old = {} THEN m \in was
                                 ELSE \E i \in old : q[i].press /\ \A j \in old : j =< i
  BY DEF Believes, old, new
<1>9. CASE new = {}
  <2>1. old = {} \/ old = {1}
    BY <1>4, <1>9
  <2>2. CASE old = {}
    BY <1>5, <1>8, <1>9, <2>2
  <2>3. CASE old = {1}
    <3>1. Believes(q, was, m) <=> q[1].press
      BY <1>8, <2>3
    <3> QED
      BY <1>1, <1>5, <1>8, <1>9, <2>3, <3>1
  <2> QED
    BY <2>1, <2>2, <2>3
<1>10. CASE new # {}
  <2>1. old # {}
    BY <1>6, <1>10
  <2>2. ASSUME NEW i \in new
        PROVE  /\ r[i].press <=> q[i + 1].press
               /\ (\A j \in new : j =< i) <=> (\A j \in old : j =< i + 1)
    <3>1. r[i] = q[i + 1] /\ i \in 1..Len(q) - 1
      BY <1>1, <1>6
    <3>2. ASSUME \A j \in new : j =< i, NEW j \in old PROVE j =< i + 1
      BY <1>1, <1>4, <1>6, <1>7, <3>1, <3>2
    <3>3. ASSUME \A j \in old : j =< i + 1, NEW j \in new PROVE j =< i
      BY <1>1, <1>6, <3>1, <3>3
    <3> QED
      BY <3>1, <3>2, <3>3
  <2>3. ASSUME NEW i \in old, \A j \in old : j =< i PROVE i - 1 \in new
    <3>1. PICK k \in new : TRUE
      BY <1>10
    <3>2. k \in Int /\ i \in Int /\ k >= 1 /\ k + 1 \in old
      BY <1>1, <1>6, <1>7
    <3>3. i # 1
      BY <2>3, <3>2
    <3> QED
      BY <1>4, <3>3
  <2>4. (\E i \in new : r[i].press /\ \A j \in new : j =< i)
          <=> (\E i \in old : q[i].press /\ \A j \in old : j =< i)
    <3>1. ASSUME NEW i \in new, r[i].press, \A j \in new : j =< i
          PROVE  \E k \in old : q[k].press /\ \A j \in old : j =< k
      BY <1>6, <2>2, <3>1
    <3>2. ASSUME NEW i \in old, q[i].press, \A j \in old : j =< i
          PROVE  \E k \in new : r[k].press /\ \A j \in new : j =< k
      <4>1. i - 1 \in new /\ i \in Int
        BY <2>3, <3>2, <1>7
      <4>2. (i - 1) + 1 = i
        BY <4>1
      <4> QED
        BY <2>2, <3>2, <4>1, <4>2
    <3> QED
      BY <3>1, <3>2
  <2> QED
    BY <1>8, <1>10, <2>1, <2>4
<1> QED
  BY <1>9, <1>10

(* One modifier at a time is all of them.                                  *)
LEMMA HeardFollows == InputTypes /\ HeardEach => HeardAsTyped
<1> SUFFICES ASSUME InputTypes, HeardEach, ~lost, NEW d \in opened
             PROVE  Heard(d) = down[d] \ before
  BY DEF HeardAsTyped
<1>1. Heard(d) = {m \in Modifiers \cap Layout[d] : Believes(queue[d], held, m)}
  BY DEF Heard, Believes
<1>2. down[d] \subseteq Modifiers \cap Layout[d]
  BY DEF InputTypes
<1> QED
  BY <1>1, <1>2 DEF HeardEach

-----------------------------------------------------------------------------
(* At the start nothing is held, queued or running.                        *)
LEMMA InitInput == InputInit => InputInv
<1> SUFFICES ASSUME InputInit PROVE InputInv
  OBVIOUS
<1>1. InputTypes
  <2>1. <<>> \in Seq([code : Codes, press : BOOLEAN]) /\ DOMAIN <<>> = {}
    OBVIOUS
  <2>2. /\ opened = {} /\ present = Devices /\ down = [d \in Devices |-> {}] /\ lost = FALSE
        /\ queue = [d \in Devices |-> <<>>]
    BY DEF InputInit
  <2>3. queue \in [Devices -> Seq([code : Codes, press : BOOLEAN])]
    BY <2>1, <2>2
  <2>4. \A d \in Devices : \A i \in DOMAIN queue[d] : queue[d][i].code \in Layout[d]
    BY <2>1, <2>2
  <2>5. /\ opened \subseteq Devices /\ present \subseteq Devices /\ lost \in BOOLEAN
        /\ down \in [Devices -> SUBSET Modifiers]
        /\ \A d \in Devices : down[d] \subseteq Layout[d]
    BY <2>2
  <2> QED
    BY <2>3, <2>4, <2>5 DEF InputTypes
<1>2. HeardEach
  BY DEF InputInit, HeardEach
<1>3. GuardHeld
  BY DEF InputInit, GuardHeld, Running
<1> QED
  BY <1>1, <1>2, <1>3 DEF InputInv

(* An event of a keyboard changes what the thread will believe of its      *)
(* modifier and nothing else.                                              *)
LEMMA QueueKeeps ==
  ASSUME InputTypes, NEW d \in Devices, NEW e \in [code : Layout[d], press : BOOLEAN],
         Queue(d, e)
  PROVE  /\ queue' \in [Devices -> Seq([code : Codes, press : BOOLEAN])]
         /\ \A x \in Devices : \A i \in DOMAIN queue'[x] : queue'[x][i].code \in Layout[x]
         /\ lost' \in BOOLEAN
         /\ ~lost' => ~lost
         /\ \A x \in Devices \ {d} : queue'[x] = queue[x]
         /\ \A m : ~lost' /\ d \in opened =>
              (Believes(queue'[d], held, m)
                 <=> IF e.code = m THEN e.press ELSE Believes(queue[d], held, m))
<1> DEFINE Item == [code : Codes, press : BOOLEAN]
<1>1. e \in Item /\ queue[d] \in Seq(Item)
  BY InputAssumption DEF InputTypes
<1>2. CASE d \notin opened
  BY <1>2 DEF Queue, InputTypes
<1>3. CASE d \in opened /\ Len(queue[d]) < Buffer
  <2>1. queue' = [queue EXCEPT ![d] = Append(@, e)] /\ lost' = lost
    BY <1>3 DEF Queue
  <2>2. queue'[d] = Append(queue[d], e) /\ \A x \in Devices \ {d} : queue'[x] = queue[x]
    BY <2>1 DEF InputTypes
  <2>3. Append(queue[d], e) \in Seq(Item)
    BY <1>1
  <2>4. queue' \in [Devices -> Seq(Item)]
    BY <2>1, <2>3 DEF InputTypes
  <2>5. \A i \in DOMAIN Append(queue[d], e) : Append(queue[d], e)[i].code \in Layout[d]
    <3>1. ASSUME NEW i \in DOMAIN Append(queue[d], e)
          PROVE  Append(queue[d], e)[i] = e \/ (i \in DOMAIN queue[d] /\ Append(queue[d], e)[i] = queue[d][i])
      BY <1>1
    <3> QED
      BY <3>1 DEF InputTypes
  <2>6. \A m : Believes(queue'[d], held, m)
                 <=> IF e.code = m THEN e.press ELSE Believes(queue[d], held, m)
    <3>1. ASSUME NEW m
          PROVE  Believes(Append(queue[d], e), held, m)
                   <=> IF e.code = m THEN e.press ELSE Believes(queue[d], held, m)
      BY <1>1, BelievesAppend, Zenon
    <3> QED
      BY <2>2, <3>1, Zenon
  <2> QED
    BY <2>1, <2>2, <2>4, <2>5, <2>6 DEF InputTypes
<1>4. CASE d \in opened /\ ~(Len(queue[d]) < Buffer)
  <2>1. queue' = [queue EXCEPT ![d] = <<e>>] /\ lost' = TRUE
    BY <1>4 DEF Queue
  <2>2. <<e>> \in Seq(Item) /\ \A i \in DOMAIN <<e>> : <<e>>[i].code \in Layout[d]
    BY <1>1
  <2> QED
    BY <2>1, <2>2 DEF InputTypes
<1> QED
  BY <1>2, <1>3, <1>4

(* A modifier goes down or up, and its event is queued last.               *)
LEMMA ModifierMovesKeeps ==
  ASSUME InputTypes, HeardEach, NEW d \in Devices, NEW m, ModifierMoves(d, m)
  PROVE  InputTypes' /\ HeardEach'
<1> DEFINE e == [code |-> m, press |-> m \notin down[d]]
<1>1. /\ m \in Modifiers \cap Layout[d]
      /\ down' = [down EXCEPT ![d] = IF m \in @ THEN @ \ {m} ELSE @ \cup {m}]
      /\ Queue(d, e) /\ before' = before \ {m}
      /\ opened' = opened /\ held' = held /\ present' = present
  BY DEF ModifierMoves, thread
<1>2. e \in [code : Layout[d], press : BOOLEAN] /\ e.code = m /\ (e.press <=> m \notin down[d])
  BY <1>1
<1> HIDE DEF e
<1>3. /\ queue' \in [Devices -> Seq([code : Codes, press : BOOLEAN])]
      /\ \A x \in Devices : \A i \in DOMAIN queue'[x] : queue'[x][i].code \in Layout[x]
      /\ lost' \in BOOLEAN /\ (~lost' => ~lost)
      /\ \A x \in Devices \ {d} : queue'[x] = queue[x]
      /\ \A n : ~lost' /\ d \in opened =>
           (Believes(queue'[d], held, n)
              <=> IF e.code = n THEN e.press ELSE Believes(queue[d], held, n))
  BY <1>1, <1>2, QueueKeeps
<1>4. /\ down' \in [Devices -> SUBSET Modifiers]
      /\ \A x \in Devices \ {d} : down'[x] = down[x]
      /\ down'[d] = IF m \in down[d] THEN down[d] \ {m} ELSE down[d] \cup {m}
  BY <1>1 DEF InputTypes
<1>5. InputTypes'
  BY <1>1, <1>3, <1>4 DEF InputTypes
<1>6. HeardEach'
  <2> SUFFICES ASSUME ~lost', NEW x \in opened, NEW n \in Modifiers \cap Layout[x]
               PROVE  Believes(queue'[x], held, n) <=> n \in down'[x] /\ n \notin before'
    BY <1>1 DEF HeardEach
  <2>1. Believes(queue[x], held, n) <=> n \in down[x] /\ n \notin before
    BY <1>3 DEF HeardEach
  <2>2. CASE x # d
    <3>1. x \in Devices /\ n # m
      BY <1>1, <2>2, InputAssumption DEF InputTypes
    <3> QED
      BY <1>1, <1>3, <1>4, <2>1, <2>2, <3>1
  <2>3. CASE x = d /\ n = m
    BY <1>1, <1>2, <1>3, <1>4, <2>3
  <2>4. CASE x = d /\ n # m
    BY <1>1, <1>2, <1>3, <1>4, <2>1, <2>4
  <2> QED
    BY <2>2, <2>3, <2>4
<1> QED
  BY <1>5, <1>6

(* The event of a key that is no modifier changes no belief.               *)
LEMMA KeyPressedKeeps ==
  ASSUME InputTypes, HeardEach, NEW d \in Devices, NEW k, KeyPressed(d, k)
  PROVE  InputTypes' /\ HeardEach'
<1> DEFINE e == [code |-> k, press |-> TRUE]
<1>1. /\ k \in Layout[d] /\ k \notin Modifiers
      /\ Queue(d, e)
      /\ UNCHANGED <<down, before, opened, held, present>>
  BY DEF KeyPressed, thread, Keys
<1>2. e \in [code : Layout[d], press : BOOLEAN] /\ e.code = k
  BY <1>1
<1> HIDE DEF e
<1>3. /\ queue' \in [Devices -> Seq([code : Codes, press : BOOLEAN])]
      /\ \A x \in Devices : \A i \in DOMAIN queue'[x] : queue'[x][i].code \in Layout[x]
      /\ lost' \in BOOLEAN /\ (~lost' => ~lost)
      /\ \A x \in Devices \ {d} : queue'[x] = queue[x]
      /\ \A n : ~lost' /\ d \in opened =>
           (Believes(queue'[d], held, n)
              <=> IF e.code = n THEN e.press ELSE Believes(queue[d], held, n))
  BY <1>1, <1>2, QueueKeeps
<1>4. InputTypes'
  BY <1>1, <1>3 DEF InputTypes
<1>5. HeardEach'
  <2> SUFFICES ASSUME ~lost', NEW x \in opened, NEW n \in Modifiers \cap Layout[x]
               PROVE  Believes(queue'[x], held, n) <=> n \in down[x] /\ n \notin before
    BY <1>1 DEF HeardEach
  <2>1. Believes(queue[x], held, n) <=> n \in down[x] /\ n \notin before
    BY <1>3 DEF HeardEach
  <2>2. n # k /\ x \in Devices
    BY <1>1 DEF InputTypes
  <2> QED
    BY <1>2, <1>3, <2>1, <2>2
<1> QED
  BY <1>4, <1>5

(* Reading an event moves it from the queue into what is believed.         *)
LEMMA ReadKeeps ==
  ASSUME InputTypes, HeardEach, NEW d \in Devices, Read(d)
  PROVE  InputTypes' /\ HeardEach'
<1> DEFINE e == Head(queue[d])
           Item == [code : Codes, press : BOOLEAN]
<1>1. /\ queue[d] # <<>> /\ queue' = [queue EXCEPT ![d] = Tail(@)]
      /\ UNCHANGED <<down, opened, before, lost, present>>
      /\ held' = IF e.code \in Modifiers
                 THEN IF e.press THEN held \cup {e.code} ELSE held \ {e.code}
                 ELSE held
  BY DEF Read, history
<1>2. /\ queue[d] \in Seq(Item) /\ Tail(queue[d]) \in Seq(Item)
      /\ DOMAIN Tail(queue[d]) = 1..Len(queue[d]) - 1 /\ DOMAIN queue[d] = 1..Len(queue[d])
      /\ Len(queue[d]) \in Nat \ {0}
      /\ \A i \in 1..Len(queue[d]) - 1 : Tail(queue[d])[i] = queue[d][i + 1]
      /\ e = queue[d][1]
  <2>1. queue[d] \in Seq(Item)
    BY DEF InputTypes
  <2> QED
    BY <1>1, <2>1, TailFacts
<1>3. /\ \A x \in Devices \ {d} : queue'[x] = queue[x]
      /\ queue'[d] = Tail(queue[d])
      /\ queue' \in [Devices -> Seq(Item)]
  BY <1>1, <1>2 DEF InputTypes
<1>4. e.code \in Layout[d]
  BY <1>2 DEF InputTypes
<1>5. \A i \in DOMAIN queue'[d] : queue'[d][i].code \in Layout[d]
  <2>1. ASSUME NEW i \in DOMAIN queue'[d]
        PROVE  i + 1 \in DOMAIN queue[d] /\ queue'[d][i] = queue[d][i + 1]
    BY <1>2, <1>3
  <2> QED
    BY <2>1 DEF InputTypes
<1>6. InputTypes'
  BY <1>1, <1>3, <1>5 DEF InputTypes
<1>7. HeardEach'
  <2> SUFFICES ASSUME ~lost, NEW x \in opened, NEW n \in Modifiers \cap Layout[x]
               PROVE  Believes(queue'[x], held', n) <=> Believes(queue[x], held, n)
    BY <1>1 DEF HeardEach
  <2>1. CASE x = d
    <3>1. n \in held' <=> IF e.code = n THEN e.press ELSE n \in held
      BY <1>1
    <3>2. Believes(Tail(queue[d]), held', n) <=> Believes(queue[d], held, n)
      <4>1. queue[d] \in Seq([code : Codes, press : BOOLEAN]) /\ queue[d] # <<>>
        BY <1>1, <1>2
      <4>2. n \in held' <=> IF Head(queue[d]).code = n THEN Head(queue[d]).press ELSE n \in held
        BY <3>1
      <4> HIDE DEF e, Item
      <4> QED
        BY <4>1, <4>2, BelievesTail
    <3> QED
      BY <1>3, <2>1, <3>2
  <2>2. CASE x # d
    <3>1. x \in Devices /\ n # e.code
      BY <1>4, <2>2, InputAssumption DEF InputTypes
    <3>2. queue'[x] = queue[x] /\ (n \in held' <=> n \in held)
      BY <1>1, <1>3, <2>2, <3>1
    <3> QED
      BY <3>2 DEF Believes
  <2> QED
    BY <2>1, <2>2
<1> QED
  BY <1>6, <1>7

(* The user's keys, the plugs and the threads of the activations change    *)
(* nothing of that; all keyboards are opened with empty queues.            *)
LEMMA HeardKeeps == InputTypes /\ HeardEach /\ [InputNext]_inputVars => InputTypes' /\ HeardEach'
<1> SUFFICES ASSUME InputTypes, HeardEach, [InputNext]_inputVars
             PROVE  InputTypes' /\ HeardEach'
  OBVIOUS
<1>1. CASE \E d \in Devices, c \in Codes : ModifierMoves(d, c) \/ KeyPressed(d, c) \/ Read(d)
  BY <1>1, ModifierMovesKeeps, KeyPressedKeeps, ReadKeeps
<1>2. CASE \E d \in Devices : Read(d)
  BY <1>2, ReadKeeps
<1>3. CASE Open
  <2>1. /\ opened' \subseteq present /\ present' = present /\ held' = {} /\ down' = down
        /\ queue' = [d \in Devices |-> <<>>]
        /\ before' = UNION Range(down) /\ lost' = FALSE
    BY <1>3 DEF Open
  <2>2. <<>> \in Seq([code : Codes, press : BOOLEAN]) /\ DOMAIN <<>> = {}
    OBVIOUS
  <2>3. \A d \in Devices : queue'[d] = <<>> /\ down[d] \subseteq before'
    BY <2>1 DEF InputTypes, Range
  <2>4. InputTypes'
    <3>1. queue' \in [Devices -> Seq([code : Codes, press : BOOLEAN])]
      BY <2>1, <2>2
    <3>2. \A d \in Devices : \A i \in DOMAIN queue'[d] : queue'[d][i].code \in Layout[d]
      BY <2>2, <2>3
    <3> QED
      BY <2>1, <3>1, <3>2 DEF InputTypes
  <2>5. HeardEach'
    <3> SUFFICES ASSUME NEW d \in Devices, NEW m
                 PROVE  ~Believes(queue'[d], held', m) /\ ~(m \in down'[d] /\ m \notin before')
      BY <2>4 DEF HeardEach, InputTypes
    <3> QED
      BY <2>1, <2>3, BelievesEmpty
  <2> QED
    BY <2>4, <2>5
<1>4. CASE Reopen \/ RestartThread
  <2>1. opened' = {} /\ UNCHANGED <<present, down, queue, lost>>
    BY <1>4 DEF Reopen, RestartThread, kernel, history
  <2> QED
    BY <2>1 DEF InputTypes, HeardEach
<1>5. CASE \E d \in Devices : Plug(d)
  <2>1. UNCHANGED <<opened, held, down, queue, lost, before>> /\ present' \subseteq Devices
    BY <1>5 DEF Plug, thread, history, InputTypes
  <2> QED
    BY <2>1 DEF InputTypes, HeardEach
<1>6. CASE \/ \E t \in threads : ActivationStarts(t) \/ ActivationEnds(t)
           \/ \E u \in Users, c \in Chords : Bind(u, c)
           \/ UNCHANGED inputVars
  <2>1. UNCHANGED <<present, opened, held, down, queue, lost, before>>
    BY <1>6 DEF ActivationStarts, ActivationEnds, Bind, inputVars, kernel, thread, history
  <2> QED
    BY <2>1 DEF InputTypes, HeardEach
<1> QED
  BY <1>1, <1>2, <1>3, <1>4, <1>5, <1>6 DEF InputNext

-----------------------------------------------------------------------------
(* The guard is taken by the thread that runs and dropped by it.           *)
LEMMA GuardKeeps == GuardHeld /\ [InputNext]_inputVars => GuardHeld'
<1> SUFFICES ASSUME GuardHeld, [InputNext]_inputVars
             PROVE  GuardHeld'
  OBVIOUS
<1>1. ASSUME NEW d \in Devices, Read(d) PROVE GuardHeld'
  <2>1. activating' = activating
    BY <1>1 DEF Read
  <2>2. \/ threads' = threads
        \/ \E c, id : threads' = threads \cup {[chord |-> c, step |-> "starts", id |-> id]}
    BY <1>1 DEF Read, HandleKey
  <2>3. /\ threads \subseteq threads'
        /\ \A t \in threads' \ threads :
             t.step # "runs" /\ t = [chord |-> t.chord, step |-> t.step, id |-> t.id]
    BY <2>2
  <2>4. Running' = Running
    BY <2>3 DEF Running
  <2> QED
    BY <2>1, <2>3, <2>4 DEF GuardHeld
<1>2. ASSUME NEW t \in threads, ActivationStarts(t) PROVE GuardHeld'
  <2>1. /\ t.step = "starts" /\ activating' = TRUE
        /\ threads' = (threads \ {t}) \cup (IF activating THEN {} ELSE {[t EXCEPT !.step = "runs"]})
    BY <1>2 DEF ActivationStarts
  <2>2. t \notin Running
    BY <2>1 DEF Running
  <2>3. CASE activating
    <3>1. Running' = Running
      BY <2>1, <2>2, <2>3 DEF Running
    <3> QED
      BY <2>1, <2>2, <2>3, <3>1 DEF GuardHeld, Running
  <2>4. CASE ~activating
    <3> DEFINE r == [t EXCEPT !.step = "runs"]
    <3>0. t = [chord |-> t.chord, step |-> t.step, id |-> t.id]
      BY DEF GuardHeld
    <3>1. r.step = "runs" /\ r = [chord |-> r.chord, step |-> r.step, id |-> r.id]
      BY <3>0
    <3>2. threads' = (threads \ {t}) \cup {r} /\ Running = {}
      BY <2>1, <2>4 DEF GuardHeld
    <3> HIDE DEF r
    <3>3. Running' = {r}
      BY <3>1, <3>2 DEF Running
    <3> QED
      BY <2>1, <3>1, <3>2, <3>3 DEF GuardHeld
  <2> QED
    BY <2>3, <2>4
<1>3. ASSUME NEW t \in threads, ActivationEnds(t) PROVE GuardHeld'
  <2>1. t \in Running /\ threads' = threads \ {t} /\ activating' = FALSE
    BY <1>3 DEF ActivationEnds, Running
  <2>2. Running = {t}
    BY <2>1 DEF GuardHeld
  <2>3. Running' = {}
    BY <2>1, <2>2 DEF Running
  <2> QED
    BY <2>1, <2>3 DEF GuardHeld
<1>4. CASE RestartThread
  BY <1>4 DEF RestartThread, GuardHeld, Running
<1>5. CASE UNCHANGED activation
  BY <1>5 DEF activation, GuardHeld, Running
<1>6. \/ UNCHANGED activation \/ RestartThread
      \/ \E d \in Devices : Read(d)
      \/ \E t \in threads : ActivationStarts(t) \/ ActivationEnds(t)
  BY DEF InputNext, inputVars, Plug, ModifierMoves, KeyPressed, Open, Reopen, Bind, activation
<1> QED
  BY <1>1, <1>2, <1>3, <1>4, <1>5, <1>6

-----------------------------------------------------------------------------
(* InputInv holds of every behaviour of the keyboard thread.               *)
THEOREM InputInvariant == InputSpec => []InputInv
<1>1. InputInv /\ [InputNext]_inputVars => InputInv'
  BY HeardKeeps, GuardKeeps DEF InputInv
<1> QED
  BY InitInput, <1>1, PTL DEF InputSpec

(* For any keyboards, layouts and queues, each queue, read to its end,     *)
(* leaves the thread with the modifiers that are down, unless it overflowed*)
(* (main.rs spawn_keyboard).                                               *)
THEOREM ChordsAreHeard == InputSpec => []HeardAsTyped
<1>1. InputInv => HeardAsTyped
  BY HeardFollows DEF InputInv
<1> QED
  BY InputInvariant, <1>1, PTL

(* For any number of activation threads, one runs while the guard is set   *)
(* and none while it is not (main.rs activate_program_shortcut).           *)
THEOREM ActivationIsSingle == InputSpec => []OneActivation
<1>1. InputInv => OneActivation
  <2> SUFFICES ASSUME GuardHeld PROVE OneActivation
    BY DEF InputInv
  <2>1. CASE activating
    <3>1. PICK t \in threads : Running = {t}
      BY <2>1 DEF GuardHeld
    <3>2. Cardinality({t}) = 1
      BY FS_Singleton
    <3> QED
      BY <2>1, <3>1, <3>2 DEF OneActivation, Running
  <2>2. CASE ~activating
    BY <2>2, FS_EmptySet DEF GuardHeld, OneActivation, Running
  <2> QED
    BY <2>1, <2>2
<1> QED
  BY InputInvariant, <1>1, PTL
=============================================================================
