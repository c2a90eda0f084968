------------------------------- MODULE Lighting -------------------------------
(***************************************************************************)
(* The keyboard lighting of the daemon: set_lighting, the key steps,       *)
(* lighting_tick, prepare_sleep and resume of runtime.rs, the LED writes of*)
(* system.rs and crates/victus-hw/src/sysfs.rs, and the lighting loop of   *)
(* main.rs.  A change of the settings writes nothing: it makes the loop    *)
(* forget what it sent, and the next tick sends it again.  The loop        *)
(* remembers a colour as sent also when the write failed.  Every action is *)
(* atomic under the runtime lock.  Until the system calms down, the user,  *)
(* clients with raw commands, sleep and restarts interfere, and any write  *)
(* may fail; a write to all zones stops at the first that fails.           *)
(***************************************************************************)
EXTENDS LightingPolicy

CONSTANTS
  None,
  Unsure   (* the state of an LED after a failed write or a raw command    *)

ASSUME LightingAssumption ==
  /\ None \notin Shades /\ None \notin Levels /\ None \notin BOOLEAN
  /\ Unsure \notin Shades /\ Unsure \notin Levels /\ Unsure # None
  /\ Zones = 1..Cardinality(Zones)

VARIABLES
  settings,   (* state.lighting, as it was sent                            *)
  suspended,  (* between prepare_sleep and resume                          *)
  idle,       (* idle_elapsed is beyond the timeout: never with no keyboard*)
  dimmed,     (* light_dimmed                                              *)
  sent,       (* light_last_zone, light_last_color: None after a change    *)
  backlight,  (* light_backlight_on                                        *)
  lastLevel,  (* light_last_brightness                                     *)
  user,       (* user_brightness of the platform, which follows a colour   *)
  recent,     (* less than the interval since light_last_send              *)
  polled,     (* less than half a second since light_last_idle_poll        *)
  led,        (* the LEDs: colour and brightness of each zone, each of it  *)
              (* Unsure after a failed write or a raw command              *)
  calm,       (* history: nobody interferes and writes no longer fail      *)
  foreign     (* history: user_brightness was last set by a raw command    *)

belief == <<sent, backlight, lastLevel>>
clock == <<recent, polled>>
histories == <<calm, foreign>>
vars == <<settings, suspended, idle, dimmed, belief, user, clock, led, histories>>

Forgotten == [z \in Zones |-> None]

-----------------------------------------------------------------------------
(* keyboard_brightness: the zones are written up to the first that fails.  *)
Outcomes == IF calm THEN {Cardinality(Zones)} ELSE 0..Cardinality(Zones)
Complete(done) == done = Cardinality(Zones)

Brightness(leds, level, done) ==
  [z \in Zones |-> [leds[z] EXCEPT !.level = IF z =< done THEN level ELSE Unsure]]

(* write_led_color: the colour, then the brightness; either may fail.      *)
WriteColour(colour, level, ok) ==
  IF ok THEN [colour |-> colour, level |-> level]
  ELSE [colour |-> Unsure, level |-> Unsure]
WriteResults == IF calm THEN {TRUE} ELSE BOOLEAN

Init ==
  /\ settings \in Settings
  /\ suspended = FALSE /\ idle = FALSE /\ dimmed = FALSE
  /\ sent = Forgotten /\ backlight = None /\ lastLevel = None
  /\ user = Top
  /\ recent = FALSE /\ polled = FALSE
  /\ led \in [Zones -> {[colour |-> c, level |-> Top] : c \in Colours}]
  /\ calm = FALSE /\ foreign = FALSE

(* Faulty: the backlight is thought to be as it was.                       *)
InvalidateNothing(reset) ==
  /\ sent' = sent
  /\ backlight' = IF reset /\ backlight = FALSE THEN None ELSE backlight

(* invalidate_lighting *)
Invalidate(reset) ==
  /\ sent' = Forgotten
  /\ backlight' = IF reset THEN None ELSE backlight

-----------------------------------------------------------------------------
(* set_lighting, and initialize_state *)
SetLighting ==
  /\ ~calm
  /\ settings' \in Settings
  /\ Invalidate(TRUE)
  /\ UNCHANGED <<suspended, idle, dimmed, lastLevel, user, clock, led, histories>>

(* handle_key with a hardware shortcut: one step of brightness or effect   *)
StepKey ==
  /\ ~calm
  /\ \E direction \in {-1, 1} :
       settings' \in {StepBrightness(settings, direction), StepEffect(settings, direction)}
  /\ Invalidate(TRUE)
  /\ UNCHANGED <<suspended, idle, dimmed, lastLevel, user, clock, led, histories>>

(* keyboard-color of a client goes straight to the LEDs.                   *)
RawColour ==
  /\ ~calm
  /\ \E z \in Zones : led' = [led EXCEPT ![z] = WriteColour(None, user, FALSE)]
  /\ UNCHANGED <<settings, suspended, idle, dimmed, belief, user, clock, histories>>

(* keyboard-brightness and keyboard-user-brightness: the second also sets  *)
(* the brightness that follows every colour.                               *)
RawBrightness ==
  /\ ~calm
  /\ led' = Brightness(led, Unsure, Cardinality(Zones))
  /\ \/ UNCHANGED <<user, foreign>>
     \/ user' \in {0, Top} /\ foreign' = TRUE
  /\ UNCHANGED <<settings, suspended, idle, dimmed, belief, clock, calm>>

(* The brightness goes to 0 behind light_last_brightness.                  *)
PrepareSleep ==
  /\ ~calm
  /\ suspended' = TRUE
  /\ \E done \in Outcomes : led' = Brightness(led, 0, done)
  /\ Invalidate(TRUE)
  /\ UNCHANGED <<settings, idle, dimmed, lastLevel, user, clock, histories>>

Resume ==
  /\ ~calm
  /\ suspended' = FALSE
  /\ Invalidate(TRUE)
  /\ UNCHANGED <<settings, idle, dimmed, lastLevel, user, clock, led, histories>>

(* A new daemon knows nothing of the LEDs and starts at full brightness,   *)
(* with the settings that were saved; a save that failed is like a change  *)
(* of them.                                                                *)
Restart ==
  /\ ~calm
  /\ suspended' = FALSE /\ idle' = FALSE /\ dimmed' = FALSE
  /\ sent' = Forgotten /\ backlight' = None /\ lastLevel' = None
  /\ user' = Top /\ foreign' = FALSE
  /\ recent' = FALSE /\ polled' = FALSE
  /\ UNCHANGED <<settings, led, calm>>

-----------------------------------------------------------------------------
(* The idle poll: the light is dimmed while a timeout is set and the last  *)
(* input is longer ago; without a keyboard nothing is ever long ago.       *)
DimmedNow == IF polled THEN dimmed ELSE settings.idle /\ settings.on /\ idle

(* A change of the dimming is a change like any other.                     *)
SentNow == IF DimmedNow = dimmed THEN sent ELSE Forgotten
BacklightNow == IF DimmedNow = dimmed THEN backlight ELSE None

WantOff == ~settings.on \/ DimmedNow

(* Off: brightness 0 once, taken for done whatever became of it.           *)
TickOff ==
  /\ WantOff
  /\ IF BacklightNow # FALSE /\ ~recent
     THEN \E done \in Outcomes :
            /\ led' = Brightness(led, 0, done)
            /\ backlight' = FALSE /\ sent' = Forgotten /\ lastLevel' = 0
            /\ recent' = TRUE
     ELSE /\ sent' = SentNow /\ backlight' = BacklightNow
          /\ UNCHANGED <<led, lastLevel, recent>>
  /\ UNCHANGED <<user, foreign>>

(* The brightness, if it is not the last one written: remembered only if   *)
(* every zone took it.                                                     *)
LevelSent(done) == IF Complete(done) THEN settings.level ELSE None

(* Faulty: an unknown brightness counts as the one of the settings.        *)
LevelDueIfKnown == lastLevel # None /\ lastLevel # settings.level

LevelDue == lastLevel # settings.level

(* tick_single and tick_multi: the zones whose colour is sent now          *)
Due(frame) ==
  IF recent THEN {}
  ELSE {z \in Zones : BacklightNow # TRUE \/ SentNow[z] # frame[z]}

TickOn ==
  /\ ~WantOff
  /\ \E done \in IF LevelDue THEN Outcomes ELSE {0}, frame \in Frames(settings) :
       LET lit == IF LevelDue THEN Brightness(led, settings.level, done) ELSE led
           due == Due(frame)
       IN  /\ lastLevel' = IF LevelDue THEN LevelSent(done) ELSE lastLevel
           /\ user' = IF LevelDue THEN settings.level ELSE user
           /\ foreign' = (foreign /\ ~LevelDue)
           /\ \E ok \in [due -> WriteResults] :
                led' = [z \in Zones |->
                          IF z \in due THEN WriteColour(frame[z], user', ok[z]) ELSE lit[z]]
           /\ sent' = [z \in Zones |-> IF z \in due THEN frame[z] ELSE SentNow[z]]
           /\ backlight' = IF recent THEN BacklightNow ELSE TRUE
           /\ recent' = (recent \/ due # {})

(* Faulty: the loop goes on while the machine sleeps.                      *)
LightingTickAsleep ==
  /\ dimmed' = DimmedNow /\ polled' = TRUE
  /\ TickOff \/ TickOn
  /\ UNCHANGED <<settings, suspended, idle, calm>>

(* lighting_tick *)
LightingTick ==
  /\ ~suspended
  /\ dimmed' = DimmedNow /\ polled' = TRUE
  /\ TickOff \/ TickOn
  /\ UNCHANGED <<settings, suspended, idle, calm>>

-----------------------------------------------------------------------------
(* The keyboard thread: a key or the loss of the keyboard, or time without *)
(* a key.                                                                  *)
Input ==
  /\ ~calm
  /\ idle' = ~idle
  /\ UNCHANGED <<settings, suspended, dimmed, belief, user, clock, led, histories>>

Interval ==
  /\ recent' = FALSE
  /\ UNCHANGED <<settings, suspended, idle, dimmed, belief, user, polled, led, histories>>

HalfSecond ==
  /\ recent' = FALSE /\ polled' = FALSE
  /\ UNCHANGED <<settings, suspended, idle, dimmed, belief, user, led, histories>>

Calm ==
  /\ ~calm /\ calm' = TRUE
  /\ UNCHANGED <<settings, suspended, idle, dimmed, belief, user, clock, led, foreign>>

Next ==
  \/ SetLighting \/ StepKey \/ RawColour \/ RawBrightness
  \/ PrepareSleep \/ Resume \/ Restart \/ LightingTick
  \/ Input \/ Interval \/ HalfSecond \/ Calm

Spec == Init /\ [][Next]_vars

(* The lighting thread runs for ever and time passes. *)
FairSpec == Spec /\ WF_vars(LightingTick) /\ WF_vars(HalfSecond)

-----------------------------------------------------------------------------
Lights == [colour : Shades \cup {Unsure}, level : Levels \cup {Unsure}]

(* What the loop believes it sent is what the LEDs show, wherever no failed*)
(* write and no raw command leaves it unsure (runtime.rs tick_multi and    *)
(* lighting_tick): a colour it will not send again is lit, in that colour  *)
(* and at the platform's brightness, and a keyboard it takes for off is    *)
(* dark.                                                                   *)
BeliefHolds ==
  \A z \in Zones :
    /\ backlight = TRUE /\ sent[z] # None =>
         /\ led[z].colour \in {sent[z], Unsure}
         /\ lastLevel # None => led[z].level \in {user, Unsure}
    /\ backlight = FALSE => led[z].level \in {0, Unsure}

(* Nothing lights the keyboard of a sleeping machine, neither a change of  *)
(* the settings nor the loop (runtime.rs prepare_sleep, lighting_tick).    *)
SleepsDark == suspended => \A z \in Zones : led[z].level \in {0, Unsure}

(* What the settings ask of a zone whose colour does not move. *)
Wanted(z) ==
  IF ~settings.on \/ dimmed THEN led[z].level \in {0, Unsure}
  ELSE /\ led[z].colour \in {settings.colour[z], Unsure}
       /\ led[z].level \in {settings.level, Unsure}

(* Once nobody interferes, the keyboard comes to show a static setting and *)
(* stays so, with its brightness, after any sleep, dimming, failure or     *)
(* restart before: except where a write that failed was taken for done,    *)
(* under a raw brightness, and for brightness 0, which counts as written   *)
(* once the light was off: the next colour lights the keyboard again.      *)
Settles ==
  <>[](calm /\ ~suspended /\ Normalize(settings).effect = "static" =>
         foreign \/ settings.level = 0 \/ \A z \in Zones : Wanted(z))
=============================================================================
