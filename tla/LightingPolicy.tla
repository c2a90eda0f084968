---------------------------- MODULE LightingPolicy ----------------------------
(***************************************************************************)
(* The keyboard lighting settings and the pure functions over them:        *)
(* crates/victus-core/src/lighting.rs.  A colour is a model value and a    *)
(* brightness a small number.  Of the twelve effects three kinds are kept  *)
(* apart, for that is all lighting_frames does: a static one, one that     *)
(* dims the colour of each zone, and one that computes colours of its own. *)
(* Settings are stored as a client sent them and normalised at every use.  *)
(***************************************************************************)
EXTENDS Integers, Sequences, FiniteSets

CONSTANTS
  Zones,     (* the zones of the keyboard                                  *)
  Colours,   (* colours a user picks                                       *)
  Top,       (* the full brightness, 255                                   *)
  Steps,     (* BRIGHTNESS_STEPS                                           *)
  Effects,   (* effects_for_zone_count                                     *)
  Unknown    (* effects the settings may hold and the keyboard does not have*)

ASSUME PolicyAssumption ==
  /\ Zones # {} /\ IsFiniteSet(Zones) /\ Colours # {}
  /\ Top \in Nat \ {0}
  /\ {0, Top} \subseteq Steps /\ Steps \subseteq 0..Top
  /\ Effects \in Seq({"static", "breathing", "cycle"}) /\ Effects # <<>>
  /\ Unknown \cap {"static", "breathing", "cycle", "off"} = {}

Levels == 0..Top

(* Any shade an effect computes. *)
Dark == "dark"
Shades == Colours \cup {Dark}

EffectNames == {Effects[i] : i \in DOMAIN Effects} \cup Unknown

Settings == [on : BOOLEAN, effect : EffectNames, colour : [Zones -> Colours],
             level : Levels, idle : BOOLEAN]

(* normalize_effect: what the keyboard does not have becomes static.       *)
NormalizeEffect(effect) == IF effect \in Unknown THEN "static" ELSE effect

(* normalize_lighting_settings *)
Normalize(s) == [s EXCEPT !.effect = NormalizeEffect(@)]

Animated(s) == s.on /\ Normalize(s).effect # "static"

(* compute_anim_color: what an effect may make of a colour. *)
AnimColours(effect, colour) ==
  IF effect = "breathing" THEN {colour, Dark} ELSE Shades

(* lighting_frames: the colours of the zones at some step of the effect    *)
Frames(s) ==
  LET effect == Normalize(s).effect
  IN  IF effect = "static" THEN {s.colour}
      ELSE {f \in [Zones -> Shades] :
              \A z \in Zones : f[z] \in AnimColours(effect, s.colour[z])}

-----------------------------------------------------------------------------
LeastOf(S) == CHOOSE x \in S : \A y \in S : x =< y
MostOf(S) == CHOOSE x \in S : \A y \in S : x >= y

(* step_brightness_settings: off counts as 0; a step up turns it on.       *)
StepBrightness(s, direction) ==
  LET current == IF s.on THEN s.level ELSE 0
      above == {x \in Steps : x > current}
      below == {x \in Steps : x < current}
      level == IF direction > 0
               THEN IF above = {} THEN Top ELSE LeastOf(above)
               ELSE IF below = {} THEN 0 ELSE MostOf(below)
  IN  [s EXCEPT !.level = level, !.on = @ \/ level > 0]

(* step_effect_settings: "off" and the effects in a ring; a name that is   *)
(* not in it counts as the place before or after "off".                    *)
StepEffect(s, direction) ==
  LET ring == <<"off">> \o Effects
      current == IF s.on THEN s.effect ELSE "off"
      places == {i \in 1..Len(ring) : ring[i] = current}
      place == IF places # {}
               THEN ((LeastOf(places) - 1 + direction) % Len(ring)) + 1
               ELSE IF direction > 0 THEN 1 ELSE Len(ring)
  IN  IF ring[place] = "off" THEN [s EXCEPT !.on = FALSE]
      ELSE [s EXCEPT !.on = TRUE, !.effect = ring[place]]
=============================================================================
