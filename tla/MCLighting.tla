----------------------------- MODULE MCLighting -----------------------------
(* Small instances of Lighting for TLC. *)
EXTENDS Lighting

MCEffects == <<"static", "breathing">>
=============================================================================
