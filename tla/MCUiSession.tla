----------------------------- MODULE MCUiSession -----------------------------
(* A small instance of UiSession for TLC. *)
EXTENDS UiSession

MCStart == [light |-> 1, fan |-> [mode |-> "custom", curve |-> 1], power |-> 1,
            profile |-> 1, flag |-> FALSE]
=============================================================================
