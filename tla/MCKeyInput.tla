----------------------------- MODULE MCKeyInput -----------------------------
(* A small instance of KeyInput for TLC: the built-in keyboard with two    *)
(* modifiers and a key, and the HP hotkeys with one that needs none.       *)
EXTENDS KeyInput

CONSTANTS Board, Hotkeys, Up, Omen

MCLayout == [d \in {Board, Hotkeys} |-> IF d = Board THEN {Ctrl, Shift, Up} ELSE {Omen}]
=============================================================================
