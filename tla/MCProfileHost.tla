---------------------------- MODULE MCProfileHost ----------------------------
(* ProfileHost with a channel of two requests: enough for a request of the *)
(* battery policy behind one of the keyboard, and for a full channel.      *)
EXTENDS ProfileHost, TLC

MCCapacity == 2
=============================================================================
