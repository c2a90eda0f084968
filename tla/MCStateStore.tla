----------------------------- MODULE MCStateStore -----------------------------
(* A small instance of StateStore for TLC. *)
EXTENDS StateStore
=============================================================================
