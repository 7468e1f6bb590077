---------------------------- MODULE MCConfigSync ----------------------------
(* A small instance of ConfigSync for TLC. *)
EXTENDS ConfigSync

CONSTANTS old, new, empty
=============================================================================
