---------------------------- MODULE MCMapEditing ----------------------------
(* Small instances of MapEditing for TLC. *)
EXTENDS MapEditing
==============================================================================
