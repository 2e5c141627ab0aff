---------------------------- MODULE MCServerQuiet ----------------------------
(* ServerQuiet for TLC, with the tracked funds of MCServer. *)
EXTENDS ServerQuiet, MCServer
=============================================================================
