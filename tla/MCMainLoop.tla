----------------------------- MODULE MCMainLoop -----------------------------
(* The instance of MainLoop for TLC. *)
EXTENDS MainLoop
=============================================================================
