--------------------------- MODULE MCCommandSender ---------------------------
(* Instances of CommandSender for TLC. *)
EXTENDS CommandSender

CONSTANTS c1, c2, c3

==============================================================================
