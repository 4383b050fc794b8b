------------------------------ MODULE MCCodeGen ------------------------------
(* Model checking of CodeGen: the tables are the real ones, nothing is left *)
(* to instantiate.                                                          *)
EXTENDS CodeGen
=============================================================================
