---------------------------- MODULE MCNwMonitor ----------------------------
(* Instances of NwMonitor for TLC. *)
EXTENDS NwMonitor

CONSTANTS d1, d2, d3, mpc

Devices == {d1, d2, d3}
Symmetry == Permutations(Devices)

============================================================================
