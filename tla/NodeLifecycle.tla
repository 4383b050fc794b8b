--------------------------- MODULE NodeLifecycle ---------------------------
(***************************************************************************)
(* What the MPC promises about the state it publishes for a node: an       *)
(* abstract specification, without requests, subscriptions, tables or      *)
(* restarts.  NodeMonitor is shown to implement it.                        *)
(*                                                                         *)
(* A node begins in its interview.  It is offline between a failure and    *)
(* the next message from it, and then has the state it had before the      *)
(* failure (doc/readme_overview.md, "Message based Recovery").  It leaves   *)
(* once, for good: a node that comes back is a new one.                    *)
(***************************************************************************)
CONSTANT Nodes

VARIABLES
  state,   \* the published state of each node
  last     \* its last state other than "offline" and "gone"

Online == {"interviewing", "functional", "nonfunctional"}

Init == state = [n \in Nodes |-> "interviewing"] /\ last = state

\* An interview ends, the first one or a later one.
Concludes(n) ==
  /\ state[n] \in Online
  /\ \E st \in {"functional", "nonfunctional"} :
       state' = [state EXCEPT ![n] = st] /\ last' = [last EXCEPT ![n] = st]

Fails(n) ==
  /\ state[n] \in Online
  /\ state' = [state EXCEPT ![n] = "offline"]
  /\ UNCHANGED last

Recovers(n) ==
  /\ state[n] = "offline"
  /\ state' = [state EXCEPT ![n] = last[n]]
  /\ UNCHANGED last

\* A node says goodbye, which an offline one cannot.
Leaves(n) ==
  /\ state[n] \in Online
  /\ state' = [state EXCEPT ![n] = "gone"]
  /\ UNCHANGED last

\* The MPC is removed from its fabric.
AllLeave == state' = [n \in Nodes |-> "gone"] /\ UNCHANGED last

Next == AllLeave \/ \E n \in Nodes : Concludes(n) \/ Fails(n) \/ Recovers(n) \/ Leaves(n)

Spec == Init /\ [][Next]_<<state, last>>
=============================================================================
