---------------------------- MODULE FailingNode ----------------------------
(***************************************************************************)
(* mpc_failing_node.cpp: how a failed request takes a node offline and how *)
(* an answer brings it back.  The functions are operators on a record w    *)
(* with the fields                                                         *)
(*   status  NETWORK_STATUS of each node; "gone" once it is deleted        *)
(*   prev    ATTRIBUTE_PREVIOUS_STATE_NETWORK_STATUS_ID, "none" if unset   *)
(*   db      the failing node table: time of the failure, or None          *)
(* and whatever else the caller's state has.                               *)
(***************************************************************************)
EXTENDS Integers

Online == {"interviewing", "functional", "nonfunctional"}
Status == Online \cup {"offline", "gone"}
Saved  == Online \cup {"offline", "none"}
Error  == {"timeout", "closed", "other"}   \* "closed": the other errors that mark a node

None   == -1

\* insert_failing_node(): the node is the primary key, a second row is refused.
insert_failing_node(w, n, now) == [w EXCEPT !.db[n] = IF @ = None THEN now ELSE @]

\* mpc_mark_device_as_failing(); reading a deleted node throws and is caught.
mpc_mark_device_as_failing(w, n, now) ==
  IF w.status[n] = "gone" THEN w
  ELSE LET marked == [w EXCEPT !.prev[n] = w.status[n], !.status[n] = "offline"]
       IN  IF w.status[n] \notin {"interviewing", "nonfunctional"}
           THEN insert_failing_node(marked, n, now) ELSE marked

check_and_mark_failing_node(w, n, error, now) ==
  IF error \in {"timeout", "closed"} THEN mpc_mark_device_as_failing(w, n, now) ELSE w

\* Mutants: no test of the saved state; the row stays; always back to functional.
mpc_failing_node_recovery_NoTest(w, n) ==
  IF w.status[n] = "offline"
  THEN [w EXCEPT !.status[n] = w.prev[n], !.prev[n] = "none", !.db[n] = None] ELSE w

mpc_failing_node_recovery_KeepsRow(w, n) ==
  IF w.status[n] = "offline" /\ w.prev[n] # "none"
  THEN [w EXCEPT !.status[n] = w.prev[n], !.prev[n] = "none"] ELSE w

mpc_failing_node_recovery_Functional(w, n) ==
  IF w.status[n] = "offline" /\ w.prev[n] # "none"
  THEN [w EXCEPT !.status[n] = "functional", !.prev[n] = "none", !.db[n] = None] ELSE w

\* mpc_failing_node_recovery(), with mpc_fetch_saved_state and delete_data.
mpc_failing_node_recovery(w, n) ==
  IF w.status[n] = "offline" /\ w.prev[n] # "none"
  THEN [w EXCEPT !.status[n] = w.prev[n], !.prev[n] = "none", !.db[n] = None]
  ELSE w

=============================================================================
