--------------------------- MODULE MCNodeMonitor ---------------------------
(* Instances of NodeMonitor for TLC. *)
EXTENDS NodeMonitor

\* What a step can tell of an object: nobody is left to call an idle one.
Seen(i) == IF obj[i].st = "idle" THEN [FreeObject EXCEPT !.st = "idle"] ELSE obj[i]

\* The view of MCNodeMonitor.cfg.  Two states that differ elsewhere have the same future:
\* ongoing is only written (cancelling erases an entry, creating a subscription adds one,
\* and Terminate() does nothing), and an object is known by what it holds, not by its
\* address: every action and every property treats all addresses alike.
Relevant ==
  LET seen == {Seen(i) : i \in Objects}
  IN  <<status, prev, db, setup, [o \in seen |-> Cardinality({i \in Objects : Seen(i) = o})],
        failing, process, clock, before>>

============================================================================
