------------------------------ MODULE MainLoop ------------------------------
(***************************************************************************)
(* The two threads of matter_pc_main.cpp.  The main thread runs Matter's   *)
(* event loop and, in it, Contiki; the Unify thread waits for Unify's file *)
(* descriptors and timers and schedules a Contiki run.  unify_mutex keeps  *)
(* the thread's ScheduleWork() apart from the Contiki runs.                *)
(*                                                                         *)
(* External: Matter's work queue and its event loop, and from Unify        *)
(* uic_main_loop_run(), which handles what is pending and returns false    *)
(* once it has been told to stop, and uic_main_wait_for_file_descriptors().*)
(***************************************************************************)
EXTENDS Integers, Sequences

CONSTANT MaxQueue   \* bound on the work items queued before a thread adds another

ASSUME MainLoopAssumption == MaxQueue \in Nat \ {0}

VARIABLES
  matter_running,
  unify_mutex,   \* its owner, or "none"
  main,          \* where the main thread is
  unify,         \* where the Unify thread is
  queue,         \* work scheduled on Matter's event loop
  pending,       \* Contiki has an event, an expired timer or a readable descriptor
  quit           \* Contiki has been told to stop

vars == <<matter_running, unify_mutex, main, unify, queue, pending, quit>>

Ended == {"stopped", "join", "exit"}   \* the event loop no longer runs

-----------------------------------------------------------------------------
(* The main thread *)

\* The end of main()'s set-up: the loop's ApplicationInit() starts the network monitor.
ApplicationInit ==
  /\ main = "init" /\ main' = "loop" /\ pending' = TRUE
  /\ UNCHANGED <<matter_running, unify_mutex, unify, queue, quit>>

\* A Matter callback posts an event to Contiki; now: and calls mpc_schedule_contiki().
Callback(now) ==
  /\ main = "loop" /\ Len(queue) < MaxQueue
  /\ pending' = TRUE
  /\ main' = IF now THEN "lock" ELSE "loop"
  /\ UNCHANGED <<matter_running, unify_mutex, unify, queue, quit>>

\* The loop takes the next work item: call_unify_event_queue() or StopEventLoopTask().
Dispatch ==
  /\ main = "loop" /\ queue # <<>>
  /\ queue' = Tail(queue)
  /\ main' = IF Head(queue) = "unify" THEN "lock" ELSE "stopped"
  /\ UNCHANGED <<matter_running, unify_mutex, unify, pending, quit>>

\* Mutant: Contiki runs without the mutex.
Lock_Not ==
  /\ main = "lock" /\ main' = "contiki"
  /\ UNCHANGED <<matter_running, unify_mutex, unify, queue, pending, quit>>

Lock ==
  /\ main = "lock" /\ unify_mutex = "none"
  /\ unify_mutex' = "main" /\ main' = "contiki"
  /\ UNCHANGED <<matter_running, unify, queue, pending, quit>>

\* uic_main_loop_run(); whether a run after the one that returned false does so again
\* is left open.
ContikiRun ==
  /\ main = "contiki"
  /\ pending' = FALSE
  /\ main' = IF quit THEN "unlock_down" ELSE "unlock"
  /\ quit' \in {FALSE, quit}
  /\ UNCHANGED <<matter_running, unify_mutex, unify, queue>>

Unlock ==
  /\ main \in {"unlock", "unlock_down"}
  /\ unify_mutex' = "none"
  /\ main' = IF main = "unlock" THEN "loop" ELSE "down"
  /\ UNCHANGED <<matter_running, unify, queue, pending, quit>>

\* Mutant: the event loop is not told to stop.
Down_NoStop ==
  /\ main = "down" /\ matter_running' = FALSE /\ main' = "loop"
  /\ UNCHANGED <<unify_mutex, unify, queue, pending, quit>>

\* matter_running = false; GenerateShutDownEvent().
Down ==
  /\ main = "down" /\ matter_running' = FALSE /\ main' = "schedule_stop"
  /\ UNCHANGED <<unify_mutex, unify, queue, pending, quit>>

\* Mutant: the loop is told twice.
ScheduleStop_Twice ==
  /\ main = "schedule_stop"
  /\ queue' = queue \o <<"stop", "stop">> /\ main' = "loop"
  /\ UNCHANGED <<matter_running, unify_mutex, unify, pending, quit>>

\* ScheduleWork(StopEventLoopTask), outside the mutex.
ScheduleStop ==
  /\ main = "schedule_stop"
  /\ queue' = Append(queue, "stop") /\ main' = "loop"
  /\ UNCHANGED <<matter_running, unify_mutex, unify, pending, quit>>

\* Matter's loop stops for a reason of its own (a signal, an error).
LoopStops ==
  /\ main = "loop" /\ main' = "stopped"
  /\ UNCHANGED <<matter_running, unify_mutex, unify, queue, pending, quit>>

\* main() after ChipLinuxAppMainLoop().
LoopReturned ==
  /\ main = "stopped" /\ matter_running' = FALSE /\ main' = "join"
  /\ UNCHANGED <<unify_mutex, unify, queue, pending, quit>>

Join ==
  /\ main = "join" /\ unify = "done" /\ main' = "exit"
  /\ UNCHANGED <<matter_running, unify_mutex, unify, queue, pending, quit>>

-----------------------------------------------------------------------------
(* The Unify thread, run_unify() *)

\* Mutant: no loop.
UnifyTest_Once ==
  /\ unify = "test"
  /\ unify' = IF matter_running /\ main = "init" THEN "wait" ELSE "done"
  /\ UNCHANGED <<matter_running, unify_mutex, main, queue, pending, quit>>

UnifyTest ==
  /\ unify = "test"
  /\ unify' = IF matter_running THEN "wait" ELSE "done"
  /\ UNCHANGED <<matter_running, unify_mutex, main, queue, pending, quit>>

\* uic_main_wait_for_file_descriptors() returns: something is ready, or its time is up.
UnifyWakes ==
  /\ unify = "wait" /\ (Len(queue) < MaxQueue \/ main \in Ended)
  /\ unify' = "lock"
  /\ UNCHANGED <<matter_running, unify_mutex, main, queue, pending, quit>>

UnifyLock ==
  /\ unify = "lock" /\ unify_mutex = "none"
  /\ unify_mutex' = "unify" /\ unify' = "schedule"
  /\ UNCHANGED <<matter_running, main, queue, pending, quit>>

\* ScheduleWork(call_unify_event_queue); nobody takes it once the loop has stopped.
UnifySchedule ==
  /\ unify = "schedule" /\ unify' = "unlock"
  /\ queue' = IF main \in Ended THEN queue ELSE Append(queue, "unify")
  /\ UNCHANGED <<matter_running, unify_mutex, main, pending, quit>>

UnifyUnlock ==
  /\ unify = "unlock" /\ unify' = "test" /\ unify_mutex' = "none"
  /\ UNCHANGED <<matter_running, main, queue, pending, quit>>

-----------------------------------------------------------------------------
(* The environment *)

\* A message, a timer, input.
Ready ==
  /\ main \notin Ended /\ pending' = TRUE
  /\ UNCHANGED <<matter_running, unify_mutex, main, unify, queue, quit>>

\* Contiki is told to stop by a signal or by the command line.
Quit ==
  /\ main \notin Ended \cup {"init"} /\ quit' = TRUE /\ pending' = TRUE
  /\ UNCHANGED <<matter_running, unify_mutex, main, unify, queue>>

Exited == main = "exit" /\ UNCHANGED vars

-----------------------------------------------------------------------------
Init ==
  /\ matter_running = TRUE /\ unify_mutex = "none"
  /\ main = "init" /\ unify = "test"
  /\ queue = <<>> /\ pending = FALSE /\ quit = FALSE

MainThread ==
  \/ ApplicationInit \/ Dispatch \/ Lock \/ ContikiRun \/ Unlock
  \/ Down \/ ScheduleStop \/ LoopReturned \/ Join

UnifyThread == UnifyTest \/ UnifyWakes \/ UnifyLock \/ UnifySchedule \/ UnifyUnlock

Next ==
  \/ MainThread \/ UnifyThread
  \/ \E now \in BOOLEAN : Callback(now)
  \/ LoopStops \/ Ready \/ Quit \/ Exited

Spec == Init /\ [][Next]_vars

\* Both threads run, the wait returns, no thread is kept from the mutex for ever, and
\* the event loop comes round to its work queue although callbacks keep coming.
FairSpec ==
  /\ Spec
  /\ WF_vars(MainThread) /\ SF_vars(Lock) /\ SF_vars(Dispatch)
  /\ WF_vars(UnifyThread) /\ SF_vars(UnifyWakes) /\ SF_vars(UnifyLock)

-----------------------------------------------------------------------------
(* Properties *)

TypeOK ==
  /\ matter_running \in BOOLEAN /\ pending \in BOOLEAN /\ quit \in BOOLEAN
  /\ unify_mutex \in {"none", "main", "unify"}
  /\ main \in {"init", "loop", "lock", "contiki", "unlock", "unlock_down", "down", "schedule_stop"} \cup Ended
  /\ unify \in {"test", "wait", "lock", "schedule", "unlock", "done"}
  /\ queue \in Seq({"unify", "stop"}) /\ Len(queue) <= MaxQueue + 2

\* Contiki and the Unify thread's ScheduleWork() never run at the same time, and the
\* mutex is held by exactly the thread that is inside: no path through the two loops
\* leaves it locked or takes it twice.
Exclusive ==
  /\ unify_mutex = "main" <=> main \in {"contiki", "unlock", "unlock_down"}
  /\ unify_mutex = "unify" <=> unify \in {"schedule", "unlock"}

\* Whatever is ready for Contiki is handled, also if it was posted by a callback that
\* does not call mpc_schedule_contiki(), or while the Unify thread was busy, or just
\* after a run; unless the event loop ends.
EventsRun == pending ~> (~pending \/ main \in Ended)

\* Once Contiki is told to stop, the program ends: the event loop stops, the Unify
\* thread leaves its loop and is joined, from any point either thread was at.
ShutdownEnds == quit ~> main = "exit"
=============================================================================
