--------------------------- MODULE MainLoopProofs ---------------------------
(***************************************************************************)
(* Proofs about MainLoop, for any bound on the work queue: the state keeps *)
(* its type, the queue its bound, and the mutex its one holder; a shutdown *)
(* that has begun is not lost, and the two threads never block each other. *)
(***************************************************************************)
EXTENDS MainLoop, TLAPS

\* Where a Contiki run may still add the stop request, and where the Unify thread
\* may still add a run.
Running == {"lock", "contiki", "unlock", "unlock_down", "down", "schedule_stop"}
Owed == IF unify \in {"lock", "schedule"} /\ main \notin Ended THEN 1 ELSE 0

\* Room for what each thread may still add is kept from the moment it is let in.
Room == Len(queue) + Owed <= IF main \in Running THEN MaxQueue + 1 ELSE MaxQueue + 2

\* The inductive invariant.
IInv == TypeOK /\ Exclusive /\ Room

\* What adding and taking a work item do to the queue.
LEMMA QueueLength ==
  ASSUME NEW q \in Seq({"unify", "stop"}), NEW e \in {"unify", "stop"}
  PROVE  /\ Len(q) \in Nat
         /\ Append(q, e) \in Seq({"unify", "stop"}) /\ Len(Append(q, e)) = Len(q) + 1
         /\ q # <<>> => Tail(q) \in Seq({"unify", "stop"}) /\ Len(Tail(q)) = Len(q) - 1
  OBVIOUS

\* Initially nothing is queued and the mutex is free.
LEMMA InitIInv == Init => IInv
  <1> SUFFICES ASSUME Init PROVE IInv
    OBVIOUS
  <1> USE MainLoopAssumption DEF Init
  <1>1. queue \in Seq({"unify", "stop"}) /\ Len(queue) = 0
    OBVIOUS
  <1>2. TypeOK
    <2>1. matter_running \in BOOLEAN /\ pending \in BOOLEAN /\ quit \in BOOLEAN
      BY Zenon
    <2>2. /\ unify_mutex \in {"none", "main", "unify"}
          /\ main \in {"init"} /\ unify \in {"test"}
      BY Zenon
    <2>3. Len(queue) <= MaxQueue + 2
      BY <1>1
    <2>4. QED
      BY <1>1, <2>1, <2>2, <2>3, Zenon DEF TypeOK
  <1>3. Exclusive
    BY DEF Exclusive
  <1>4. Room
    BY <1>1 DEF Room, Owed, Running, Ended
  <1>5. QED
    BY <1>2, <1>3, <1>4 DEF IInv

\* Every step of the main thread keeps the invariant.
LEMMA MainThreadKeeps == IInv /\ MainThread => IInv'
  <1> SUFFICES ASSUME IInv, MainThread PROVE IInv'
    OBVIOUS
  <1> USE MainLoopAssumption
  <1>0. Len(queue) \in Nat /\ queue \in Seq({"unify", "stop"})
    BY QueueLength DEF IInv, TypeOK
  <1>1. CASE ApplicationInit
    BY <1>0, <1>1 DEF ApplicationInit, IInv, TypeOK, Exclusive, Room, Owed, Running, Ended
  <1>2. CASE Dispatch
    <2>1. Tail(queue) \in Seq({"unify", "stop"}) /\ Len(Tail(queue)) = Len(queue) - 1
      BY <1>0, <1>2, QueueLength DEF Dispatch
    <2>2. QED
      BY <1>0, <1>2, <2>1 DEF Dispatch, IInv, TypeOK, Exclusive, Room, Owed, Running, Ended
  <1>3. CASE Lock
    BY <1>0, <1>3 DEF Lock, IInv, TypeOK, Exclusive, Room, Owed, Running, Ended
  <1>4. CASE ContikiRun
    BY <1>0, <1>4 DEF ContikiRun, IInv, TypeOK, Exclusive, Room, Owed, Running, Ended
  <1>5. CASE Unlock
    BY <1>0, <1>5 DEF Unlock, IInv, TypeOK, Exclusive, Room, Owed, Running, Ended
  <1>6. CASE Down
    BY <1>0, <1>6 DEF Down, IInv, TypeOK, Exclusive, Room, Owed, Running, Ended
  <1>7. CASE ScheduleStop
    <2>1. queue' \in Seq({"unify", "stop"}) /\ Len(queue') = Len(queue) + 1
      BY <1>0, <1>7, QueueLength DEF ScheduleStop
    <2>2. QED
      BY <1>0, <1>7, <2>1 DEF ScheduleStop, IInv, TypeOK, Exclusive, Room, Owed, Running, Ended
  <1>8. CASE LoopReturned
    BY <1>0, <1>8 DEF LoopReturned, IInv, TypeOK, Exclusive, Room, Owed, Running, Ended
  <1>9. CASE Join
    BY <1>0, <1>9 DEF Join, IInv, TypeOK, Exclusive, Room, Owed, Running, Ended
  <1>10. QED
    BY <1>1, <1>2, <1>3, <1>4, <1>5, <1>6, <1>7, <1>8, <1>9 DEF MainThread

\* Every step of the Unify thread keeps the invariant.
LEMMA UnifyThreadKeeps == IInv /\ UnifyThread => IInv'
  <1> SUFFICES ASSUME IInv, UnifyThread PROVE IInv'
    OBVIOUS
  <1> USE MainLoopAssumption
  <1>0. Len(queue) \in Nat /\ queue \in Seq({"unify", "stop"})
    BY QueueLength DEF IInv, TypeOK
  <1>1. CASE UnifyTest
    BY <1>0, <1>1 DEF UnifyTest, IInv, TypeOK, Exclusive, Room, Owed, Running, Ended
  <1>2. CASE UnifyWakes
    BY <1>0, <1>2 DEF UnifyWakes, IInv, TypeOK, Exclusive, Room, Owed, Running, Ended
  <1>3. CASE UnifyLock
    BY <1>0, <1>3 DEF UnifyLock, IInv, TypeOK, Exclusive, Room, Owed, Running, Ended
  <1>4. CASE UnifySchedule
    <2>1. /\ queue' \in Seq({"unify", "stop"})
          /\ main \notin Ended => Len(queue') = Len(queue) + 1
          /\ main \in Ended => Len(queue') = Len(queue)
      BY <1>0, <1>4, QueueLength DEF UnifySchedule
    <2>2. QED
      BY <1>0, <1>4, <2>1 DEF UnifySchedule, IInv, TypeOK, Exclusive, Room, Owed, Running, Ended
  <1>5. CASE UnifyUnlock
    BY <1>0, <1>5 DEF UnifyUnlock, IInv, TypeOK, Exclusive, Room, Owed, Running, Ended
  <1>6. QED
    BY <1>1, <1>2, <1>3, <1>4, <1>5 DEF UnifyThread

\* So does what the environment does, and stuttering.
LEMMA OthersKeep ==
  IInv /\ ((\E now \in BOOLEAN : Callback(now)) \/ LoopStops \/ Ready \/ Quit \/ UNCHANGED vars) => IInv'
  <1> SUFFICES ASSUME IInv, (\E now \in BOOLEAN : Callback(now)) \/ LoopStops \/ Ready \/ Quit \/ UNCHANGED vars
               PROVE  IInv'
    OBVIOUS
  <1> USE MainLoopAssumption
  <1>0. Len(queue) \in Nat /\ queue \in Seq({"unify", "stop"})
    BY QueueLength DEF IInv, TypeOK
  <1>1. ASSUME NEW now \in BOOLEAN, Callback(now) PROVE IInv'
    BY <1>0, <1>1 DEF Callback, IInv, TypeOK, Exclusive, Room, Owed, Running, Ended
  <1>2. CASE LoopStops
    BY <1>0, <1>2 DEF LoopStops, IInv, TypeOK, Exclusive, Room, Owed, Running, Ended
  <1>3. CASE Ready
    BY <1>0, <1>3 DEF Ready, IInv, TypeOK, Exclusive, Room, Owed, Running, Ended
  <1>4. CASE Quit
    BY <1>0, <1>4 DEF Quit, IInv, TypeOK, Exclusive, Room, Owed, Running, Ended
  <1>5. CASE UNCHANGED vars
    BY <1>5 DEF vars, IInv, TypeOK, Exclusive, Room, Owed
  <1>6. QED
    BY <1>1, <1>2, <1>3, <1>4, <1>5

\* The invariant is inductive.
LEMMA Inductive == Spec => []IInv
  <1>1. IInv /\ [Next]_vars => IInv'
    BY MainThreadKeeps, UnifyThreadKeeps, OthersKeep DEF Next, Exited
  <1>2. QED
    BY InitIInv, <1>1, PTL DEF Spec

\* The work queue never holds more than the bound and what the two threads were
\* already about to add to it.
THEOREM TypeCorrect == Spec => []TypeOK
  <1>1. IInv => TypeOK
    BY DEF IInv
  <1>2. QED
    BY Inductive, <1>1, PTL

\* unify_mutex is held by exactly the thread that is inside, so a Contiki run and the
\* Unify thread's ScheduleWork() exclude each other (call_unify_event_queue,
\* mpc_schedule_contiki and run_unify in matter_pc_main.cpp).
THEOREM MutexWorks == Spec => []Exclusive
  <1>1. IInv => Exclusive
    BY DEF IInv
  <1>2. QED
    BY Inductive, <1>1, PTL

-----------------------------------------------------------------------------
(***************************************************************************)
(* Shutdown and deadlock: what ShutdownEnds needs besides fairness.        *)
(***************************************************************************)

\* Once Contiki has stopped (matter_running = false), the event loop has ended, or will
\* find the request to: between the assignment and ScheduleWork, and until the request
\* is taken from the queue.
StopComing ==
  ~matter_running /\ main \notin Ended => main = "schedule_stop" \/ \E i \in 1 .. Len(queue) : queue[i] = "stop"

\* The Unify thread leaves its loop only for a shutdown, and main() joins it only after
\* it has told it so.
LeavesTogether ==
  /\ unify = "done" => ~matter_running
  /\ main \in {"join", "exit"} => ~matter_running

\* A shutdown that has begun goes on.
ShutdownInv == StopComing /\ LeavesTogether

\* The guards of the steps of each thread, at the statement it has reached.
MainCanMove ==
  /\ main = "loop" => queue # <<>>
  /\ main = "lock" => unify_mutex = "none"
  /\ main = "join" => unify = "done"
  /\ main # "exit"
UnifyCanMove ==
  /\ unify = "wait" => Len(queue) < MaxQueue \/ main \in Ended
  /\ unify = "lock" => unify_mutex = "none"
  /\ unify # "done"

\* One of the threads can go on without help from a callback, a signal or input, unless
\* the program has ended.
NoDeadlock == main = "exit" \/ MainCanMove \/ UnifyCanMove

\* Adding to the queue and taking something else from it keeps a request in it.
LEMMA StopStays ==
  ASSUME NEW q \in Seq({"unify", "stop"}), NEW e \in {"unify", "stop"}, NEW i \in 1 .. Len(q), q[i] = "stop"
  PROVE  /\ \E k \in 1 .. Len(Append(q, e)) : Append(q, e)[k] = "stop"
         /\ Head(q) = "unify" => \E k \in 1 .. Len(Tail(q)) : Tail(q)[k] = "stop"
  <1>1. Append(q, e)[i] = "stop" /\ i \in 1 .. Len(Append(q, e))
    OBVIOUS
  <1>2. ASSUME Head(q) = "unify" PROVE \E k \in 1 .. Len(Tail(q)) : Tail(q)[k] = "stop"
    <2>1. q # <<>> /\ i # 1
      BY <1>2
    <2>2. i - 1 \in 1 .. Len(Tail(q)) /\ Tail(q)[i - 1] = q[i]
      BY <2>1
    <2>3. QED
      BY <2>2
  <1>3. QED
    BY <1>1, <1>2

\* Every step keeps a shutdown under way.
LEMMA ShutdownStep == TypeOK /\ ShutdownInv /\ [Next]_vars => ShutdownInv'
  <1> SUFFICES ASSUME TypeOK, ShutdownInv, [Next]_vars PROVE ShutdownInv'
    OBVIOUS
  <1>0. queue \in Seq({"unify", "stop"}) /\ Len(queue) \in Nat
    BY DEF TypeOK
  <1>1. CASE Dispatch
    <2>1. LeavesTogether'
      BY <1>1 DEF Dispatch, ShutdownInv, LeavesTogether
    <2>2. CASE Head(queue) = "unify"
      <3>1. SUFFICES ASSUME ~matter_running PROVE \E k \in 1 .. Len(queue') : queue'[k] = "stop"
        BY <1>1, <2>1 DEF Dispatch, ShutdownInv, StopComing
      <3>2. PICK i \in 1 .. Len(queue) : queue[i] = "stop"
        BY <1>1, <3>1 DEF Dispatch, ShutdownInv, StopComing, Ended
      <3>3. QED
        BY <1>0, <1>1, <2>2, <3>2, StopStays DEF Dispatch
    <2>3. CASE Head(queue) # "unify"
      BY <1>1, <2>1, <2>3 DEF Dispatch, ShutdownInv, StopComing, Ended
    <2>4. QED
      BY <2>2, <2>3
  <1>2. CASE ScheduleStop
    <2>1. queue' = Append(queue, "stop")
      BY <1>2 DEF ScheduleStop
    <2>2. Len(queue') = Len(queue) + 1 /\ queue'[Len(queue) + 1] = "stop"
      BY <1>0, <2>1
    <2>3. QED
      BY <1>0, <1>2, <2>2 DEF ScheduleStop, ShutdownInv, StopComing, LeavesTogether
  <1>3. CASE UnifySchedule
    <2>1. LeavesTogether'
      BY <1>3 DEF UnifySchedule, ShutdownInv, LeavesTogether
    <2>2. SUFFICES ASSUME ~matter_running, main \notin Ended, main # "schedule_stop"
                   PROVE  \E k \in 1 .. Len(queue') : queue'[k] = "stop"
      BY <1>3, <2>1 DEF UnifySchedule, ShutdownInv, StopComing
    <2>3. PICK i \in 1 .. Len(queue) : queue[i] = "stop"
      BY <2>2 DEF ShutdownInv, StopComing
    <2>4. QED
      BY <1>0, <1>3, <2>2, <2>3, StopStays DEF UnifySchedule
  <1>4. CASE Down \/ LoopStops \/ LoopReturned \/ Join \/ ApplicationInit
    BY <1>4 DEF Down, LoopStops, LoopReturned, Join, ApplicationInit, ShutdownInv, StopComing, LeavesTogether, Ended
  <1>5. CASE Lock \/ ContikiRun \/ Unlock \/ \E now \in BOOLEAN : Callback(now)
    <2> DEFINE Inside == {"loop", "lock", "contiki", "unlock", "unlock_down"}
    <2>1. ASSUME NEW now \in BOOLEAN, Callback(now) PROVE main \in Inside /\ main' \in Inside
      BY <2>1 DEF Callback
    <2>2. /\ main \in Inside /\ main' \in Inside \cup {"down"}
          /\ UNCHANGED <<matter_running, unify, queue>>
      BY <1>5, <2>1 DEF Lock, ContikiRun, Unlock, Callback
    <2>3. QED
      BY <2>2 DEF ShutdownInv, StopComing, LeavesTogether, Ended
  <1>6. CASE UnifyTest \/ UnifyWakes \/ UnifyLock \/ UnifyUnlock
    BY <1>6 DEF UnifyTest, UnifyWakes, UnifyLock, UnifyUnlock, ShutdownInv, StopComing, LeavesTogether
  <1>7. CASE Ready \/ Quit \/ UNCHANGED vars
    BY <1>7 DEF Ready, Quit, vars, ShutdownInv, StopComing, LeavesTogether
  <1>8. QED
    BY <1>1, <1>2, <1>3, <1>4, <1>5, <1>6, <1>7 DEF Next, MainThread, UnifyThread, Exited

\* A shutdown, once begun, is never lost: no interleaving of the two threads takes the
\* request out of the queue without ending the loop, or lets the Unify thread leave or
\* be joined before it is told (call_unify_event_queue, main and run_unify).
THEOREM ShutdownNeverLost == Spec => []ShutdownInv
  <1>1. Init => ShutdownInv
    BY DEF Init, ShutdownInv, StopComing, LeavesTogether, Ended
  <1>2. QED
    BY <1>1, ShutdownStep, TypeCorrect, PTL DEF Spec

\* The two threads never wait for each other, for any bound on the queue: whoever waits
\* for the mutex waits for a thread that is about to release it, an idle event loop has
\* a Unify thread that will wake it, and a join is not made in vain.
THEOREM DeadlockFree == Spec => []NoDeadlock
  <1>1. IInv /\ ShutdownInv => NoDeadlock
    <2> SUFFICES ASSUME IInv, ShutdownInv, main # "exit", ~MainCanMove PROVE UnifyCanMove
      BY DEF NoDeadlock
    <2> USE MainLoopAssumption
    <2>0. queue \in Seq({"unify", "stop"}) /\ Len(queue) \in Nat /\ Len(<<>>) = 0
      BY DEF IInv, TypeOK
    <2>1. CASE main = "loop"
      <3>1. queue = <<>>
        BY <2>1 DEF MainCanMove
      <3>2. matter_running
        BY <2>0, <2>1, <3>1 DEF ShutdownInv, StopComing, Ended
      <3>3. QED
        BY <2>0, <2>1, <3>1, <3>2 DEF UnifyCanMove, IInv, TypeOK, Exclusive, ShutdownInv, LeavesTogether
    <2>2. CASE main = "lock"
      BY <2>2 DEF MainCanMove, UnifyCanMove, IInv, TypeOK, Exclusive
    <2>3. CASE main = "join"
      BY <2>3 DEF MainCanMove, UnifyCanMove, IInv, TypeOK, Exclusive, Ended
    <2>4. QED
      BY <2>1, <2>2, <2>3 DEF MainCanMove
  <1>2. QED
    BY <1>1, Inductive, ShutdownNeverLost, PTL
=============================================================================
