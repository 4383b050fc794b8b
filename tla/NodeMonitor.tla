----------------------------- MODULE NodeMonitor -----------------------------
(***************************************************************************)
(* Subscriptions to the interviewed nodes and the handling of nodes that   *)
(* fail: mpc_node_monitor.cpp, MPCNodeReportables.cpp, the recovery after  *)
(* boot of mpc_failing_node.cpp and the table of failing nodes,            *)
(* failing_nodes_datastore.cpp.                                            *)
(*                                                                         *)
(* Every callback runs to completion on the Matter thread and is one       *)
(* action.  What it changes is written as operators on a record of the     *)
(* state it works on (World), because the callbacks call one another, some *)
(* of them twice.                                                          *)
(***************************************************************************)
EXTENDS FailingNode, Sequences, FiniteSets, Functions

CONSTANTS
  Nodes,         \* attribute store ids of the device nodes
  Objects,       \* addresses an MPCNodeReportables object may have (bound)
  MaxBatch,      \* MAX_NODES_RECOVERABLE_WITHOUT_DELAY
  RecoveryTime,  \* auto_recovery_time
  MaxClock       \* bound on clock_seconds()

ASSUME MonitorAssumption ==
  /\ Nodes \subseteq Nat /\ IsFiniteSet(Nodes)
  /\ None \notin Objects
  /\ MaxBatch \in Nat \ {0} /\ RecoveryTime \in Nat /\ MaxClock \in Nat

VARIABLES
  status,    \* NETWORK_STATUS of each node; "gone" once it is deleted
  prev,      \* ATTRIBUTE_PREVIOUS_STATE_NETWORK_STATUS_ID
  db,        \* failing node table: time of the failure
  setup,     \* keys of reportables_setup_list
  ongoing,   \* ongoing_reportables
  obj,       \* the MPCNodeReportables objects on the heap
  failing,   \* all_failing_nodes
  process,   \* mpc_failing_node_auto_recovery_process
  clock,     \* clock_seconds()
  before     \* history: the last status of each node other than "offline"

vars == <<status, prev, db, setup, ongoing, obj, failing, process, clock, before>>

\* A heap object: unallocated, waiting for its session, with a subscribing
\* ReadClient, or without any client that could still call it.
Object == [st : {"free", "connecting", "open", "idle"}, node : Nodes \cup {None}, resub : BOOLEAN]
FreeObject == [st |-> "free", node |-> None, resub |-> FALSE]

World == [status |-> status, prev |-> prev, db |-> db, ongoing |-> ongoing, obj |-> obj]

Become(w) ==
  /\ status' = w.status /\ prev' = w.prev /\ db' = w.db
  /\ ongoing' = w.ongoing /\ obj' = w.obj
  /\ before' = [n \in Nodes |-> IF w.status[n] \in Online THEN w.status[n] ELSE before[n]]

-----------------------------------------------------------------------------
(* mpc_node_monitor.cpp and MPCNodeReportables.cpp *)

FreeObjects(w) == {i \in Objects : w.obj[i].st = "free"}

\* mpc_node_monitor_initiate_monitoring(): a node without a set-up list, one whose
\* network list cannot be read, and one for which New() finds no memory get no
\* subscription.  New() returns any free address, map::insert does not replace an
\* entry.
mpc_node_monitor_initiate_monitoring(w, n, resub) ==
  IF n \notin setup \/ w.status[n] = "gone" \/ FreeObjects(w) = {} THEN w
  ELSE LET i == CHOOSE free \in FreeObjects(w) : TRUE
       IN  [w EXCEPT !.obj[i] = [st |-> "connecting", node |-> n, resub |-> resub],
                     !.ongoing[n] = IF @ = None THEN i ELSE @]

\* mpc_node_monitor_cancel_monitoring(): Terminate() does nothing.
mpc_node_monitor_cancel_monitoring(w, n) == [w EXCEPT !.ongoing[n] = None]

\* Mutant: mReSubscribe is not looked at.
OnError_Resubscribes(w, i, error) ==
  LET n == w.obj[i].node
  IN  IF error = "timeout"
      THEN mpc_node_monitor_initiate_monitoring(mpc_node_monitor_cancel_monitoring(w, n), n, TRUE)
      ELSE mpc_node_monitor_cancel_monitoring(mpc_mark_device_as_failing(w, n, clock), n)

\* MPCNodeReportablesDelegate::OnError of object i.
OnError(w, i, error) ==
  LET n == w.obj[i].node
  IN  CASE w.obj[i].resub -> check_and_mark_failing_node(w, n, error, clock)
        [] ~w.obj[i].resub /\ error = "timeout" ->
             mpc_node_monitor_initiate_monitoring(mpc_node_monitor_cancel_monitoring(w, n), n, TRUE)
        [] OTHER ->
             mpc_node_monitor_cancel_monitoring(mpc_mark_device_as_failing(w, n, clock), n)

\* OnDone: the object deletes itself; ongoing_reportables is not told.
OnDone(w, i) == [w EXCEPT !.obj[i] = FreeObject]

\* InteractionModelEngine::ShutdownSubscriptions: the clients of n's subscriptions close.
ShutdownSubscriptions(w, n) ==
  [w EXCEPT !.obj = [i \in Objects |->
     IF @[i].st = "open" /\ @[i].node = n THEN FreeObject ELSE @[i]]]

-----------------------------------------------------------------------------
(* Interview and monitoring *)

Rest == <<setup, failing, process, clock>>

\* mpc_on_volatile_attribute_discovery(): parsing an answer of n has created a
\* volatile attribute.
VolatileAttributeDiscovered(n) ==
  /\ status[n] # "gone" /\ n \notin setup
  /\ setup' = setup \cup {n}
  /\ UNCHANGED <<status, prev, db, ongoing, obj, failing, process, clock, before>>

\* Mutant: the new status is not stored.
ResolutionCompletion_NoStatus(n) ==
  /\ status[n] \in Online
  /\ Become(mpc_node_monitor_initiate_monitoring(World, n, FALSE))
  /\ UNCHANGED Rest

\* mpc_attribute_resolver_resolution_completion()
ResolutionCompletion(n) ==
  /\ status[n] \in Online
  /\ \E st \in {"functional", "nonfunctional"} :
       Become(mpc_node_monitor_initiate_monitoring([World EXCEPT !.status[n] = st], n, FALSE))
  /\ UNCHANGED Rest

\* on_device_connected_common, SubscribeRequest::Send succeeds.
SubscribeSent(i) ==
  /\ obj[i].st = "connecting"
  /\ Become([World EXCEPT !.obj[i].st = "open"])
  /\ UNCHANGED Rest

\* SubscribeRequest::Send fails: it calls OnError and so does its caller.
SubscribeSendFails(i, error) ==
  /\ obj[i].st = "connecting"
  /\ LET w == [World EXCEPT !.obj[i].st = "idle"]
     IN  Become(OnError(OnError(w, i, error), i, error))
  /\ UNCHANGED Rest

\* on_device_connection_failure_common
ConnectionFails(i) ==
  /\ obj[i].st = "connecting"
  /\ Become(OnError([World EXCEPT !.obj[i].st = "idle"], i, "closed"))
  /\ UNCHANGED Rest

\* OnSubscriptionEstablished, or OnAttributeData with data.
Report(i) ==
  /\ obj[i].st = "open"
  /\ Become(mpc_failing_node_recovery(World, obj[i].node))
  /\ UNCHANGED Rest

\* The ReadClient gives up: OnError, then OnDone.
SubscriptionFails(i, error) ==
  /\ obj[i].st = "open"
  /\ Become(OnDone(OnError(World, i, error), i))
  /\ UNCHANGED Rest

\* A read of the resolver or a command is answered by n, with data or an error status.
RequestAnswered(n) ==
  /\ status[n] # "gone"
  /\ Become(mpc_failing_node_recovery(World, n))
  /\ UNCHANGED Rest

\* A read of the resolver or a command to n fails.
RequestFails(n, error) ==
  /\ status[n] # "gone"
  /\ Become(check_and_mark_failing_node(World, n, error, clock))
  /\ UNCHANGED Rest

\* mpc_node_removal_handle() after a goodbye.
NodeRemoved(n) ==
  /\ status[n] \in Online
  /\ LET w == IF status[n] = "interviewing" THEN World ELSE ShutdownSubscriptions(World, n)
     IN  Become([w EXCEPT !.status[n] = "gone", !.prev[n] = "none"])
  /\ UNCHANGED Rest

\* MPCFabricDelegate::FabricWillBeRemoved: every node goes, whatever its status.
FabricWillBeRemoved ==
  /\ Become([World EXCEPT
       !.obj    = [i \in Objects |-> IF @[i].st = "open" THEN FreeObject ELSE @[i]],
       !.status = [n \in Nodes |-> "gone"],
       !.prev   = [n \in Nodes |-> "none"]])
  /\ UNCHANGED Rest

-----------------------------------------------------------------------------
(* Auto recovery after boot *)

\* read_failing_nodes(): the rows in the order of their primary key (the only
\* element of the set).
read_failing_nodes(d) ==
  LET failed == {n \in Nodes : d[n] # None}
      ByKey == {rows \in [1 .. Cardinality(failed) -> failed] :
                  \A j, k \in DOMAIN rows : j < k => rows[j] < rows[k]}
  IN  {[k \in DOMAIN rows |-> [node |-> rows[k], time |-> d[rows[k]]]] : rows \in ByKey}

\* The process restarts: memory is gone, the attribute store and the table stay;
\* mpc_failing_node_auto_recovery() reads the table and starts the process.
Restart ==
  /\ setup' = {} /\ ongoing' = [n \in Nodes |-> None] /\ obj' = [i \in Objects |-> FreeObject]
  /\ failing' \in read_failing_nodes(db)
  /\ process' = "armed"
  /\ UNCHANGED <<status, prev, db, clock, before>>

\* The loop of recover_next_failing_node() over a batch of entries: a node that
\* failed too long ago loses its row, the others are subscribed to if they can be.
\* got maps the nodes for which New() has memory to addresses.
RecoverBatch(batch) ==
  LET entries == {batch[k] : k \in DOMAIN batch}
      expired == {e.node : e \in {x \in entries : clock >= x.time + RecoveryTime}}
      due == {n \in setup : status[n] # "gone" /\ \E e \in entries : e.node = n /\ n \notin expired}
      free == FreeObjects(World)
  IN  \E S \in SUBSET due : \E got \in Injection(S, free) :
        /\ S = due \/ \A i \in free : \E n \in S : got[n] = i
        /\ Become([World EXCEPT
             !.db = [n \in Nodes |-> IF n \in expired THEN None ELSE @[n]],
             !.obj = [i \in Objects |->
               IF \E n \in S : got[n] = i
               THEN [st |-> "connecting", node |-> CHOOSE n \in S : got[n] = i, resub |-> FALSE]
               ELSE @[i]],
             !.ongoing = [n \in Nodes |-> IF n \in S /\ @[n] = None THEN got[n] ELSE @[n]]])

\* Mutant: the throttling timer is not started again.
recover_next_NoTimer ==
  LET batch == SubSeq(failing, 1, IF Len(failing) < MaxBatch THEN Len(failing) ELSE MaxBatch)
  IN  /\ process = "armed"
      /\ RecoverBatch(batch)
      /\ failing' = SubSeq(failing, Len(batch) + 1, Len(failing))
      /\ process' = IF Len(failing) < MaxBatch THEN "exited" ELSE "idle"
      /\ UNCHANGED <<setup, clock>>

\* recover_next_failing_node(): a batch, then the throttling timer if entries are
\* left, the exit event if the list ran dry inside the loop, else nothing.
recover_next_failing_node ==
  LET batch == SubSeq(failing, 1, IF Len(failing) < MaxBatch THEN Len(failing) ELSE MaxBatch)
  IN  /\ process = "armed"
      /\ RecoverBatch(batch)
      /\ failing' = SubSeq(failing, Len(batch) + 1, Len(failing))
      /\ process' = CASE Len(failing) > MaxBatch -> "armed"
                      [] Len(failing) = MaxBatch -> "idle"
                      [] OTHER -> "exited"
      /\ UNCHANGED <<setup, clock>>

Tick ==
  /\ clock < MaxClock
  /\ clock' = clock + 1
  /\ UNCHANGED <<status, prev, db, setup, ongoing, obj, failing, process, before>>

-----------------------------------------------------------------------------
\* Nodes as OnNodeDiscovered leaves them, before any interview.
Init ==
  /\ status = [n \in Nodes |-> "interviewing"] /\ before = status
  /\ prev = [n \in Nodes |-> "none"]
  /\ db = [n \in Nodes |-> None]
  /\ setup = {} /\ ongoing = [n \in Nodes |-> None] /\ obj = [i \in Objects |-> FreeObject]
  /\ failing = <<>> /\ process = "armed"
  /\ clock = 0

Next ==
  \/ \E n \in Nodes : \/ VolatileAttributeDiscovered(n) \/ ResolutionCompletion(n)
                      \/ RequestAnswered(n) \/ NodeRemoved(n)
                      \/ \E error \in Error : RequestFails(n, error)
  \/ \E i \in Objects : \/ SubscribeSent(i) \/ ConnectionFails(i) \/ Report(i)
                        \/ \E error \in Error : SubscribeSendFails(i, error) \/ SubscriptionFails(i, error)
  \/ FabricWillBeRemoved
  \/ Restart
  \/ recover_next_failing_node
  \/ Tick

Spec == Init /\ [][Next]_vars

\* The Contiki loop keeps serving the recovery process, and the program is not
\* restarted for ever.
FairSpec ==
  /\ Spec
  /\ WF_vars(recover_next_failing_node)
  /\ <>[][~Restart]_vars

-----------------------------------------------------------------------------
(* Properties *)

FailingEntry == [node : Nodes, time : Nat]

\* The type invariant: in particular a status is never written from an undefined
\* saved state (the test in mpc_failing_node_recovery).
TypeOK ==
  /\ status \in [Nodes -> Status] /\ before \in [Nodes -> Online]
  /\ prev \in [Nodes -> Saved]
  /\ db \in [Nodes -> Nat \cup {None}]
  /\ setup \subseteq Nodes
  /\ ongoing \in [Nodes -> Objects \cup {None}]
  /\ obj \in [Objects -> Object]
  /\ failing \in Seq(FailingEntry)
  /\ process \in {"armed", "idle", "exited"}
  /\ clock \in Nat

\* The table of failing nodes names no node that is online: no row survives the
\* recovery of its node, whichever callback brings it back.
FailedAreOffline == \A n \in Nodes : db[n] # None => status[n] \in {"offline", "gone"}

\* The published states are those of NodeLifecycle: in particular a node comes back
\* from "offline" only to the status it had when it first failed, whichever callback
\* of whichever request brings it back, and one callback changes one node.
Lifecycle == INSTANCE NodeLifecycle WITH state <- status, last <- before
ImplementsLifecycle == Lifecycle!Spec

\* A goodbye leaves no subscription of the node behind, although
\* mpc_node_removal_handle skips ShutdownSubscriptions for an interviewing node.
GoodbyeUnsubscribes ==
  [][\A n \in Nodes : NodeRemoved(n) =>
       \A i \in Objects : ~(obj'[i].st = "open" /\ obj'[i].node = n)]_vars

\* A subscription that asks again after a timeout gives up at the next failure: an
\* object of a node is never replaced by another one for ever.
ResubscribesOnce ==
  [][\A i, k \in Objects :
       /\ obj[i].st \in {"connecting", "open"} /\ obj[i].resub
       /\ obj'[i].st \in {"idle", "free"}
       => ~(obj[k].st = "free" /\ obj'[k].st = "connecting")]_vars

\* After boot every row of the table gets its turn, in batches (overview, "Recovery
\* After Boot-up").
BootRecoveryDrains == failing # <<>> ~> failing = <<>>

\* A node that is offline knows the online state it goes back to.
KnowsLastState == \A n \in Nodes : status[n] = "offline" => prev[n] \in Online

=============================================================================
