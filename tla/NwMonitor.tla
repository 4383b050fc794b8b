------------------------------ MODULE NwMonitor ------------------------------
(***************************************************************************)
(* The network monitor of the Matter Protocol Controller (MPC),            *)
(* linux/src/components/mpc_nw_monitor/src/mpc_nw_monitor.cpp: which nodes  *)
(* the attribute store holds, how mDNS and the fabric table change them,   *)
(* and how newly discovered nodes wait for their interview.                *)
(*                                                                         *)
(* Everything runs on the Matter thread.  A Matter callback runs while     *)
(* mode = "matter".  mode = "contiki" is uic_main_loop_run(): the Contiki  *)
(* processes handle their queued events until none is left, and no Matter  *)
(* callback can interleave.  mode = "aborted" is the process after an      *)
(* exception nobody catches.                                               *)
(*                                                                         *)
(* Times are relative to now: entry.after is interviewAfter - clock_time() *)
(* while that is positive and 0 from then on, and timer is what is left of *)
(* the etimer's interval.                                                  *)
(***************************************************************************)
EXTENDS Integers, Sequences, FiniteSets, FiniteSetsExt, SequencesExt

CONSTANTS
  FabricIndexes,  \* indexes the fabric table may assign
  NodeIds,        \* Matter node ids, the MPC's own among them
  Mpc,            \* the MPC's own node id (taken to be the same in every fabric)
  MpcLike,        \* the node ids whose decimal text begins with that of Mpc
  GoodbyeIds,     \* the node ids that mDNS reports with a zero TTL
  Delay,          \* INTERVIEW_DELAY_MSEC, in ticks
  ClockModulus,   \* clock_time_t is unsigned: arithmetic is modulo this
  Horizon,        \* an interval longer than this outlives the process
  NumEvents,      \* capacity of the Contiki event queue
  MaxHandle       \* bound: attribute store nodes ever created

ASSUME NwAssumption ==
  /\ FabricIndexes \subseteq Nat \ {0}
  /\ MpcLike \subseteq NodeIds /\ Mpc \in MpcLike
  /\ GoodbyeIds \subseteq NodeIds
  /\ Delay \in Nat \ {0} /\ Horizon \in Nat /\ Delay <= Horizon
  /\ ClockModulus \in Nat /\ Horizon < ClockModulus - Delay
  /\ NumEvents \in Nat \ {0}
  /\ MaxHandle \in Nat \ {0}

VARIABLES
  live,         \* handles of the ATTRIBUTE_NODE_ID nodes in the attribute store
  attrs,        \* what the store keeps under each of them
  lastHandle,   \* the store numbers its nodes upwards and never reuses a number
  fabrics,      \* indexes in the fabric table
  joined,       \* the fabric table has assigned an index before
  discovering,  \* mpc_start_node_discovery has been called
  pending,      \* pending_interviews
  timer,        \* interview_trigger_timer
  queue,        \* Contiki events for mpc_nw_mon_process
  mode

storeVars == <<live, attrs, lastHandle>>
netVars   == <<fabrics, joined, discovering>>
vars      == <<storeVars, netVars, pending, timer, queue, mode>>

-----------------------------------------------------------------------------
(* The attribute store *)

Handle == 1 .. MaxHandle
Entry  == FabricIndexes \X NodeIds
Status == {"interviewing", "functional", "nonfunctional", "offline"}

\* NETWORK_LIST: attribute missing, present without a reported value, or reported.
ListState == {"absent", "undefined", "reported"}

\* Endpoint 0: missing, present, or present with the descriptor cluster's lists.
Endpoint0 == {"none", "bare", "descriptor"}

\* listener is kept in memory: the resolver has a resolution listener for the node.
Node == [list     : ListState,
         entries  : SUBSET Entry,
         status   : Status,
         prev     : Status \cup {"none"},
         ep0      : Endpoint0,
         listener : BOOLEAN]

NewNode == [list     |-> "absent",
            entries  |-> {},
            status   |-> "nonfunctional",
            prev     |-> "none",
            ep0      |-> "none",
            listener |-> FALSE]

\* attribute::delete_node() on the nodes of gone.
Deleted(at, gone) == [h \in Handle |-> IF h \in gone THEN NewNode ELSE at[h]]

-----------------------------------------------------------------------------
(* The Contiki side: etimer and event queue *)

Off == -1          \* etimer_expired(): the timer belongs to no process

TimerEvent  == [ev |-> "timer", ms |-> 0]
SetEvent(n) == [ev |-> "set", ms |-> n]
Event       == [ev : {"timer", "set"}, ms : 0 .. ClockModulus - 1]

\* process_post(): an event that finds the queue full is dropped.
process_post(q, e) == IF Len(q) < NumEvents THEN Append(q, e) ELSE q

\* mpc_schedule_contiki(): the rest of the handler is uic_main_loop_run().
mpc_schedule_contiki == mode' = "contiki"

-----------------------------------------------------------------------------
(* mpc_nw_monitor.cpp: looking nodes up *)

MpcEntry(f) == <<f, Mpc>>

\* Mutant: the scan for an existing entry skips offline nodes.
Owners_SkipsOffline(e) == {h \in live : /\ attrs[h].list = "reported" /\ e \in attrs[h].entries
                                        /\ attrs[h].status # "offline"}

\* The nodes whose reported NETWORK_LIST has e as one of its items.
Owners(e) == {h \in live : attrs[h].list = "reported" /\ e \in attrs[h].entries}

\* OnNodeDiscovered reads every list up to the owner's: the nodes whose list
\* has no reported value there, which makes reported<string>() throw.
Unreadable(e) == {h \in live : /\ attrs[h].list = "undefined"
                               /\ \A o \in Owners(e) : h < o}

\* Mutant: the status is found from any attribute of the node.
needs_update_AnyKind(h, kind) == attrs[h].status \notin {"functional", "nonfunctional"}

\* needs_update(): status is a child of the UNID node, not of its NETWORK_LIST.
needs_update(h, kind) == /\ kind = "unid"
                         /\ attrs[h].status \notin {"functional", "nonfunctional"}

\* Mutant: only the fabric part of the entry is compared.
TextMatch_FabricOnly(at, h, f) == /\ at[h].list = "reported"
                                  /\ \E id \in NodeIds : <<f, id>> \in at[h].entries

\* find(): does the text of node h's list contain the text of MpcEntry(f)?
TextMatch(at, h, f) == /\ at[h].list = "reported"
                       /\ \E id \in MpcLike : <<f, id>> \in at[h].entries

\* The node find_mpc_and_update_networklist takes for the MPC: the only one,
\* or the last match of the first fabric that has one.
MpcNodes(lv, at, fabs) ==
  LET matching(f) == {h \in lv : TextMatch(at, h, f)}
      hits        == {f \in fabs : matching(f) # {}}
  IN  IF Cardinality(lv) = 1 THEN lv
      ELSE IF hits = {} THEN {} ELSE {Max(matching(Min(hits)))}

\* find_mpc_and_update_networklist(removeIndex), fabs being the fabric table.
find_mpc_and_update_networklist(lv, at, fabs, removed) ==
  LET items == {MpcEntry(f) : f \in fabs \ removed}
      update(n) == CASE items # {} ->
                          [n EXCEPT !.list = "reported", !.entries = items,
                                    !.status = "functional"]
                     [] items = {} /\ n.list # "absent" ->
                          [n EXCEPT !.list = "undefined", !.entries = {},
                                    !.status = "nonfunctional"]
                     [] OTHER -> n
  IN  [h \in Handle |-> IF h \in MpcNodes(lv, at, fabs) THEN update(at[h]) ELSE at[h]]

-----------------------------------------------------------------------------
(* OnNodeDiscovered *)

\* Mutant: the timer event is posted when the timer runs, not when it does not.
mpc_queue_TimerTestNegated(h) ==
  /\ pending' = Append(pending, [node |-> h, after |-> Delay])
  /\ queue' = IF timer # Off THEN process_post(queue, SetEvent(Delay)) ELSE queue

\* mpc_queue_node_for_interview()
mpc_queue_node_for_interview(h) ==
  /\ pending' = Append(pending, [node |-> h, after |-> Delay])
  /\ queue' = IF pending = <<>> \/ timer = Off
              THEN process_post(queue, SetEvent(Delay)) ELSE queue

\* Lines that follow once the record of node h is known: an MPC record gets its
\* endpoint at once, any other node waits for its interview.
DiscoveredNode(n, e) ==
  [n EXCEPT !.list = "reported", !.entries = {e},
            !.status = IF e[2] = Mpc THEN "functional" ELSE "interviewing",
            !.ep0    = IF e[2] = Mpc /\ n.ep0 = "none" THEN "bare" ELSE n.ep0]

\* A peer of one of the MPC's fabrics is seen for the first time.  A peer some
\* node already lists is skipped: needs_update is asked about the NETWORK_LIST
\* attribute.  The scan must read every list it passes (invariant ListsReadable).
AddNode(e) ==
  /\ mode = "matter" /\ discovering /\ e[1] \in fabrics
  /\ Unreadable(e) = {}
  /\ Owners(e) = {} \/ \A o \in Owners(e) : needs_update(o, "network_list")
  /\ lastHandle < MaxHandle
  /\ LET h == IF Owners(e) = {} THEN lastHandle + 1 ELSE Min(Owners(e))
     IN  /\ live' = live \cup {h}
         /\ lastHandle' = IF h > lastHandle THEN h ELSE lastHandle
         /\ attrs' = [attrs EXCEPT ![h] = DiscoveredNode(attrs[h], e)]
         /\ IF e[2] = Mpc THEN UNCHANGED <<pending, queue>>
                          ELSE mpc_queue_node_for_interview(h)
  /\ mpc_schedule_contiki
  /\ UNCHANGED <<netVars, timer>>

\* mpc_node_removal_handle(unid)
mpc_node_removal_handle(h) ==
  LET at == {i \in 1 .. Len(pending) : pending[i].node = h}
      queued == at # {}
  IN  /\ pending' = IF queued THEN RemoveAt(pending, Min(at)) ELSE pending
      /\ queue' = IF queued /\ Min(at) = 1 /\ Len(pending) > 1
                  THEN process_post(queue, SetEvent(pending[2].after)) ELSE queue
      /\ IF queued /\ attrs[h].status # "interviewing"
         THEN UNCHANGED <<live, attrs>>
         ELSE /\ live' = live \ {h}
              /\ attrs' = Deleted(attrs, {h})

\* A goodbye (zero TTL) from a peer: an offline node is kept, any other removed.
\* This path returns without running the Contiki loop.
Goodbye(e) ==
  /\ mode = "matter" /\ discovering /\ e[1] \in fabrics /\ e[2] \in GoodbyeIds
  /\ Unreadable(e) = {}
  /\ \E h \in Owners(e) :
       /\ h = Min(Owners(e))
       /\ attrs[h].status # "offline"
       /\ mpc_node_removal_handle(h)
  /\ UNCHANGED <<lastHandle, netVars, timer, mode>>

-----------------------------------------------------------------------------
(* Fabric table and start-up *)

\* Mutant: the list is rebuilt before the table has the new fabric.
OnFabricUpdated_OldTable(f) ==
  /\ mode = "matter"
  /\ joined \/ f = Min(FabricIndexes)
  /\ joined' = TRUE
  /\ fabrics' = fabrics \cup {f}
  /\ attrs' = find_mpc_and_update_networklist(live, attrs, fabrics, {})
  /\ UNCHANGED <<live, lastHandle, discovering, pending, timer, queue, mode>>

\* FabricTable adds or updates fabric f: MPCFabricDelegate::OnFabricUpdated.
OnFabricUpdated(f) ==
  /\ mode = "matter"
  /\ joined \/ f = Min(FabricIndexes)   \* the table hands out its lowest index first
  /\ joined' = TRUE
  /\ fabrics' = fabrics \cup {f}
  /\ attrs' = find_mpc_and_update_networklist(live, attrs, fabrics \cup {f}, {})
  /\ UNCHANGED <<live, lastHandle, discovering, pending, timer, queue, mode>>

\* EventHandler, kCommissioningComplete.
CommissioningComplete ==
  /\ mode = "matter" /\ fabrics # {} /\ ~discovering
  /\ discovering' = TRUE
  /\ UNCHANGED <<storeVars, fabrics, joined, pending, timer, queue, mode>>

\* Mutant: offline nodes are left in the store.
FabricWillBeRemoved_KeepsOffline(f) ==
  LET at   == find_mpc_and_update_networklist(live, attrs, fabrics, {f})
      gone == {h \in live : at[h].list = "reported" /\ at[h].status # "offline"}
  IN  /\ mode = "matter" /\ f \in fabrics
      /\ live' = live \ gone
      /\ attrs' = Deleted(at, gone)
      /\ fabrics' = fabrics \ {f}
      /\ UNCHANGED <<lastHandle, joined, discovering, pending, timer, queue, mode>>

\* FabricTable deletes fabric f: MPCFabricDelegate::FabricWillBeRemoved first
\* updates the MPC's list, then deletes every node with a reported list.
FabricWillBeRemoved(f) ==
  LET at   == find_mpc_and_update_networklist(live, attrs, fabrics, {f})
      gone == {h \in live : at[h].list = "reported"}
  IN  /\ mode = "matter" /\ f \in fabrics
      /\ live' = live \ gone
      /\ attrs' = Deleted(at, gone)
      /\ fabrics' = fabrics \ {f}
      /\ UNCHANGED <<lastHandle, joined, discovering, pending, timer, queue, mode>>

\* mpc_populate_attribute_store() into an empty store: the MPC's own node.
mpc_populate_attribute_store ==
  LET at == [Deleted(attrs, Handle) EXCEPT ![1].ep0 = "bare"]
  IN  /\ live' = {1} /\ lastHandle' = 1
      /\ attrs' = find_mpc_and_update_networklist({1}, at, fabrics, {})

\* The process ends or crashes and mpc_nw_monitor_init() runs again over the
\* attribute store and the fabric table, both persistent.  No handle survives in
\* memory, so numbering may resume from the largest one in the store.  Every node
\* that was already there gets a resolution listener.
mpc_nw_monitor_init ==
  /\ IF live = {} \/ fabrics = {}
     THEN mpc_populate_attribute_store
     ELSE /\ lastHandle' = Max(live)
          /\ attrs' = [h \in Handle |-> [attrs[h] EXCEPT !.listener = (h \in live)]]
          /\ UNCHANGED live
  /\ discovering' = (fabrics # {})
  /\ pending' = <<>> /\ queue' = <<>> /\ timer' = Off
  /\ mode' = "matter"
  /\ UNCHANGED <<fabrics, joined>>

-----------------------------------------------------------------------------
(* The Contiki process mpc_nw_mon_process *)

\* The run_unify thread has scheduled call_unify_event_queue on the Matter thread.
call_unify_event_queue ==
  /\ mode = "matter"
  /\ mode' = "contiki"
  /\ UNCHANGED <<storeVars, netVars, pending, timer, queue>>

\* The etimer process finds the interval over and posts to the owner.
TimerExpires ==
  /\ mode = "contiki" /\ timer = 0 /\ Len(queue) < NumEvents
  /\ queue' = Append(queue, TimerEvent)
  /\ timer' = Off
  /\ UNCHANGED <<storeVars, netVars, pending, mode>>

\* MPC_INTERVIEW_TIMER_SET_EVENT: etimer_set().
TimerSet ==
  /\ mode = "contiki" /\ queue # <<>> /\ Head(queue).ev = "set"
  /\ timer' = Head(queue).ms
  /\ queue' = Tail(queue)
  /\ UNCHANGED <<storeVars, netVars, pending, mode>>

\* Mutant: the MPC and one device do not suffice.
mpc_on_ep_change_cb_OffByOne(h) ==
  /\ Cardinality(live) > 2
  /\ 1 \in fabrics
  /\ attrs[h].list = "reported"
  /\ \A e \in attrs[h].entries : e[2] # Mpc

\* mpc_on_ep_change_cb(): does a new endpoint of node h get the descriptor lists?
mpc_on_ep_change_cb(h) ==
  /\ Cardinality(live) > 1
  /\ 1 \in fabrics
  /\ attrs[h].list = "reported"
  /\ \A e \in attrs[h].entries : e[2] # Mpc

\* Mutant: the interval is computed in a signed type.
NextTrigger_Signed(entry) == IF entry.after > 0 THEN 0 - entry.after ELSE 0

\* The interval to the next interview, in clock_time_t: clock_time() - interviewAfter.
NextTrigger(entry) ==
  IF entry.after > 0 THEN (0 - entry.after) % ClockModulus ELSE 0

\* Mutant: the entry stays in the list when its interview starts.
mpc_start_next_NoErase ==
  /\ mode = "contiki" /\ queue # <<>> /\ Head(queue).ev = "timer"
  /\ IF pending = <<>> THEN queue' = Tail(queue)
     ELSE queue' = process_post(Tail(queue), SetEvent(NextTrigger(pending[1])))
  /\ UNCHANGED <<storeVars, netVars, pending, timer, mode>>

\* mpc_start_next_pending_interview()
mpc_start_next_pending_interview ==
  /\ mode = "contiki" /\ queue # <<>> /\ Head(queue).ev = "timer"
  /\ \/ /\ pending = <<>>
        /\ queue' = Tail(queue)
        /\ UNCHANGED <<attrs, pending, mode>>
     \/ /\ pending # <<>> /\ Head(pending).node \in live
        /\ LET h == Head(pending).node
           IN  attrs' = [attrs EXCEPT
                 ![h].listener = TRUE,
                 ![h].ep0 = IF @ # "none" THEN @
                            ELSE IF mpc_on_ep_change_cb(h) THEN "descriptor" ELSE "bare"]
        /\ pending' = Tail(pending)
        /\ queue' = IF Len(pending) > 1
                    THEN process_post(Tail(queue), SetEvent(NextTrigger(pending[2])))
                    ELSE Tail(queue)
        /\ UNCHANGED mode
     \/ /\ pending # <<>> /\ Head(pending).node \notin live
        /\ mode' = "aborted"     \* emplace_node() on a deleted node throws
        /\ UNCHANGED <<attrs, pending, queue>>
  /\ UNCHANGED <<live, lastHandle, netVars, timer>>

\* uic_main_loop_run() returns when there is nothing left to do.
MainLoopReturns ==
  /\ mode = "contiki" /\ queue = <<>> /\ timer # 0
  /\ mode' = "matter"
  /\ UNCHANGED <<storeVars, netVars, pending, timer, queue>>

\* Time passes.  An interval beyond Horizon is not over while the process lives.
Tick ==
  /\ mode # "aborted"
  /\ pending' = [i \in 1 .. Len(pending) |->
                   [pending[i] EXCEPT !.after = IF @ > 0 THEN @ - 1 ELSE 0]]
  /\ timer' = IF timer \in 1 .. Horizon THEN timer - 1 ELSE timer
  /\ UNCHANGED <<storeVars, netVars, queue, mode>>

-----------------------------------------------------------------------------
(* What the other components do to a node's status *)

SetStatus(h, st, pv) ==
  /\ attrs' = [attrs EXCEPT ![h].status = st, ![h].prev = pv]
  /\ UNCHANGED <<live, lastHandle, netVars, pending, timer, queue, mode>>

\* mpc_attribute_resolver_check_app_cluster_resolution() over the endpoints of h: an
\* endpoint without a server list counts as resolved, no endpoint as unresolved.
CompletionStatus(h) ==
  CASE attrs[h].ep0 = "none"       -> {"nonfunctional"}
    [] attrs[h].ep0 = "bare"       -> {"functional"}
    [] attrs[h].ep0 = "descriptor" -> {"functional", "nonfunctional"}

\* mpc_attribute_resolver_resolution_completion(): the resolver, which may call it
\* whenever it has a listener, has nothing left to do for h.
ResolutionCompletion(h) ==
  /\ mode = "contiki" /\ attrs[h].listener /\ attrs[h].status # "offline"
  /\ \E st \in CompletionStatus(h) : SetStatus(h, st, attrs[h].prev)

\* mpc_attribute_store_get_unid_from_matter_peer_nodeid(): the node that lists peer id
\* in fabric index 1, as the answer to a command or a write finds it, however old the
\* request is.  A list without a value on the way throws.
PeerNode(id) ==
  LET e == <<1, id>>
  IN  IF 1 \in fabrics /\ Unreadable(e) = {} /\ Owners(e) # {} THEN {Min(Owners(e))} ELSE {}

\* A request may be answered, or fail, for h: a read or a subscription, which know the
\* node, or a command or a write, which know the peer.
Reached(h) == attrs[h].ep0 = "descriptor" \/ \E id \in NodeIds : h \in PeerNode(id)

\* mpc_mark_device_as_failing(): a request to h has failed.
MarkFailing(h) ==
  /\ mode # "aborted" /\ Reached(h)
  /\ SetStatus(h, "offline", attrs[h].status)

\* mpc_failing_node_recovery(): h has answered.
Recovery(h) ==
  /\ mode # "aborted" /\ Reached(h) /\ attrs[h].status = "offline" /\ attrs[h].prev # "none"
  /\ SetStatus(h, attrs[h].prev, "none")

-----------------------------------------------------------------------------
\* First start: mpc_nw_monitor_init() over an empty store and no fabric.
Init ==
  /\ live = {1} /\ lastHandle = 1
  /\ attrs = [h \in Handle |-> IF h = 1 THEN [NewNode EXCEPT !.ep0 = "bare"] ELSE NewNode]
  /\ fabrics = {} /\ joined = FALSE /\ discovering = FALSE
  /\ pending = <<>> /\ timer = Off /\ queue = <<>>
  /\ mode = "matter"

ContikiStep ==
  \/ TimerExpires \/ TimerSet \/ mpc_start_next_pending_interview \/ MainLoopReturns

Next ==
  \/ \E e \in Entry : AddNode(e) \/ Goodbye(e)
  \/ \E f \in FabricIndexes : OnFabricUpdated(f) \/ FabricWillBeRemoved(f)
  \/ CommissioningComplete
  \/ mpc_nw_monitor_init
  \/ call_unify_event_queue
  \/ ContikiStep
  \/ Tick
  \/ \E h \in live : ResolutionCompletion(h) \/ MarkFailing(h) \/ Recovery(h)

Spec == Init /\ [][Next]_vars

\* The unify thread keeps scheduling the Contiki loop, the loop serves its events,
\* time goes on, and the service manager restarts a process that has aborted.
FairSpec ==
  /\ Spec
  /\ WF_vars(call_unify_event_queue) /\ WF_vars(ContikiStep) /\ WF_vars(Tick)
  /\ WF_vars(mode = "aborted" /\ mpc_nw_monitor_init)

-----------------------------------------------------------------------------
(* Properties *)

PendingEntry == [node : Handle, after : 0 .. Delay]

\* The type invariant: what the store, pending_interviews, the timer and the event
\* queue hold, in particular an interval that fits the unsigned clock_time_t.
TypeOK ==
  /\ live \subseteq Handle
  /\ attrs \in [Handle -> Node]
  /\ lastHandle \in Handle /\ \A h \in live : h <= lastHandle
  /\ fabrics \subseteq FabricIndexes
  /\ joined \in BOOLEAN /\ discovering \in BOOLEAN
  /\ pending \in Seq(PendingEntry)
  /\ timer \in -1 .. ClockModulus - 1
  /\ queue \in Seq(Event)
  /\ mode \in {"matter", "contiki", "aborted"}

\* While a node waits for its interview something will wake the process: the
\* timer runs or an event is queued (the guard of mpc_queue_node_for_interview
\* and the posts of the two operations that take entries out).
NoLostWakeup == pending # <<>> => timer # Off \/ queue # <<>>

\* OnNodeDiscovered meets no list without a reported value while it has a fabric,
\* so its catch-all, which deletes the node at hand, is never entered for one.
ListsReadable == fabrics # {} => \A h \in live : attrs[h].list = "reported"

\* No two store nodes claim the same peer.
OneNodePerPeer ==
  \A h, k \in live : attrs[h].entries \cap attrs[k].entries # {} => h = k

\* A node that waits for its interview is not published as interviewed, nor will a
\* recovery publish it so.  Late answers to commands may take it offline and back, a
\* fabric update may search its list, a completion may run for another node.
PendingUnpublished ==
  \A i \in 1 .. Len(pending) :
    LET n == attrs[pending[i].node]
    IN  pending[i].node \in live => /\ {n.status, n.prev} \subseteq {"interviewing", "offline", "none"}
                                    /\ n.ep0 = "none"

\* Out of every fabric, the MPC's own node is all that is left, without a list and
\* back in Online Non-functional (doc/readme_overview.md, decommission), which only
\* a later completion of the resolver may change.
DecommissionedIsReset ==
  fabrics = {} => \A h \in live : /\ live = {h}
                                  /\ attrs[h].list # "reported"
                                  /\ attrs[h].status # "nonfunctional" => attrs[h].listener

\* An interview that starts for a node puts its descriptor lists up for reading: when
\* the timer fires the MPC's own node is still there beside it, the MPC is still in
\* fabric index 1, and the node's list is still its own (mpc_on_ep_change_cb).
InterviewReadsDescriptor ==
  \A h \in live : (\E e \in attrs[h].entries : e[2] # Mpc) => attrs[h].ep0 # "bare"

\* Every node that waits for its interview gets it, or leaves the queue otherwise.
Waits(h) == \E i \in 1 .. Len(pending) : pending[i].node = h
EveryPendingServed == \A h \in Handle : Waits(h) ~> ~Waits(h)

\* Whoever is at the head while the wake-up is not beyond the process's life is
\* served: goodbyes, discoveries and timer restarts cannot put it off for ever.
WakeupNear == IF queue = <<>> THEN timer \in 0 .. Horizon
              ELSE \A i \in 1 .. Len(queue) : queue[i].ms <= Horizon
IsHead(h) == pending # <<>> /\ Head(pending).node = h
HeadServed == \A h \in Handle : (IsHead(h) /\ WakeupNear) ~> ~IsHead(h)

\* A change of the fabric table rewrites the MPC's own node and no device's: find_mpc
\* looks for the "networkList entry matching that of MPC".
FabricUpdateTouchesMpcOnly ==
  [][\A f \in FabricIndexes : OnFabricUpdated(f) =>
       \A h \in live : (\A e \in attrs[h].entries : e[2] # Mpc) /\ attrs[h].entries # {}
                         => attrs'[h] = attrs[h]]_vars

=============================================================================
