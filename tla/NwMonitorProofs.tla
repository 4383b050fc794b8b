-------------------------- MODULE NwMonitorProofs --------------------------
(***************************************************************************)
(* Proofs about NwMonitor, for every value of its constants.               *)
(***************************************************************************)
EXTENDS NwMonitor, FiniteSetTheorems, SequenceTheorems, WellFoundedInduction, TLAPS

(* Every non-empty set of naturals has a least element, which Min picks (the head *)
(* of pending_interviews that std::find_if returns is the first match).           *)
LEMMA MinOfNaturals ==
  ASSUME NEW S, S \subseteq Nat, S # {}
  PROVE  Min(S) \in S /\ \A y \in S : Min(S) <= y
<1> DEFINE R == OpToRel(<, Nat)
<1>1. PICK x \in S : \A y \in S : ~ (<<y, x>> \in R)
  <2> HIDE DEF R
  <2> QED BY WFMin, NatLessThanWellFounded DEF R
<1>2. ASSUME NEW y \in S PROVE x <= y
  <2>1. R = {ss \in Nat \X Nat : ss[1] < ss[2]}
    BY DEF OpToRel
  <2> HIDE DEF R
  <2>2. <<y, x>> \in Nat \X Nat
    OBVIOUS
  <2>3. ~ (y < x)
    BY <1>1, <2>1, <2>2
  <2> QED BY <2>3
<1> QED BY <1>2 DEF Min

(* A non-empty set of handles has a largest one, which Max picks. *)
LEMMA MaxOfHandles ==
  ASSUME NEW N \in Nat, NEW S, S \subseteq 1 .. N, S # {}
  PROVE  Max(S) \in S /\ \A y \in S : y <= Max(S)
<1> DEFINE T == {z \in 0 .. N : N - z \in S}
           x == N - Min(T)
<1>1. T \subseteq Nat
  OBVIOUS
<1>2. T # {}
  <2>1. PICK y \in S : y \in 1 .. N
    OBVIOUS
  <2>2. N - (N - y) = y /\ N - y \in 0 .. N
    BY <2>1
  <2> QED BY <2>1, <2>2
<1>3. Min(T) \in T /\ \A z \in T : Min(T) <= z
  <2> HIDE DEF T
  <2> QED BY <1>1, <1>2, MinOfNaturals
<1>4. x \in S
  BY <1>3
<1>5. ASSUME NEW y \in S PROVE x >= y
  <2>1. y \in 1 .. N /\ N - y \in 0 .. N /\ N - (N - y) = y
    OBVIOUS
  <2>2. N - y \in T
    BY <2>1
  <2>3. Min(T) <= N - y
    BY <1>3, <2>2
  <2>4. Min(T) \in 0 .. N
    BY <1>3
  <2> QED BY <2>1, <2>3, <2>4
<1> HIDE DEF x
<1> QED BY <1>4, <1>5 DEF Max

-----------------------------------------------------------------------------
(* Types of the building blocks *)

(* A deleted store node and a node before its first attribute are well formed. *)
LEMMA NodeTypes ==
  /\ NewNode \in Node
  /\ 1 \in Handle /\ Handle \subseteq Nat
  /\ \A at \in [Handle -> Node] : \A gone : Deleted(at, gone) \in [Handle -> Node]
<1>1. NewNode \in Node
  BY DEF NewNode, Node, ListState, Status, Endpoint0
<1>2. 1 \in Handle /\ Handle \subseteq Nat
  BY NwAssumption DEF Handle
<1> QED BY <1>1, <1>2 DEF Deleted

(* process_post keeps the queue a sequence of events, and never leaves it empty: *)
(* a full queue drops the event but is not empty.                                *)
LEMMA PostType ==
  ASSUME NEW q \in Seq(Event), NEW e \in Event
  PROVE  process_post(q, e) \in Seq(Event) /\ process_post(q, e) # <<>>
<1>1. CASE Len(q) < NumEvents
  BY <1>1, AppendProperties DEF process_post
<1>2. CASE ~ (Len(q) < NumEvents)
  <2>1. q # <<>>
    BY <1>2, NwAssumption
  <2> QED BY <1>2, <2>1 DEF process_post
<1> QED BY <1>1, <1>2

(* The intervals the code posts fit clock_time_t, the wrapped one included. *)
LEMMA EventTypes ==
  /\ TimerEvent \in Event
  /\ \A n \in 0 .. Delay : SetEvent(n) \in Event
  /\ \A p \in PendingEntry : SetEvent(NextTrigger(p)) \in Event
<1>1. ASSUME NEW p \in PendingEntry PROVE NextTrigger(p) \in 0 .. ClockModulus - 1
  <2>1. p.after \in 0 .. Delay
    BY DEF PendingEntry
  <2>2. ClockModulus \in Nat /\ ClockModulus > 0 /\ Delay < ClockModulus
    BY NwAssumption
  <2>3. CASE p.after > 0
    <3>1. (0 - p.after) % ClockModulus \in 0 .. ClockModulus - 1
      BY <2>1, <2>2
    <3> QED BY <3>1, <2>3 DEF NextTrigger
  <2>4. CASE ~ (p.after > 0)
    BY <2>2, <2>4 DEF NextTrigger
  <2> QED BY <2>3, <2>4
<1>2. 0 \in 0 .. ClockModulus - 1 /\ 0 .. Delay \subseteq 0 .. ClockModulus - 1
  BY NwAssumption
<1> QED BY <1>1, <1>2 DEF TimerEvent, SetEvent, Event

(* find_mpc_and_update_networklist writes well-formed lists and statuses. *)
LEMMA FindMpcType ==
  ASSUME NEW lv, NEW at \in [Handle -> Node], NEW fabs \in SUBSET FabricIndexes, NEW removed
  PROVE  find_mpc_and_update_networklist(lv, at, fabs, removed) \in [Handle -> Node]
<1> DEFINE items == {MpcEntry(f) : f \in fabs \ removed}
<1>1. items \in SUBSET Entry
  BY NwAssumption DEF MpcEntry, Entry
<1> HIDE DEF items
<1>2. ASSUME NEW n \in Node
      PROVE  /\ [n EXCEPT !.list = "reported", !.entries = items, !.status = "functional"] \in Node
             /\ [n EXCEPT !.list = "undefined", !.entries = {}, !.status = "nonfunctional"] \in Node
  BY <1>1 DEF Node, ListState, Status
<1> QED BY <1>2 DEF find_mpc_and_update_networklist, items

(* Taking one entry out of pending_interviews leaves a list of entries. *)
LEMMA RemovalType ==
  ASSUME TypeOK, NEW h \in live, mpc_node_removal_handle(h)
  PROVE  /\ pending' \in Seq(PendingEntry) /\ queue' \in Seq(Event)
         /\ live' \subseteq live /\ attrs' \in [Handle -> Node]
         /\ queue # <<>> => queue' # <<>>
         /\ pending' # <<>> => pending # <<>>
<1> DEFINE at == {i \in 1 .. Len(pending) : pending[i].node = h}
<1>1. at # {} => Min(at) \in 1 .. Len(pending)
  <2>1. at \subseteq Nat
    OBVIOUS
  <2>2. at # {} => Min(at) \in at
    <3> HIDE DEF at
    <3> QED BY <2>1, MinOfNaturals
  <2> QED BY <2>2
<1>2. /\ pending' = IF at # {} THEN RemoveAt(pending, Min(at)) ELSE pending
      /\ queue' = IF at # {} /\ Min(at) = 1 /\ Len(pending) > 1
                  THEN process_post(queue, SetEvent(pending[2].after)) ELSE queue
      /\ \/ UNCHANGED <<live, attrs>>
         \/ live' = live \ {h} /\ attrs' = Deleted(attrs, {h})
  BY DEF mpc_node_removal_handle
<1> HIDE DEF at
<1>3. pending' \in Seq(PendingEntry)
  <2>1. CASE at # {}
    <3>1. /\ SubSeq(pending, 1, Min(at) - 1) \in Seq(PendingEntry)
          /\ SubSeq(pending, Min(at) + 1, Len(pending)) \in Seq(PendingEntry)
      BY <1>1, <2>1, SubSeqProperties DEF TypeOK
    <3> QED BY <1>2, <2>1, <3>1 DEF RemoveAt
  <2> QED BY <1>2, <2>1 DEF TypeOK
<1>4. queue' \in Seq(Event) /\ (queue # <<>> => queue' # <<>>)
  <2>1. CASE Len(pending) > 1
    <3>1. pending[2] \in PendingEntry
      BY <2>1, ElementOfSeq DEF TypeOK
    <3>2. SetEvent(pending[2].after) \in Event
      BY <3>1, EventTypes DEF PendingEntry
    <3> QED BY <1>2, <3>2, PostType DEF TypeOK
  <2> QED BY <1>2, <2>1 DEF TypeOK
<1>5. live' \subseteq live /\ attrs' \in [Handle -> Node]
  BY <1>2, NodeTypes DEF TypeOK
<1>6. pending' # <<>> => pending # <<>>
  <2>1. CASE pending = <<>>
    <3>1. at = {}
      BY <2>1 DEF at
    <3> QED BY <1>2, <2>1, <3>1
  <2> QED BY <2>1
<1> QED BY <1>3, <1>4, <1>5, <1>6

(* The handlers of mpc_nw_monitor.cpp keep the state well typed: what each one *)
(* writes to the store, the interview list, the timer and the event queue.     *)
THEOREM TypeCorrect == Spec => []TypeOK
<1>1. Init => TypeOK
  <2> SUFFICES ASSUME Init PROVE TypeOK
    OBVIOUS
  <2>1. attrs \in [Handle -> Node]
    <3>1. [NewNode EXCEPT !.ep0 = "bare"] \in Node
      BY NodeTypes DEF Node, Endpoint0
    <3> QED BY <3>1, NodeTypes DEF Init
  <2>2. pending \in Seq(PendingEntry) /\ queue \in Seq(Event)
    BY DEF Init
  <2>3. timer \in -1 .. ClockModulus - 1
    BY NwAssumption DEF Init, Off
  <2>4. live \subseteq Handle /\ lastHandle \in Handle /\ \A h \in live : h <= lastHandle
    BY NodeTypes DEF Init
  <2>5. fabrics \subseteq FabricIndexes /\ joined \in BOOLEAN /\ discovering \in BOOLEAN
    BY DEF Init
  <2> QED BY <2>1, <2>2, <2>3, <2>4, <2>5 DEF Init, TypeOK
<1>2. TypeOK /\ [Next]_vars => TypeOK'
  <2> SUFFICES ASSUME TypeOK, [Next]_vars PROVE TypeOK'
    OBVIOUS
  <2> USE DEF storeVars, netVars
  <2>1. ASSUME NEW e \in Entry, AddNode(e) PROVE TypeOK'
    <3> DEFINE h == lastHandle + 1
    <3>1. Owners(e) = {}
      BY <2>1 DEF AddNode, needs_update
    <3>2. h \in Handle /\ lastHandle < h
      BY <2>1, NwAssumption DEF AddNode, TypeOK, Handle
    <3>3. /\ live' = live \cup {h} /\ lastHandle' = h
          /\ attrs' = [attrs EXCEPT ![h] = DiscoveredNode(attrs[h], e)]
          /\ IF e[2] = Mpc THEN UNCHANGED <<pending, queue>> ELSE mpc_queue_node_for_interview(h)
      BY <2>1, <3>1, <3>2 DEF AddNode
    <3>4. DiscoveredNode(attrs[h], e) \in Node
      BY <3>2 DEF TypeOK, DiscoveredNode, Node, ListState, Status, Endpoint0
    <3>5. pending' \in Seq(PendingEntry) /\ queue' \in Seq(Event)
      <4>1. [node |-> h, after |-> Delay] \in PendingEntry /\ SetEvent(Delay) \in Event
        BY <3>2, EventTypes, NwAssumption DEF PendingEntry
      <4>2. CASE e[2] = Mpc
        BY <3>3, <4>2 DEF TypeOK
      <4>3. CASE e[2] # Mpc
        <5>1. /\ pending' = Append(pending, [node |-> h, after |-> Delay])
              /\ queue' \in {process_post(queue, SetEvent(Delay)), queue}
          BY <3>3, <4>3 DEF mpc_queue_node_for_interview
        <5> HIDE DEF h
        <5>2. process_post(queue, SetEvent(Delay)) \in Seq(Event)
          BY <4>1, PostType DEF TypeOK
        <5>3. pending' \in Seq(PendingEntry)
          BY <4>1, <5>1, AppendProperties DEF TypeOK
        <5> QED BY <5>1, <5>2, <5>3 DEF TypeOK
      <4> QED BY <4>2, <4>3
    <3>6. \A k \in live' : k <= lastHandle'
      BY <3>2, <3>3 DEF TypeOK, Handle
    <3> HIDE DEF h
    <3> QED BY <2>1, <3>2, <3>3, <3>4, <3>5, <3>6 DEF AddNode, mpc_schedule_contiki, TypeOK
  <2>2. ASSUME NEW e \in Entry, Goodbye(e) PROVE TypeOK'
    <3>1. PICK h \in Owners(e) : mpc_node_removal_handle(h)
      BY <2>2 DEF Goodbye
    <3>2. h \in live
      BY DEF Owners
    <3> QED BY <2>2, <3>1, <3>2, RemovalType DEF Goodbye, TypeOK
  <2>3. ASSUME NEW f \in FabricIndexes, OnFabricUpdated(f) PROVE TypeOK'
    BY <2>3, FindMpcType DEF OnFabricUpdated, TypeOK
  <2>4. ASSUME NEW f \in FabricIndexes, FabricWillBeRemoved(f) PROVE TypeOK'
    <3> DEFINE at == find_mpc_and_update_networklist(live, attrs, fabrics, {f})
    <3>1. at \in [Handle -> Node]
      BY FindMpcType DEF TypeOK
    <3> HIDE DEF at
    <3>2. attrs' \in [Handle -> Node] /\ live' \subseteq live
      BY <2>4, <3>1, NodeTypes DEF FabricWillBeRemoved, at
    <3> QED BY <2>4, <3>2 DEF FabricWillBeRemoved, TypeOK
  <2>5. CASE CommissioningComplete
    BY <2>5 DEF CommissioningComplete, TypeOK
  <2>6. CASE mpc_nw_monitor_init
    <3>1. live' \subseteq Handle /\ attrs' \in [Handle -> Node] /\ lastHandle' \in Handle
          /\ \A k \in live' : k <= lastHandle'
      <4>1. CASE live = {} \/ fabrics = {}
        <5> DEFINE at == [Deleted(attrs, Handle) EXCEPT ![1].ep0 = "bare"]
        <5>1. at \in [Handle -> Node]
          <6>1. Deleted(attrs, Handle) \in [Handle -> Node]
            BY NodeTypes DEF TypeOK
          <6>2. \A n \in Node : [n EXCEPT !.ep0 = "bare"] \in Node
            BY DEF Node, Endpoint0
          <6> QED BY <6>1, <6>2, NodeTypes
        <5> HIDE DEF at
        <5>2. find_mpc_and_update_networklist({1}, at, fabrics, {}) \in [Handle -> Node]
          BY <5>1, FindMpcType DEF TypeOK
        <5>3. /\ live' = {1} /\ lastHandle' = 1
              /\ attrs' = find_mpc_and_update_networklist({1}, at, fabrics, {})
          BY <2>6, <4>1 DEF mpc_nw_monitor_init, mpc_populate_attribute_store, at
        <5> QED BY <5>2, <5>3, NodeTypes
      <4>2. CASE ~ (live = {} \/ fabrics = {})
        <5>1. /\ lastHandle' = Max(live) /\ UNCHANGED live
              /\ attrs' = [h \in Handle |-> [attrs[h] EXCEPT !.listener = (h \in live)]]
          BY <2>6, <4>2 DEF mpc_nw_monitor_init
        <5>3. attrs' \in [Handle -> Node]
          <6>1. \A n \in Node : \A b \in BOOLEAN : [n EXCEPT !.listener = b] \in Node
            BY DEF Node
          <6>2. \A h \in Handle : attrs[h] \in Node /\ (h \in live) \in BOOLEAN
            BY DEF TypeOK
          <6> QED BY <5>1, <6>1, <6>2
        <5>2. Max(live) \in live /\ \A y \in live : y <= Max(live)
          BY <4>2, MaxOfHandles, NwAssumption DEF TypeOK, Handle
        <5> QED BY <5>1, <5>2, <5>3 DEF TypeOK
      <4> QED BY <4>1, <4>2
    <3>2. pending' \in Seq(PendingEntry) /\ queue' \in Seq(Event) /\ timer' \in -1 .. ClockModulus - 1
      BY <2>6, NwAssumption DEF mpc_nw_monitor_init, Off
    <3> QED BY <2>6, <3>1, <3>2 DEF mpc_nw_monitor_init, TypeOK
  <2>7. CASE call_unify_event_queue
    BY <2>7 DEF call_unify_event_queue, TypeOK
  <2>8. CASE ContikiStep
    <3>1. CASE TimerExpires
      BY <3>1, EventTypes, AppendProperties, NwAssumption DEF TimerExpires, TypeOK, Off
    <3>2. CASE TimerSet
      <4>1. Head(queue) \in Event /\ Tail(queue) \in Seq(Event)
        BY <3>2, HeadTailProperties DEF TimerSet, TypeOK
      <4>2. Head(queue).ms \in -1 .. ClockModulus - 1
        BY <4>1, NwAssumption DEF Event
      <4> QED BY <3>2, <4>1, <4>2 DEF TimerSet, TypeOK
    <3>3. CASE mpc_start_next_pending_interview
      <4>1. Tail(queue) \in Seq(Event)
        BY <3>3, HeadTailProperties DEF mpc_start_next_pending_interview, TypeOK
      <4>2. CASE pending = <<>>
        BY <3>3, <4>1, <4>2 DEF mpc_start_next_pending_interview, TypeOK
      <4>3. CASE pending # <<>> /\ Head(pending).node \in live
        <5> DEFINE h == Head(pending).node
        <5>1. Tail(pending) \in Seq(PendingEntry)
          BY <4>3, HeadTailProperties DEF TypeOK
        <5>2. queue' \in Seq(Event)
          <6>1. CASE Len(pending) > 1
            <7>1. pending[2] \in PendingEntry
              BY <6>1, ElementOfSeq DEF TypeOK
            <7>2. queue' = process_post(Tail(queue), SetEvent(NextTrigger(pending[2])))
              BY <3>3, <4>3, <6>1 DEF mpc_start_next_pending_interview
            <7> QED BY <4>1, <7>1, <7>2, EventTypes, PostType
          <6> QED BY <3>3, <4>1, <4>3, <6>1 DEF mpc_start_next_pending_interview
        <5>3. attrs' \in [Handle -> Node]
          <6>1. PICK v \in Endpoint0 :
                  attrs' = [attrs EXCEPT ![h].listener = TRUE, ![h].ep0 = v]
            <7>1. attrs[h].ep0 \in Endpoint0
              BY <4>3 DEF TypeOK, Node
            <7> QED BY <3>3, <4>3, <7>1 DEF mpc_start_next_pending_interview, Endpoint0
          <6>2. \A n \in Node : [[n EXCEPT !.listener = TRUE] EXCEPT !.ep0 = v] \in Node
            BY DEF Node
          <6> QED BY <6>1, <6>2, <4>3 DEF TypeOK
        <5> QED BY <3>3, <4>3, <5>1, <5>2, <5>3 DEF mpc_start_next_pending_interview, TypeOK
      <4>4. CASE pending # <<>> /\ Head(pending).node \notin live
        BY <3>3, <4>4 DEF mpc_start_next_pending_interview, TypeOK
      <4> QED BY <4>2, <4>3, <4>4
    <3>4. CASE MainLoopReturns
      BY <3>4 DEF MainLoopReturns, TypeOK
    <3> QED BY <2>8, <3>1, <3>2, <3>3, <3>4 DEF ContikiStep
  <2>9. CASE Tick
    <3>1. pending' \in Seq(PendingEntry)
      <4>1. \A i \in 1 .. Len(pending) : pending[i] \in PendingEntry
        BY ElementOfSeq DEF TypeOK
      <4>2. \A p \in PendingEntry :
              [p EXCEPT !.after = IF @ > 0 THEN @ - 1 ELSE 0] \in PendingEntry
        BY NwAssumption DEF PendingEntry
      <4>3. Len(pending) \in Nat
        BY LenProperties DEF TypeOK
      <4> QED BY <2>9, <4>1, <4>2, <4>3, IsASeq DEF Tick
    <3>2. timer' \in -1 .. ClockModulus - 1
      BY <2>9, NwAssumption DEF Tick, TypeOK
    <3> QED BY <2>9, <3>1, <3>2 DEF Tick, TypeOK
  <2>10. ASSUME NEW h \in live, ResolutionCompletion(h) \/ MarkFailing(h) \/ Recovery(h)
         PROVE  TypeOK'
    <3>0. attrs[h] \in Node
      BY DEF TypeOK
    <3>1. PICK st \in Status, pv \in Status \cup {"none"} : SetStatus(h, st, pv)
      <4>1. CompletionStatus(h) \subseteq Status
        BY <3>0 DEF CompletionStatus, Status, Node, Endpoint0
      <4> QED BY <2>10, <3>0, <4>1 DEF ResolutionCompletion, MarkFailing, Recovery, Status, Node
    <3>2. \A n \in Node : [[n EXCEPT !.status = st] EXCEPT !.prev = pv] \in Node
      BY DEF Node
    <3>3. attrs' \in [Handle -> Node]
      BY <3>1, <3>2, <3>0 DEF SetStatus, TypeOK
    <3>4. UNCHANGED <<live, lastHandle, netVars, pending, timer, queue>> /\ mode' = mode
      BY <3>1 DEF SetStatus
    <3> QED BY <3>3, <3>4 DEF TypeOK
  <2>11. CASE UNCHANGED vars
    BY <2>11 DEF vars, TypeOK
  <2> QED BY <2>1, <2>2, <2>3, <2>4, <2>5, <2>6, <2>7, <2>8, <2>9, <2>10, <2>11 DEF Next
<1> QED BY <1>1, <1>2, PTL DEF Spec

-----------------------------------------------------------------------------
(* Wake-ups *)

(* mpc_queue_node_for_interview, mpc_node_removal_handle and                     *)
(* mpc_start_next_pending_interview never leave a node in pending_interviews     *)
(* with neither the timer running nor an event on its way.                       *)
THEOREM WakeupNeverLost == Spec => []NoLostWakeup
<1>1. Init => NoLostWakeup
  BY DEF Init, NoLostWakeup
<1>2. TypeOK /\ NoLostWakeup /\ [Next]_vars => NoLostWakeup'
  <2> SUFFICES ASSUME TypeOK, NoLostWakeup, [Next]_vars PROVE NoLostWakeup'
    OBVIOUS
  <2> USE DEF storeVars, netVars
  <2>1. ASSUME NEW e \in Entry, AddNode(e) PROVE NoLostWakeup'
    <3>1. SetEvent(Delay) \in Event
      BY EventTypes, NwAssumption
    <3>2. process_post(queue, SetEvent(Delay)) # <<>>
      BY <3>1, PostType DEF TypeOK
    <3> QED BY <2>1, <3>2 DEF AddNode, mpc_queue_node_for_interview, NoLostWakeup
  <2>2. ASSUME NEW e \in Entry, Goodbye(e) PROVE NoLostWakeup'
    <3>1. PICK h \in Owners(e) : mpc_node_removal_handle(h)
      BY <2>2 DEF Goodbye
    <3>2. h \in live
      BY DEF Owners
    <3>3. timer' = timer
      BY <2>2 DEF Goodbye
    <3> QED BY <3>1, <3>2, <3>3, RemovalType DEF NoLostWakeup
  <2>3. ASSUME NEW f \in FabricIndexes, OnFabricUpdated(f) \/ FabricWillBeRemoved(f)
        PROVE  NoLostWakeup'
    BY <2>3 DEF OnFabricUpdated, FabricWillBeRemoved, NoLostWakeup
  <2>4. CASE CommissioningComplete \/ mpc_nw_monitor_init \/ call_unify_event_queue
    BY <2>4 DEF CommissioningComplete, mpc_nw_monitor_init, call_unify_event_queue, NoLostWakeup
  <2>5. CASE ContikiStep
    <3>1. CASE TimerExpires
      BY <3>1, EventTypes, AppendProperties DEF TimerExpires, NoLostWakeup, TypeOK
    <3>2. CASE TimerSet
      <4>1. Head(queue) \in Event
        BY <3>2, HeadTailProperties DEF TimerSet, TypeOK
      <4>2. timer' # Off
        BY <3>2, <4>1 DEF TimerSet, Event, Off
      <4> QED BY <4>2 DEF NoLostWakeup
    <3>3. CASE mpc_start_next_pending_interview
      <4>1. CASE pending = <<>>
        BY <3>3, <4>1 DEF mpc_start_next_pending_interview, NoLostWakeup
      <4>2. CASE pending # <<>> /\ Head(pending).node \in live
        <5>1. CASE Len(pending) > 1
          <6>1. pending[2] \in PendingEntry
            BY <5>1, ElementOfSeq DEF TypeOK
          <6>2. Tail(queue) \in Seq(Event)
            BY <3>3, HeadTailProperties DEF mpc_start_next_pending_interview, TypeOK
          <6>3. queue' = process_post(Tail(queue), SetEvent(NextTrigger(pending[2])))
            BY <3>3, <4>2, <5>1 DEF mpc_start_next_pending_interview
          <6> QED BY <6>1, <6>2, <6>3, EventTypes, PostType DEF NoLostWakeup
        <5>2. CASE ~ (Len(pending) > 1)
          <6>1. Len(pending) = 1
            <7>1. pending \in Seq(PendingEntry) /\ pending # <<>>
              BY <4>2 DEF TypeOK
            <7>2. Len(pending) \in Nat \ {0}
              BY <7>1, EmptySeq
            <7> QED BY <5>2, <7>2
          <6>2. Tail(pending) \in Seq(PendingEntry) /\ Len(Tail(pending)) = 0
            BY <4>2, <6>1, HeadTailProperties DEF TypeOK
          <6>3. Tail(pending) = <<>>
            BY <6>2, EmptySeq
          <6> QED BY <3>3, <4>2, <6>3 DEF mpc_start_next_pending_interview, NoLostWakeup
        <5> QED BY <5>1, <5>2
      <4>3. CASE pending # <<>> /\ Head(pending).node \notin live
        BY <3>3, <4>3 DEF mpc_start_next_pending_interview, NoLostWakeup
      <4> QED BY <4>1, <4>2, <4>3
    <3>4. CASE MainLoopReturns
      BY <3>4 DEF MainLoopReturns, NoLostWakeup
    <3> QED BY <2>5, <3>1, <3>2, <3>3, <3>4 DEF ContikiStep
  <2>6. CASE Tick
    <3>1. timer # Off => timer' # Off
      BY <2>6, NwAssumption DEF Tick, TypeOK, Off
    <3>2. pending = <<>> => pending' = <<>>
      BY <2>6 DEF Tick
    <3> QED BY <2>6, <3>1, <3>2 DEF Tick, NoLostWakeup
  <2>7. ASSUME NEW h \in live, ResolutionCompletion(h) \/ MarkFailing(h) \/ Recovery(h)
        PROVE  NoLostWakeup'
    BY <2>7 DEF ResolutionCompletion, MarkFailing, Recovery, SetStatus, NoLostWakeup
  <2>8. CASE UNCHANGED vars
    BY <2>8 DEF vars, NoLostWakeup
  <2> QED BY <2>1, <2>2, <2>3, <2>4, <2>5, <2>6, <2>7, <2>8 DEF Next
<1> QED BY <1>1, <1>2, TypeCorrect, PTL DEF Spec

-----------------------------------------------------------------------------
(* Readable lists *)

(* Without a fabric at most one node is in the store, so the next fabric update *)
(* finds it by the "only one node under root" rule and gives it a list again.   *)
AtMostOneOutside == fabrics = {} => \E x : live \subseteq {x}

\* The inductive invariant.
ListInv == ListsReadable /\ AtMostOneOutside

(* find_mpc_and_update_networklist changes at most one node of the store. *)
LEMMA OneMpcNode ==
  ASSUME NEW lv \in SUBSET Handle, NEW at, NEW fabs
  PROVE  /\ \E x : MpcNodes(lv, at, fabs) \subseteq {x}
         /\ \A x : lv = {x} => MpcNodes(lv, at, fabs) = lv
<1>1. IsFiniteSet(lv)
  <2>1. IsFiniteSet(1 .. MaxHandle)
    BY FS_Interval, NwAssumption
  <2> QED BY <2>1, FS_Subset DEF Handle
<1>2. CASE Cardinality(lv) = 1
  <2>1. \E x : lv = {x}
    BY <1>1, <1>2, FS_Singleton
  <2> QED BY <1>2, <2>1 DEF MpcNodes
<1>3. CASE Cardinality(lv) # 1
  <2>1. \A x : lv # {x}
    BY <1>3, FS_Singleton
  <2>2. \E x : MpcNodes(lv, at, fabs) \subseteq {x}
    <3> DEFINE matching(f) == {h \in lv : TextMatch(at, h, f)}
               hits        == {f \in fabs : matching(f) # {}}
    <3>1. MpcNodes(lv, at, fabs) \in {{}, {Max(matching(Min(hits)))}}
      BY <1>3 DEF MpcNodes
    <3> HIDE DEF matching, hits
    <3> QED BY <3>1
  <2> QED BY <2>1, <2>2
<1> QED BY <1>2, <1>3

(* find_mpc_and_update_networklist leaves every other node as it is ... *)
LEMMA FindMpcKeeps ==
  ASSUME NEW lv, NEW at, NEW fabs, NEW removed, NEW h \in Handle, h \notin MpcNodes(lv, at, fabs)
  PROVE  find_mpc_and_update_networklist(lv, at, fabs, removed)[h] = at[h]
BY DEF find_mpc_and_update_networklist

(* ... and gives the one it takes for the MPC a list as long as a fabric is left. *)
LEMMA FindMpcReports ==
  ASSUME NEW lv, NEW at \in [Handle -> Node], NEW fabs, NEW removed, NEW h \in Handle,
         h \in MpcNodes(lv, at, fabs), NEW g \in fabs, g \notin removed
  PROVE  find_mpc_and_update_networklist(lv, at, fabs, removed)[h].list = "reported"
<1> DEFINE items == {MpcEntry(f) : f \in fabs \ removed}
<1>1. items # {}
  OBVIOUS
<1> HIDE DEF items
<1>2. at[h] \in Node
  OBVIOUS
<1>3. [at[h] EXCEPT !.list = "reported", !.entries = items, !.status = "functional"].list = "reported"
  BY <1>2 DEF Node
<1> QED BY <1>1, <1>3 DEF find_mpc_and_update_networklist, items

(* OnNodeDiscovered never scans a NETWORK_LIST without a reported value, so its *)
(* catch-all never deletes an attribute of another node: the fabric delegate    *)
(* leaves no such list behind while the MPC has a fabric.                       *)
THEOREM ListsAlwaysReadable == Spec => []ListsReadable
<1>1. Init => ListInv
  BY DEF Init, ListInv, ListsReadable, AtMostOneOutside
<1>2. TypeOK /\ ListInv /\ [Next]_vars => ListInv'
  <2> SUFFICES ASSUME TypeOK, ListInv, [Next]_vars PROVE ListInv'
    OBVIOUS
  <2> USE DEF storeVars, netVars
  <2>0. ASSUME live' \subseteq live, fabrics' = fabrics,
               \A k \in live' : attrs'[k].list = attrs[k].list
        PROVE  ListInv'
    BY <2>0 DEF ListInv, ListsReadable, AtMostOneOutside
  <2>1. ASSUME NEW e \in Entry, AddNode(e) PROVE ListInv'
    <3> DEFINE h == lastHandle + 1
    <3>1. Owners(e) = {}
      BY <2>1 DEF AddNode, needs_update
    <3>2. h \in Handle /\ lastHandle < h
      BY <2>1, NwAssumption DEF AddNode, TypeOK, Handle
    <3>3. /\ live' = live \cup {h} /\ fabrics' = fabrics /\ fabrics # {}
          /\ attrs' = [attrs EXCEPT ![h] = DiscoveredNode(attrs[h], e)]
      BY <2>1, <3>1, <3>2 DEF AddNode
    <3> HIDE DEF h
    <3>4. DiscoveredNode(attrs[h], e).list = "reported"
      BY <3>2 DEF TypeOK, DiscoveredNode, Node
    <3>5. ASSUME NEW k \in live' PROVE attrs'[k].list = "reported"
      <4>1. CASE k = h
        BY <3>2, <3>3, <3>4, <4>1 DEF TypeOK
      <4>2. CASE k # h
        BY <3>2, <3>3, <3>5, <4>2 DEF ListInv, ListsReadable, TypeOK
      <4> QED BY <4>1, <4>2
    <3> QED BY <3>3, <3>5 DEF ListInv, ListsReadable, AtMostOneOutside
  <2>2. ASSUME NEW e \in Entry, Goodbye(e) PROVE ListInv'
    <3>1. PICK h \in Owners(e) : mpc_node_removal_handle(h)
      BY <2>2 DEF Goodbye
    <3>2. \/ UNCHANGED <<live, attrs>>
          \/ live' = live \ {h} /\ attrs' = Deleted(attrs, {h})
      BY <3>1 DEF mpc_node_removal_handle
    <3>3. live' \subseteq live /\ \A k \in live' : attrs'[k].list = attrs[k].list
      BY <3>2 DEF Deleted, TypeOK
    <3> QED BY <2>0, <2>2, <3>3 DEF Goodbye
  <2>3. ASSUME NEW f \in FabricIndexes, OnFabricUpdated(f) PROVE ListInv'
    <3> DEFINE fabs == fabrics \cup {f}
    <3>1. /\ fabrics' = fabs /\ live' = live
          /\ attrs' = find_mpc_and_update_networklist(live, attrs, fabs, {})
      BY <2>3 DEF OnFabricUpdated
    <3>2. /\ fabs \in SUBSET FabricIndexes /\ fabs # {} /\ f \in fabs
          /\ attrs \in [Handle -> Node]
      BY DEF TypeOK
    <3> HIDE DEF fabs
    <3>3. ASSUME NEW k \in live PROVE attrs'[k].list = "reported"
      <4>1. k \in Handle
        BY <3>3 DEF TypeOK
      <4>2. CASE k \in MpcNodes(live, attrs, fabs)
        <5>1. find_mpc_and_update_networklist(live, attrs, fabs, {})[k].list = "reported"
          BY <3>2, <4>1, <4>2, FindMpcReports
        <5> QED BY <3>1, <5>1
      <4>3. CASE k \notin MpcNodes(live, attrs, fabs)
        <5>0. find_mpc_and_update_networklist(live, attrs, fabs, {})[k] = attrs[k]
          BY <3>2, <4>1, <4>3, FindMpcKeeps
        <5>1. attrs'[k] = attrs[k]
          BY <3>1, <5>0
        <5>2. live # {k}
          BY <4>3, <3>3, OneMpcNode DEF TypeOK
        <5>3. fabrics # {}
          BY <5>2, <3>3 DEF ListInv, AtMostOneOutside
        <5> QED BY <3>3, <5>1, <5>3 DEF ListInv, ListsReadable
      <4> QED BY <4>2, <4>3
    <3> QED BY <3>1, <3>2, <3>3 DEF ListInv, ListsReadable, AtMostOneOutside
  <2>4. ASSUME NEW f \in FabricIndexes, FabricWillBeRemoved(f) PROVE ListInv'
    <3> DEFINE at == find_mpc_and_update_networklist(live, attrs, fabrics, {f})
               mpcs == MpcNodes(live, attrs, fabrics)
    <3>1. /\ f \in fabrics /\ fabrics' = fabrics \ {f}
          /\ live' = live \ {h \in live : at[h].list = "reported"}
      BY <2>4 DEF FabricWillBeRemoved
    <3> HIDE DEF at, mpcs
    <3>2. live' \subseteq mpcs
      <4> SUFFICES ASSUME NEW k \in live, k \notin mpcs PROVE at[k].list = "reported"
        BY <3>1
      <4>1. attrs[k].list = "reported"
        BY <3>1 DEF ListInv, ListsReadable
      <4>2. at[k] = attrs[k]
        BY FindMpcKeeps DEF TypeOK, at, mpcs
      <4> QED BY <4>1, <4>2
    <3>3. \E x : mpcs \subseteq {x}
      BY OneMpcNode DEF TypeOK, mpcs
    <3>4. fabrics' # {} => live' = {}
      <4> SUFFICES ASSUME fabrics' # {}, NEW k \in live' PROVE FALSE
        OBVIOUS
      <4>1. k \in mpcs /\ k \in live
        BY <3>1, <3>2
      <4>0. PICK g \in fabrics : g \notin {f}
        BY <3>1
      <4>2. k \in Handle /\ attrs \in [Handle -> Node]
        BY <4>1 DEF TypeOK
      <4>3. at[k].list = "reported"
        BY <4>0, <4>1, <4>2, FindMpcReports DEF at, mpcs
      <4> QED BY <3>1, <4>1, <4>3
    <3> QED BY <3>2, <3>3, <3>4 DEF ListInv, ListsReadable, AtMostOneOutside
  <2>5. CASE mpc_nw_monitor_init
    <3>1. fabrics' = fabrics
      BY <2>5 DEF mpc_nw_monitor_init
    <3>2. CASE ~ (live = {} \/ fabrics = {})
      <4>1. /\ live' = live
            /\ attrs' = [h \in Handle |-> [attrs[h] EXCEPT !.listener = (h \in live)]]
        BY <2>5, <3>2 DEF mpc_nw_monitor_init
      <4>2. \A k \in live : attrs'[k].list = attrs[k].list
        BY <4>1 DEF TypeOK, Node
      <4> QED BY <2>0, <3>1, <4>1, <4>2
    <3>3. CASE live = {} \/ fabrics = {}
      <4> DEFINE at == [Deleted(attrs, Handle) EXCEPT ![1].ep0 = "bare"]
      <4>1. at \in [Handle -> Node]
        <5>1. Deleted(attrs, Handle) \in [Handle -> Node]
          BY NodeTypes DEF TypeOK
        <5>2. \A n \in Node : [n EXCEPT !.ep0 = "bare"] \in Node
          BY DEF Node, Endpoint0
        <5> QED BY <5>1, <5>2, NodeTypes
      <4> HIDE DEF at
      <4>2. live' = {1} /\ attrs' = find_mpc_and_update_networklist({1}, at, fabrics, {})
        BY <2>5, <3>3 DEF mpc_nw_monitor_init, mpc_populate_attribute_store, at
      <4>3. 1 \in MpcNodes({1}, at, fabrics)
        BY OneMpcNode, NodeTypes
      <4>4. fabrics # {} => attrs'[1].list = "reported"
        <5> SUFFICES ASSUME NEW g \in fabrics PROVE attrs'[1].list = "reported"
          OBVIOUS
        <5>1. find_mpc_and_update_networklist({1}, at, fabrics, {})[1].list = "reported"
          BY <4>1, <4>3, FindMpcReports, NodeTypes
        <5> QED BY <4>2, <5>1
      <4> QED BY <3>1, <4>2, <4>4 DEF ListInv, ListsReadable, AtMostOneOutside
    <3> QED BY <3>2, <3>3
  <2>6. CASE CommissioningComplete \/ call_unify_event_queue \/ Tick
    BY <2>0, <2>6 DEF CommissioningComplete, call_unify_event_queue, Tick
  <2>7. CASE ContikiStep
    <3>1. CASE TimerExpires \/ TimerSet \/ MainLoopReturns
      BY <2>0, <3>1 DEF TimerExpires, TimerSet, MainLoopReturns
    <3>2. CASE mpc_start_next_pending_interview
      <4>1. \/ attrs' = attrs
            \/ \E h \in live, v \in Endpoint0 :
                 attrs' = [attrs EXCEPT ![h].listener = TRUE, ![h].ep0 = v]
        <5>1. \A h \in live : attrs[h].ep0 \in Endpoint0
          BY DEF TypeOK, Node
        <5> QED BY <3>2, <5>1 DEF mpc_start_next_pending_interview, Endpoint0
      <4>2. \A k \in live : attrs'[k].list = attrs[k].list
        <5>1. \A n \in Node : \A v : [[n EXCEPT !.listener = TRUE] EXCEPT !.ep0 = v].list = n.list
          BY DEF Node
        <5>2. ASSUME NEW h \in live, NEW v,
                     attrs' = [attrs EXCEPT ![h].listener = TRUE, ![h].ep0 = v], NEW k \in live
              PROVE  attrs'[k].list = attrs[k].list
          <6>1. h \in Handle /\ k \in Handle /\ attrs[h] \in Node /\ DOMAIN attrs = Handle
            BY <5>2 DEF TypeOK
          <6>2. attrs'[k] = IF k = h THEN [[attrs[h] EXCEPT !.listener = TRUE] EXCEPT !.ep0 = v]
                                     ELSE attrs[k]
            BY <5>2, <6>1
          <6> QED BY <5>1, <6>1, <6>2
        <5> QED BY <4>1, <5>2
      <4> QED BY <2>0, <3>2, <4>2 DEF mpc_start_next_pending_interview
    <3> QED BY <2>7, <3>1, <3>2 DEF ContikiStep
  <2>8. ASSUME NEW h \in live, ResolutionCompletion(h) \/ MarkFailing(h) \/ Recovery(h)
        PROVE  ListInv'
    <3>1. PICK st, pv : SetStatus(h, st, pv)
      BY <2>8 DEF ResolutionCompletion, MarkFailing, Recovery
    <3>2. \A k \in live : attrs'[k].list = attrs[k].list
      BY <3>1 DEF SetStatus, TypeOK, Node
    <3> QED BY <2>0, <3>1, <3>2 DEF SetStatus
  <2>9. CASE UNCHANGED vars
    BY <2>0, <2>9 DEF vars
  <2> QED BY <2>1, <2>2, <2>3, <2>4, <2>5, <2>6, <2>7, <2>8, <2>9 DEF Next
<1>3. ListInv => ListsReadable
  BY DEF ListInv
<1> QED BY <1>1, <1>2, <1>3, TypeCorrect, PTL DEF Spec

=============================================================================
