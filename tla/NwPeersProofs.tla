--------------------------- MODULE NwPeersProofs ---------------------------
(***************************************************************************)
(* Proofs about NwMonitor: who each node of the attribute store stands     *)
(* for, what is left of the store without a fabric, and what a node that   *)
(* waits for its interview can still undergo.                              *)
(***************************************************************************)
EXTENDS NwMonitorProofs

(* What the theorems suppose of a deployment, where the code relies on it.  The *)
(* controller has one fabric, which gets the fabric table's first index.        *)
OneFabric == FabricIndexes = {1}

(* No node id is written with the digits of the MPC's own and more: lists are *)
(* searched for the MPC's entry as text.                                      *)
DistinctText == MpcLike = {Mpc}

(* mDNS reports no goodbye from the MPC itself: whoever says goodbye is removed. *)
NoOwnGoodbye == Mpc \notin GoodbyeIds

-----------------------------------------------------------------------------
(* What find_mpc_and_update_networklist finds and writes *)

(* A node it finds is the only one of the store, or has a text match in a fabric. *)
LEMMA FoundMatches ==
  ASSUME NEW lv \in SUBSET Handle, NEW at, NEW fabs \in SUBSET Nat, NEW h \in MpcNodes(lv, at, fabs)
  PROVE  h \in lv /\ (lv = {h} \/ \E f \in fabs : TextMatch(at, h, f))
<1>1. IsFiniteSet(lv)
  <2>1. IsFiniteSet(1 .. MaxHandle)
    BY FS_Interval, NwAssumption
  <2> QED BY <2>1, FS_Subset DEF Handle
<1>2. CASE Cardinality(lv) = 1
  <2>1. \E x : lv = {x}
    BY <1>1, <1>2, FS_Singleton
  <2> QED BY <1>2, <2>1 DEF MpcNodes
<1>3. CASE Cardinality(lv) # 1
  <2> DEFINE matching(f) == {k \in lv : TextMatch(at, k, f)}
             hits        == {f \in fabs : matching(f) # {}}
  <2>1. hits # {} /\ h = Max(matching(Min(hits)))
    BY <1>3 DEF MpcNodes
  <2>2. hits \subseteq Nat
    OBVIOUS
  <2> HIDE DEF hits
  <2>3. Min(hits) \in hits
    BY <2>1, <2>2, MinOfNaturals
  <2>4. Min(hits) \in fabs /\ matching(Min(hits)) # {}
    BY <2>3 DEF hits
  <2>5. MaxHandle \in Nat /\ matching(Min(hits)) \subseteq 1 .. MaxHandle
    BY NwAssumption DEF Handle
  <2> HIDE DEF matching
  <2>6. h \in matching(Min(hits))
    BY <2>1, <2>4, <2>5, MaxOfHandles
  <2> QED BY <2>4, <2>6 DEF matching
<1> QED BY <1>2, <1>3

(* It finds a node as soon as one has a text match. *)
LEMMA MatchIsFound ==
  ASSUME NEW lv, NEW at, NEW fabs, NEW m \in lv, NEW f \in fabs, TextMatch(at, m, f)
  PROVE  MpcNodes(lv, at, fabs) # {}
<1> DEFINE matching(g) == {k \in lv : TextMatch(at, k, g)}
           hits        == {g \in fabs : matching(g) # {}}
<1>1. f \in hits
  OBVIOUS
<1>2. MpcNodes(lv, at, fabs) = IF Cardinality(lv) = 1 THEN lv
                               ELSE IF hits = {} THEN {} ELSE {Max(matching(Min(hits)))}
  BY DEF MpcNodes
<1> HIDE DEF hits, matching
<1> QED BY <1>1, <1>2

(* What find_mpc_and_update_networklist makes of the node it finds: the entries of the *)
(* fabrics that are left, or no entry and Online Non-functional.                       *)
Rewritten(new, at, m, left) ==
  /\ \A h \in Handle \ {m} : new[h] = at[h]
  /\ new[m].ep0 = at[m].ep0 /\ new[m].listener = at[m].listener
  /\ left # {} => new[m].list = "reported" /\ new[m].entries = {MpcEntry(f) : f \in left}
  /\ left = {} /\ at[m].list = "reported" =>
       new[m].list = "undefined" /\ new[m].entries = {} /\ new[m].status = "nonfunctional"

(* It does so to the one node it finds. *)
LEMMA FoundIsRewritten ==
  ASSUME NEW lv, NEW at \in [Handle -> Node], NEW fabs, NEW removed, NEW m \in Handle,
         MpcNodes(lv, at, fabs) = {m}
  PROVE  Rewritten(find_mpc_and_update_networklist(lv, at, fabs, removed), at, m, fabs \ removed)
<1> DEFINE new   == find_mpc_and_update_networklist(lv, at, fabs, removed)
           items == {MpcEntry(f) : f \in fabs \ removed}
           n     == at[m]
<1>1. items = {} <=> fabs \ removed = {}
  OBVIOUS
<1>2. new[m] = CASE items # {} ->
                          [n EXCEPT !.list = "reported", !.entries = items,
                                    !.status = "functional"]
                     [] items = {} /\ n.list # "absent" ->
                          [n EXCEPT !.list = "undefined", !.entries = {},
                                    !.status = "nonfunctional"]
                     [] OTHER -> n
  BY DEF find_mpc_and_update_networklist
<1>3. \A h \in Handle \ {m} : new[h] = at[h]
  BY DEF find_mpc_and_update_networklist
<1>4. n \in Node
  OBVIOUS
<1> HIDE DEF new, items, n
<1>5. CASE items # {}
  <2>1. new[m] = [n EXCEPT !.list = "reported", !.entries = items, !.status = "functional"]
    BY <1>2, <1>5
  <2>2. /\ new[m].list = "reported" /\ new[m].entries = items
        /\ new[m].ep0 = n.ep0 /\ new[m].listener = n.listener
    BY <1>4, <2>1 DEF Node
  <2> QED BY <1>1, <1>3, <1>5, <2>2 DEF n, new, Rewritten, items
<1>6. CASE items = {} /\ n.list # "absent"
  <2>1. new[m] = [n EXCEPT !.list = "undefined", !.entries = {}, !.status = "nonfunctional"]
    BY <1>2, <1>6
  <2>2. /\ new[m].list = "undefined" /\ new[m].entries = {} /\ new[m].status = "nonfunctional"
        /\ new[m].ep0 = n.ep0 /\ new[m].listener = n.listener
    BY <1>4, <2>1 DEF Node
  <2> QED BY <1>1, <1>3, <1>6, <2>2 DEF n, new, Rewritten
<1>7. CASE items = {} /\ n.list = "absent"
  <2>1. new[m] = n
    BY <1>2, <1>7
  <2> QED BY <1>1, <1>3, <1>7, <2>1 DEF n, new, Rewritten
<1> QED BY <1>5, <1>6, <1>7

-----------------------------------------------------------------------------
(* What a step does to the nodes of the store *)

(* OnNodeDiscovered gives the peer e the new node h. *)
Added(e, h) ==
  /\ e[1] \in fabrics /\ fabrics' = fabrics /\ Owners(e) = {}
  /\ h \in Handle \ live /\ live' = live \cup {h}
  /\ attrs' = [attrs EXCEPT ![h] = DiscoveredNode(attrs[h], e)]

(* A goodbye removes node h, which lists the peer e. *)
Removed(e, h) ==
  /\ h \in Owners(e) /\ e[2] \in GoodbyeIds /\ e[1] \in fabrics /\ fabrics' = fabrics
  /\ live' = live \ {h} /\ attrs' = Deleted(attrs, {h})

(* The interview of node h starts. *)
Interviewed(h) ==
  /\ h \in live /\ live' = live /\ fabrics' = fabrics
  /\ \A k \in Handle \ {h} : attrs'[k] = attrs[k]
  /\ attrs'[h].list = attrs[h].list /\ attrs'[h].entries = attrs[h].entries
  /\ attrs'[h].listener
  /\ attrs'[h].ep0 = IF attrs[h].ep0 # "none" THEN attrs[h].ep0
                     ELSE IF mpc_on_ep_change_cb(h) THEN "descriptor" ELSE "bare"

(* At most statuses change, each under a listener, of a node with a descriptor, of *)
(* one that was offline, or in a fabric.                                           *)
StatusesSet ==
  /\ live' = live /\ fabrics' = fabrics
  /\ \A h \in Handle : /\ attrs'[h].list = attrs[h].list /\ attrs'[h].entries = attrs[h].entries
                       /\ attrs'[h].ep0 = attrs[h].ep0 /\ attrs'[h].listener = attrs[h].listener
                       /\ \/ attrs'[h].status = attrs[h].status
                          \/ /\ h \in live
                             /\ \/ attrs[h].listener \/ attrs[h].ep0 = "descriptor"
                                \/ attrs[h].status = "offline" \/ fabrics # {}

(* Every step is one of these, a fabric event or a restart. *)
LEMMA StoreStep ==
  ASSUME TypeOK, [Next]_vars
  PROVE  \/ \E e \in Entry : \E h \in Handle : Added(e, h) \/ Removed(e, h)
         \/ \E f \in FabricIndexes : OnFabricUpdated(f) \/ FabricWillBeRemoved(f)
         \/ mpc_nw_monitor_init
         \/ \E h \in Handle : Interviewed(h)
         \/ StatusesSet
<1>0. live \subseteq Handle /\ attrs \in [Handle -> Node] /\ DOMAIN attrs = Handle
  BY DEF TypeOK
<1>q. UNCHANGED <<live, fabrics, attrs>> => StatusesSet
  BY DEF StatusesSet
<1>1. ASSUME NEW e \in Entry, AddNode(e) PROVE \E h \in Handle : Added(e, h)
  <2>0. PICK h : h = lastHandle + 1
    OBVIOUS
  <2>1. Owners(e) = {} /\ fabrics' = fabrics /\ e[1] \in fabrics
    BY <1>1 DEF AddNode, needs_update, netVars
  <2>2. h \in Handle /\ h \notin live
    BY <1>1, <2>0, NwAssumption DEF AddNode, TypeOK, Handle
  <2>3. live' = live \cup {h} /\ attrs' = [attrs EXCEPT ![h] = DiscoveredNode(attrs[h], e)]
    BY <1>1, <2>0, <2>1 DEF AddNode
  <2> QED BY <2>1, <2>2, <2>3 DEF Added
<1>2. ASSUME NEW e \in Entry, Goodbye(e) PROVE (\E h \in Handle : Removed(e, h)) \/ StatusesSet
  <2>1. PICK h \in Owners(e) : mpc_node_removal_handle(h)
    BY <1>2 DEF Goodbye
  <2>2. h \in Handle /\ e[2] \in GoodbyeIds /\ e[1] \in fabrics /\ fabrics' = fabrics
    BY <1>0, <1>2 DEF Goodbye, Owners, netVars
  <2>3. \/ UNCHANGED <<live, attrs>>
        \/ live' = live \ {h} /\ attrs' = Deleted(attrs, {h})
    BY <2>1 DEF mpc_node_removal_handle
  <2>4. CASE live' = live \ {h} /\ attrs' = Deleted(attrs, {h})
    BY <2>1, <2>2, <2>4 DEF Removed
  <2> QED BY <1>q, <2>2, <2>3, <2>4
<1>3. CASE CommissioningComplete \/ call_unify_event_queue \/ Tick
  BY <1>q, <1>3 DEF CommissioningComplete, call_unify_event_queue, Tick, storeVars, netVars
<1>4. CASE ContikiStep
  <2>1. CASE TimerExpires \/ TimerSet \/ MainLoopReturns
    BY <1>q, <2>1 DEF TimerExpires, TimerSet, MainLoopReturns, storeVars, netVars
  <2>2. CASE mpc_start_next_pending_interview
    <3>1. live' = live /\ fabrics' = fabrics
      BY <2>2 DEF mpc_start_next_pending_interview, netVars
    <3>2. CASE attrs' = attrs
      BY <1>q, <3>1, <3>2
    <3>3. CASE pending # <<>> /\ Head(pending).node \in live
      <4>0. PICK h : h = Head(pending).node
        OBVIOUS
      <4>1. PICK v : /\ attrs' = [attrs EXCEPT ![h].listener = TRUE, ![h].ep0 = v]
                     /\ v = IF attrs[h].ep0 # "none" THEN attrs[h].ep0
                            ELSE IF mpc_on_ep_change_cb(h) THEN "descriptor" ELSE "bare"
        <5>1. h \in Handle /\ attrs[h] \in Node
          BY <1>0, <3>3, <4>0
        <5>2. attrs' = [attrs EXCEPT ![h].listener = TRUE,
                          ![h].ep0 = IF @ # "none" THEN @
                                     ELSE IF mpc_on_ep_change_cb(h) THEN "descriptor" ELSE "bare"]
          BY <2>2, <3>3, <4>0 DEF mpc_start_next_pending_interview
        <5>3. [attrs[h] EXCEPT !.listener = TRUE].ep0 = attrs[h].ep0
          BY <5>1 DEF Node
        <5> QED BY <1>0, <5>1, <5>2, <5>3
      <4>2. h \in live /\ h \in Handle /\ attrs[h] \in Node
        BY <1>0, <3>3, <4>0
      <4>3. attrs'[h] = [[attrs[h] EXCEPT !.listener = TRUE] EXCEPT !.ep0 = v]
        BY <1>0, <4>1, <4>2
      <4>4. /\ attrs'[h].list = attrs[h].list /\ attrs'[h].entries = attrs[h].entries
            /\ attrs'[h].listener = TRUE /\ attrs'[h].ep0 = v
        BY <4>2, <4>3 DEF Node
      <4>5. \A k \in Handle \ {h} : attrs'[k] = attrs[k]
        BY <1>0, <4>1, <4>2
      <4> QED BY <3>1, <4>1, <4>2, <4>4, <4>5 DEF Interviewed
    <3> QED BY <2>2, <3>2, <3>3 DEF mpc_start_next_pending_interview
  <2> QED BY <1>4, <2>1, <2>2 DEF ContikiStep
<1>5. ASSUME NEW h \in live, ResolutionCompletion(h) \/ MarkFailing(h) \/ Recovery(h)
      PROVE  StatusesSet
  <2>1. PICK st, pv : SetStatus(h, st, pv)
    BY <1>5 DEF ResolutionCompletion, MarkFailing, Recovery
  <2>2. /\ live' = live /\ fabrics' = fabrics
        /\ attrs' = [attrs EXCEPT ![h].status = st, ![h].prev = pv]
    BY <2>1 DEF SetStatus, netVars
  <2>3. /\ attrs'[h].list = attrs[h].list /\ attrs'[h].entries = attrs[h].entries
        /\ attrs'[h].ep0 = attrs[h].ep0 /\ attrs'[h].listener = attrs[h].listener
        /\ \A k \in Handle \ {h} : attrs'[k] = attrs[k]
    BY <1>0, <2>2 DEF Node
  <2>4. \/ attrs[h].listener \/ attrs[h].ep0 = "descriptor"
        \/ attrs[h].status = "offline" \/ fabrics # {}
    BY <1>5 DEF ResolutionCompletion, MarkFailing, Recovery, Reached, PeerNode
  <2> QED BY <2>2, <2>3, <2>4 DEF StatusesSet
<1>6. CASE UNCHANGED vars
  BY <1>q, <1>6 DEF vars, storeVars, netVars
<1> QED BY <1>1, <1>2, <1>3, <1>4, <1>5, <1>6 DEF Next

(* A restart over a store and a fabric table with something in them keeps what the *)
(* nodes are; any other builds the MPC's own node anew.                            *)
LEMMA RestartCases ==
  ASSUME TypeOK, mpc_nw_monitor_init
  PROVE  /\ fabrics' = fabrics
         /\ \/ /\ live # {} /\ fabrics # {} /\ live' = live
               /\ \A h \in Handle : /\ attrs'[h].list = attrs[h].list
                                    /\ attrs'[h].entries = attrs[h].entries
                                    /\ attrs'[h].ep0 = attrs[h].ep0
                                    /\ h \in live => attrs'[h].listener
            \/ /\ live = {} \/ fabrics = {}
               /\ live' = {1}
               /\ \A h \in Handle \ {1} : attrs'[h] = NewNode
               /\ attrs'[1].ep0 = "bare"
               /\ attrs'[1].entries = {MpcEntry(f) : f \in fabrics}
               /\ fabrics = {} => attrs'[1].list # "reported" /\ attrs'[1].status = "nonfunctional"
<1>1. fabrics' = fabrics
  BY DEF mpc_nw_monitor_init
<1>2. CASE live # {} /\ fabrics # {}
  <2>1. /\ live' = live
        /\ attrs' = [h \in Handle |-> [attrs[h] EXCEPT !.listener = (h \in live)]]
    BY <1>2 DEF mpc_nw_monitor_init
  <2>2. ASSUME NEW h \in Handle
        PROVE  /\ attrs'[h].list = attrs[h].list /\ attrs'[h].entries = attrs[h].entries
               /\ attrs'[h].ep0 = attrs[h].ep0
               /\ h \in live => attrs'[h].listener
    <3>1. attrs[h] \in Node /\ attrs'[h] = [attrs[h] EXCEPT !.listener = (h \in live)]
      BY <2>1 DEF TypeOK
    <3>2. h \in live => attrs'[h].listener
      BY <3>1 DEF Node
    <3> QED BY <3>1, <3>2 DEF Node
  <2> QED BY <1>1, <1>2, <2>1, <2>2
<1>3. CASE live = {} \/ fabrics = {}
  <2> DEFINE at == [Deleted(attrs, Handle) EXCEPT ![1].ep0 = "bare"]
  <2>1. live' = {1} /\ attrs' = find_mpc_and_update_networklist({1}, at, fabrics, {})
    BY <1>3 DEF mpc_nw_monitor_init, mpc_populate_attribute_store
  <2>2. /\ at \in [Handle -> Node] /\ \A h \in Handle \ {1} : at[h] = NewNode
        /\ at[1] = [NewNode EXCEPT !.ep0 = "bare"]
    <3>1. Deleted(attrs, Handle) = [h \in Handle |-> NewNode]
      BY DEF Deleted
    <3>2. [NewNode EXCEPT !.ep0 = "bare"] \in Node
      BY NodeTypes DEF Node, Endpoint0
    <3> QED BY <3>1, <3>2, NodeTypes
  <2> HIDE DEF at
  <2>3. /\ at[1].list = "absent" /\ at[1].ep0 = "bare" /\ at[1].entries = {}
        /\ at[1].status = "nonfunctional"
    BY <2>2 DEF NewNode
  <2>4. MpcNodes({1}, at, fabrics) = {1}
    BY OneMpcNode, NodeTypes
  <2>5. /\ \A h \in Handle \ {1} : attrs'[h] = at[h]
        /\ attrs'[1].ep0 = at[1].ep0
        /\ fabrics # {} => attrs'[1].entries = {MpcEntry(f) : f \in fabrics}
    <3>1. Rewritten(attrs', at, 1, fabrics \ {})
      BY <2>1, <2>2, <2>4, NodeTypes, FoundIsRewritten
    <3>2. fabrics \ {} = fabrics
      OBVIOUS
    <3>3. Rewritten(attrs', at, 1, fabrics)
      BY <3>1, <3>2
    <3> QED BY <3>3 DEF Rewritten
  <2>6. fabrics = {} => attrs'[1] = at[1]
    <3> SUFFICES ASSUME fabrics = {} PROVE attrs'[1] = at[1]
      OBVIOUS
    <3>1. {MpcEntry(f) : f \in {} \ {}} = {}
      OBVIOUS
    <3>2. attrs' = find_mpc_and_update_networklist({1}, at, {}, {}) /\ MpcNodes({1}, at, {}) = {1}
      BY <2>1, <2>4
    <3> QED BY <2>3, <3>1, <3>2, NodeTypes DEF find_mpc_and_update_networklist
  <2>7. attrs'[1].entries = {MpcEntry(f) : f \in fabrics}
    <3>1. CASE fabrics = {}
      BY <2>3, <2>6, <3>1
    <3>2. CASE fabrics # {}
      BY <2>5, <3>2
    <3> QED BY <3>1, <3>2
  <2>8. fabrics = {} => attrs'[1].list # "reported" /\ attrs'[1].status = "nonfunctional"
    BY <2>3, <2>6
  <2> QED BY <1>1, <1>3, <2>1, <2>2, <2>3, <2>5, <2>7, <2>8
<1> QED BY <1>2, <1>3

-----------------------------------------------------------------------------
(* Decommissioning *)

(* What makes DecommissionedIsReset inductive: a node with a descriptor has a listener *)
(* (so a failing request finds no other), and a deleted node has no endpoint.          *)
DescriptorIsHeard == \A h \in live : attrs[h].ep0 = "descriptor" => attrs[h].listener
DeadHasNoEndpoint == \A h \in Handle \ live : attrs[h].ep0 = "none"
ResetInv == DescriptorIsHeard /\ DeadHasNoEndpoint /\ DecommissionedIsReset

(* A node that is deleted or was never used has no endpoint and no listener. *)
LEMMA NewNodeFields == NewNode.ep0 = "none" /\ NewNode.listener = FALSE /\ NewNode.entries = {}
BY DEF NewNode

(* A discovered node has its one entry, and an endpoint only if it is the MPC. *)
LEMMA DiscoveredFields ==
  ASSUME NEW n \in Node, NEW e, n.ep0 = "none"
  PROVE  /\ DiscoveredNode(n, e).list = "reported" /\ DiscoveredNode(n, e).entries = {e}
         /\ DiscoveredNode(n, e).ep0 = IF e[2] = Mpc THEN "bare" ELSE "none"
BY DEF DiscoveredNode, Node

(* Every step keeps ResetInv. *)
LEMMA ResetStep ==
  ASSUME TypeOK, ListsReadable, ResetInv, [Next]_vars
  PROVE  ResetInv'
<1>0. live \subseteq Handle /\ attrs \in [Handle -> Node] /\ DOMAIN attrs = Handle
  BY DEF TypeOK
<1>1. ASSUME NEW e \in Entry, NEW h \in Handle, Added(e, h) PROVE ResetInv'
  <2>1. /\ \A k \in Handle \ {h} : attrs'[k] = attrs[k]
        /\ attrs'[h] = DiscoveredNode(attrs[h], e)
        /\ attrs[h].ep0 = "none" /\ h \notin live /\ live' = live \cup {h}
        /\ fabrics' = fabrics /\ fabrics # {}
    BY <1>0, <1>1 DEF Added, ResetInv, DeadHasNoEndpoint
  <2>2. attrs'[h].ep0 # "descriptor"
    BY <1>0, <2>1, DiscoveredFields
  <2> QED BY <1>0, <2>1, <2>2
          DEF ResetInv, DescriptorIsHeard, DeadHasNoEndpoint, DecommissionedIsReset, Handle
<1>2. ASSUME NEW e \in Entry, NEW h \in Handle, Removed(e, h) PROVE ResetInv'
  <2>1. /\ \A k \in Handle \ {h} : attrs'[k] = attrs[k]
        /\ attrs'[h] = NewNode /\ live' = live \ {h}
        /\ fabrics' = fabrics /\ fabrics # {}
    BY <1>0, <1>2 DEF Removed, Deleted
  <2> QED BY <1>0, <2>1, NewNodeFields
          DEF ResetInv, DescriptorIsHeard, DeadHasNoEndpoint, DecommissionedIsReset, Handle
<1>3. ASSUME NEW f \in FabricIndexes, OnFabricUpdated(f) PROVE ResetInv'
  <2> DEFINE fabs == fabrics \cup {f}
  <2>1. /\ fabrics' = fabs /\ fabs # {} /\ live' = live
        /\ attrs' = find_mpc_and_update_networklist(live, attrs, fabs, {})
    BY <1>3 DEF OnFabricUpdated
  <2> HIDE DEF fabs
  <2>2. \A k \in Handle : attrs'[k].ep0 = attrs[k].ep0 /\ attrs'[k].listener = attrs[k].listener
    <3>1. CASE MpcNodes(live, attrs, fabs) = {}
      <4>1. \A k \in Handle : attrs'[k] = attrs[k]
        BY <2>1, <3>1, FindMpcKeeps
      <4> QED BY <4>1
    <3>2. ASSUME NEW m \in MpcNodes(live, attrs, fabs)
          PROVE  \A k \in Handle : attrs'[k].ep0 = attrs[k].ep0 /\ attrs'[k].listener = attrs[k].listener
      <4>1. MpcNodes(live, attrs, fabs) = {m}
        BY <1>0, <3>2, OneMpcNode
      <4>2. m \in Handle
        BY <1>0, <3>2, NwAssumption, FoundMatches, <1>3 DEF TypeOK, fabs
      <4>3. Rewritten(attrs', attrs, m, fabs \ {})
        BY <1>0, <2>1, <4>1, <4>2, FoundIsRewritten
      <4> QED BY <4>3 DEF Rewritten
    <3> QED BY <3>1, <3>2
  <2> QED BY <1>0, <2>1, <2>2
          DEF ResetInv, DescriptorIsHeard, DeadHasNoEndpoint, DecommissionedIsReset, Handle
<1>4. ASSUME NEW f \in FabricIndexes, FabricWillBeRemoved(f) PROVE ResetInv'
  <2> DEFINE at == find_mpc_and_update_networklist(live, attrs, fabrics, {f})
             gone == {h \in live : at[h].list = "reported"}
             found == MpcNodes(live, attrs, fabrics)
  <2>1. /\ f \in fabrics /\ fabrics' = fabrics \ {f}
        /\ live' = live \ gone /\ attrs' = Deleted(at, gone)
    BY <1>4 DEF FabricWillBeRemoved
  <2>2. \A k \in live : attrs[k].list = "reported"
    BY <2>1 DEF ListsReadable
  <2>3. found = {} => \A k \in Handle : at[k] = attrs[k]
    BY FindMpcKeeps
  <2>4. ASSUME NEW m \in found
        PROVE  m \in Handle /\ Rewritten(at, attrs, m, fabrics \ {f})
    <3>0. live \in SUBSET Handle /\ fabrics \in SUBSET Nat
      BY NwAssumption DEF TypeOK
    <3>1. found = {m} /\ m \in Handle
      <4>1. found = {m}
        BY <3>0, <2>4, OneMpcNode
      <4>2. m \in live
        BY <3>0, <2>4, FoundMatches
      <4> QED BY <1>0, <4>1, <4>2
    <3> QED BY <1>0, <3>1, FoundIsRewritten
  <2>5. \A k \in Handle : k \in live' => attrs'[k] = at[k]
    BY <2>1 DEF Deleted
  <2>6. \A k \in Handle \ live : attrs'[k] = at[k] \/ attrs'[k] = NewNode
    BY <2>1 DEF Deleted
  <2>7. \A k \in gone : k \in Handle => attrs'[k] = NewNode
    BY <2>1 DEF Deleted
  <2>8. \A k \in live' : at[k].list # "reported" /\ k \in live
    BY <2>1
  <2>9. \A k \in Handle : k \notin live' => k \in gone \/ k \in Handle \ live
    BY <2>1
  <2> HIDE DEF at, gone, found
  <2>10. \A k \in Handle : at[k].ep0 = attrs[k].ep0 /\ at[k].listener = attrs[k].listener
    BY <2>3, <2>4 DEF Rewritten
  <2>11. DescriptorIsHeard'
    BY <1>0, <2>5, <2>8, <2>10 DEF ResetInv, DescriptorIsHeard
  <2>12. DeadHasNoEndpoint'
    <3> SUFFICES ASSUME NEW k \in Handle, k \notin live' PROVE attrs'[k].ep0 = "none"
      BY DEF DeadHasNoEndpoint, Handle
    <3>1. CASE k \in gone
      BY <2>7, <3>1, NewNodeFields
    <3>2. CASE k \in Handle \ live
      BY <2>6, <2>10, <3>2, NewNodeFields DEF ResetInv, DeadHasNoEndpoint
    <3> QED BY <2>9, <3>1, <3>2
  <2>13. DecommissionedIsReset'
    <3> SUFFICES ASSUME fabrics' = {}, NEW k \in live'
                 PROVE  /\ live' = {k} /\ attrs'[k].list # "reported"
                        /\ attrs'[k].status = "nonfunctional"
      BY DEF DecommissionedIsReset
    <3>1. \A h \in live' : h \in found
      <4> SUFFICES ASSUME NEW h \in live', h \notin found PROVE FALSE
        OBVIOUS
      <4>1. at[h] = attrs[h]
        BY <1>0, <2>3, <2>4, <2>8 DEF Rewritten
      <4> QED BY <2>2, <2>8, <4>1
    <3>2. k \in found /\ found = {k}
      BY <1>0, <3>1, OneMpcNode DEF found
    <3>3. live' = {k}
      BY <3>1, <3>2
    <3>4. Rewritten(at, attrs, k, {}) /\ k \in Handle
      BY <2>1, <2>4, <3>2
    <3>5. at[k].status = "nonfunctional" /\ at[k].list = "undefined"
      BY <2>2, <2>8, <3>4 DEF Rewritten
    <3> QED BY <2>5, <3>3, <3>4, <3>5
  <2> QED BY <2>11, <2>12, <2>13 DEF ResetInv
<1>5. CASE mpc_nw_monitor_init
  <2>1. CASE live # {} /\ fabrics # {}
    BY <1>0, <1>5, <2>1, RestartCases
       DEF ResetInv, DescriptorIsHeard, DeadHasNoEndpoint, DecommissionedIsReset, Handle
  <2>2. CASE live = {} \/ fabrics = {}
    BY <1>0, <1>5, <2>2, RestartCases, NewNodeFields, NodeTypes
       DEF ResetInv, DescriptorIsHeard, DeadHasNoEndpoint, DecommissionedIsReset, Handle
  <2> QED BY <2>1, <2>2
<1>6. ASSUME NEW h \in Handle, Interviewed(h) PROVE ResetInv'
  BY <1>0, <1>6 DEF Interviewed, ResetInv, DescriptorIsHeard, DeadHasNoEndpoint, DecommissionedIsReset, Handle
<1>7. CASE StatusesSet
  <2>1. DescriptorIsHeard' /\ DeadHasNoEndpoint'
    BY <1>0, <1>7 DEF StatusesSet, ResetInv, DescriptorIsHeard, DeadHasNoEndpoint, Handle
  <2>2. DecommissionedIsReset'
    BY <1>0, <1>7 DEF StatusesSet, ResetInv, DescriptorIsHeard, DecommissionedIsReset
  <2> QED BY <2>1, <2>2 DEF ResetInv
<1> QED BY <1>1, <1>2, <1>3, <1>4, <1>5, <1>6, <1>7, StoreStep

(* The same, throughout. *)
LEMMA ResetInvariant == Spec => []ResetInv
<1>1. Init => ResetInv
  <2> SUFFICES ASSUME Init PROVE ResetInv
    OBVIOUS
  <2>1. attrs[1] = [NewNode EXCEPT !.ep0 = "bare"] /\ \A h \in Handle \ {1} : attrs[h] = NewNode
    BY NodeTypes DEF Init
  <2>2. attrs[1].ep0 = "bare" /\ attrs[1].list = "absent" /\ attrs[1].status = "nonfunctional"
    BY <2>1 DEF NewNode
  <2>3. live = {1}
    BY DEF Init
  <2> QED BY <2>1, <2>2, <2>3, NewNodeFields
          DEF ResetInv, DescriptorIsHeard, DeadHasNoEndpoint, DecommissionedIsReset
<1>2. TypeOK /\ ListsReadable /\ ResetInv /\ [Next]_vars => ResetInv'
  BY ResetStep
<1> QED BY <1>1, <1>2, TypeCorrect, ListsAlwaysReadable, PTL DEF Spec

(* A decommissioned controller is left with at most its own node, without a list and *)
(* Online Non-functional until the resolver says otherwise, whatever fabrics it had, *)
(* whichever node it took for its own and whoever said goodbye.                      *)
THEOREM DecommissionResets == Spec => []DecommissionedIsReset
<1>1. ResetInv => DecommissionedIsReset
  BY DEF ResetInv
<1> QED BY <1>1, ResetInvariant, PTL

-----------------------------------------------------------------------------
(* One node per peer *)

(* Every step of a controller in one fabric keeps the peers apart: a node is added for *)
(* a peer that no readable list has, and the MPC's entry is written over itself or     *)
(* into the only node.                                                                 *)
LEMMA DistinctStep ==
  ASSUME OneFabric, DistinctText, TypeOK, ListsReadable, DecommissionedIsReset',
         OneNodePerPeer, [Next]_vars
  PROVE  OneNodePerPeer'
<1>0. live \subseteq Handle /\ attrs \in [Handle -> Node] /\ DOMAIN attrs = Handle
  BY DEF TypeOK
<1>1. ASSUME NEW e \in Entry, NEW h \in Handle, Added(e, h) PROVE OneNodePerPeer'
  <2>1. /\ \A k \in Handle \ {h} : attrs'[k] = attrs[k]
        /\ attrs'[h] = DiscoveredNode(attrs[h], e)
        /\ h \notin live /\ live' = live \cup {h} /\ fabrics # {} /\ Owners(e) = {}
    BY <1>0, <1>1 DEF Added
  <2>2. attrs'[h].entries = {e}
    BY <1>0, <2>1 DEF DiscoveredNode, Node
  <2>3. \A k \in live : e \notin attrs[k].entries
    BY <2>1 DEF Owners, ListsReadable
  <2> QED BY <1>0, <2>1, <2>2, <2>3 DEF OneNodePerPeer
<1>2. ASSUME NEW e \in Entry, NEW h \in Handle, Removed(e, h) PROVE OneNodePerPeer'
  <2>1. live' \subseteq live /\ \A k \in live' : attrs'[k] = attrs[k]
    BY <1>0, <1>2 DEF Removed, Deleted
  <2> QED BY <2>1 DEF OneNodePerPeer
<1>3. ASSUME NEW f \in FabricIndexes, OnFabricUpdated(f) PROVE OneNodePerPeer'
  <2>1. /\ live' = live
        /\ attrs' = find_mpc_and_update_networklist(live, attrs, {1}, {})
    <3>1. fabrics \cup {f} = {1}
      BY DEF OneFabric, TypeOK
    <3> QED BY <1>3, <3>1 DEF OnFabricUpdated
  <2>2. CASE MpcNodes(live, attrs, {1}) = {}
    <3>1. \A k \in Handle : attrs'[k] = attrs[k]
      BY <2>1, <2>2, FindMpcKeeps
    <3> QED BY <1>0, <2>1, <3>1 DEF OneNodePerPeer
  <2>3. ASSUME NEW m \in MpcNodes(live, attrs, {1}) PROVE OneNodePerPeer'
    <3>0. live \in SUBSET Handle /\ {1} \in SUBSET Nat
      BY <1>0
    <3>1. MpcNodes(live, attrs, {1}) = {m}
      BY <2>3, <3>0, OneMpcNode
    <3>2. m \in live /\ (live = {m} \/ TextMatch(attrs, m, 1))
      BY <2>3, <3>0, FoundMatches
    <3>3. live = {m} \/ MpcEntry(1) \in attrs[m].entries
      BY <3>2 DEF TextMatch, DistinctText, MpcEntry
    <3>4. Rewritten(attrs', attrs, m, {1})
      <4>1. {1} \ {} = {1} /\ m \in Handle
        BY <1>0, <3>2
      <4>2. Rewritten(attrs', attrs, m, {1} \ {})
        BY <1>0, <2>1, <3>1, <4>1, FoundIsRewritten
      <4> QED BY <4>1, <4>2
    <3>5. attrs'[m].entries = {MpcEntry(1)} /\ \A k \in Handle \ {m} : attrs'[k] = attrs[k]
      BY <3>4 DEF Rewritten
    <3> QED BY <1>0, <2>1, <3>2, <3>3, <3>5 DEF OneNodePerPeer
  <2> QED BY <2>2, <2>3
<1>4. ASSUME NEW f \in FabricIndexes, FabricWillBeRemoved(f) PROVE OneNodePerPeer'
  <2>1. fabrics' = {}
    BY <1>4 DEF FabricWillBeRemoved, OneFabric, TypeOK
  <2> QED BY <2>1 DEF DecommissionedIsReset, OneNodePerPeer
<1>5. CASE mpc_nw_monitor_init
  BY <1>0, <1>5, RestartCases DEF OneNodePerPeer
<1>6. ASSUME NEW h \in Handle, Interviewed(h) PROVE OneNodePerPeer'
  BY <1>0, <1>6 DEF Interviewed, OneNodePerPeer
<1>7. CASE StatusesSet
  BY <1>0, <1>7 DEF StatusesSet, OneNodePerPeer
<1> QED BY <1>1, <1>2, <1>3, <1>4, <1>5, <1>6, <1>7, StoreStep

(* No two nodes of the attribute store claim the same peer, whatever mDNS reports (the *)
(* MPC's own goodbye included), the fabric table does or the resolver decides, across  *)
(* restarts.                                                                           *)
THEOREM PeersAreDistinct == ASSUME OneFabric, DistinctText PROVE Spec => []OneNodePerPeer
<1>1. Init => OneNodePerPeer
  BY DEF Init, OneNodePerPeer
<1>2. TypeOK /\ ListsReadable /\ DecommissionedIsReset' /\ OneNodePerPeer /\ [Next]_vars
      => OneNodePerPeer'
  BY DistinctStep
<1> QED BY <1>1, <1>2, TypeCorrect, ListsAlwaysReadable, DecommissionResets, PTL DEF Spec

-----------------------------------------------------------------------------
(* Interviews *)

(* What makes InterviewReadsDescriptor inductive: in the fabric some node has the MPC's *)
(* entry, out of it one node without entries is left, and no node has two entries.      *)
HomeInv ==
  /\ fabrics # {} => \E m \in live : MpcEntry(1) \in attrs[m].entries
  /\ fabrics = {} => live # {} /\ \A h \in live : attrs[h].entries = {}
  /\ \A h \in live : \A d, e \in attrs[h].entries : d = e
  /\ InterviewReadsDescriptor

(* In one fabric find_mpc always finds a node, if not always the right one. *)
LEMMA SomeNodeFound ==
  ASSUME OneFabric, TypeOK, ListsReadable, DecommissionedIsReset, HomeInv
  PROVE  \E x \in live : MpcNodes(live, attrs, {1}) = {x}
<1>1. live \in SUBSET Handle /\ {1} \in SUBSET Nat
  BY DEF TypeOK
<1>2. MpcNodes(live, attrs, {1}) # {}
  <2>1. CASE fabrics = {}
    <3>1. PICK x : live = {x}
      BY <2>1 DEF HomeInv, DecommissionedIsReset
    <3> QED BY <1>1, <3>1, OneMpcNode
  <2>2. CASE fabrics # {}
    <3>1. PICK m \in live : MpcEntry(1) \in attrs[m].entries
      BY <2>2 DEF HomeInv
    <3>2. TextMatch(attrs, m, 1)
      BY <2>2, <3>1, NwAssumption DEF TextMatch, MpcEntry, ListsReadable
    <3> QED BY <3>1, <3>2, MatchIsFound
  <2> QED BY <2>1, <2>2
<1>3. PICK x : x \in MpcNodes(live, attrs, {1})
  BY <1>2
<1>4. MpcNodes(live, attrs, {1}) = {x}
  BY <1>1, <1>3, OneMpcNode
<1>5. x \in live
  BY <1>1, <1>3, FoundMatches
<1> QED BY <1>4, <1>5

(* Every step keeps HomeInv. *)
LEMMA HomeStep ==
  ASSUME OneFabric, NoOwnGoodbye, TypeOK, ListsReadable, DeadHasNoEndpoint,
         DecommissionedIsReset, DecommissionedIsReset', HomeInv, [Next]_vars
  PROVE  HomeInv'
<1>0. live \subseteq Handle /\ attrs \in [Handle -> Node] /\ DOMAIN attrs = Handle
  BY DEF TypeOK
<1>1. ASSUME NEW e \in Entry, NEW h \in Handle, Added(e, h) PROVE HomeInv'
  <2>1. /\ \A k \in Handle \ {h} : attrs'[k] = attrs[k]
        /\ attrs'[h] = DiscoveredNode(attrs[h], e)
        /\ attrs[h].ep0 = "none" /\ h \notin live /\ live' = live \cup {h}
        /\ fabrics' = fabrics /\ fabrics # {}
    BY <1>0, <1>1 DEF Added, DeadHasNoEndpoint
  <2>2. attrs'[h].entries = {e} /\ (attrs'[h].ep0 = "bare" => e[2] = Mpc)
    BY <1>0, <2>1, DiscoveredFields
  <2> QED BY <1>0, <2>1, <2>2 DEF HomeInv, InterviewReadsDescriptor
<1>2. ASSUME NEW e \in Entry, NEW h \in Handle, Removed(e, h) PROVE HomeInv'
  <2>1. /\ \A k \in live' : attrs'[k] = attrs[k]
        /\ live' = live \ {h} /\ fabrics' = fabrics /\ fabrics # {}
    BY <1>0, <1>2 DEF Removed, Deleted
  <2>2. e \in attrs[h].entries /\ h \in live /\ e[2] # Mpc
    BY <1>2 DEF Removed, Owners, NoOwnGoodbye
  <2>3. MpcEntry(1) \notin attrs[h].entries
    BY <2>2 DEF HomeInv, MpcEntry
  <2> QED BY <2>1, <2>3 DEF HomeInv, InterviewReadsDescriptor
<1>3. ASSUME NEW f \in FabricIndexes, OnFabricUpdated(f) PROVE HomeInv'
  <2>1. /\ live' = live /\ fabrics' = {1}
        /\ attrs' = find_mpc_and_update_networklist(live, attrs, {1}, {})
    <3>1. fabrics \cup {f} = {1}
      BY DEF OneFabric, TypeOK
    <3> QED BY <1>3, <3>1 DEF OnFabricUpdated
  <2>2. PICK x \in live : MpcNodes(live, attrs, {1}) = {x}
    BY SomeNodeFound
  <2>3. Rewritten(attrs', attrs, x, {1})
    <3>1. {1} \ {} = {1} /\ x \in Handle
      BY <1>0
    <3>2. Rewritten(attrs', attrs, x, {1} \ {})
      BY <1>0, <2>1, <2>2, <3>1, FoundIsRewritten
    <3> QED BY <3>1, <3>2
  <2>4. attrs'[x].entries = {MpcEntry(1)} /\ \A k \in Handle \ {x} : attrs'[k] = attrs[k]
    BY <2>3 DEF Rewritten
  <2> QED BY <1>0, <2>1, <2>4 DEF HomeInv, InterviewReadsDescriptor, MpcEntry
<1>4. ASSUME NEW f \in FabricIndexes, FabricWillBeRemoved(f) PROVE HomeInv'
  <2> DEFINE at == find_mpc_and_update_networklist(live, attrs, {1}, {1})
             gone == {h \in live : at[h].list = "reported"}
  <2>1. /\ fabrics = {1} /\ fabrics' = {}
        /\ live' = live \ gone /\ attrs' = Deleted(at, gone)
    BY <1>4 DEF FabricWillBeRemoved, OneFabric, TypeOK
  <2>2. PICK x \in live : MpcNodes(live, attrs, {1}) = {x}
    BY SomeNodeFound
  <2>3. Rewritten(at, attrs, x, {})
    <3>1. {1} \ {1} = {} /\ x \in Handle
      BY <1>0
    <3>2. Rewritten(at, attrs, x, {1} \ {1})
      BY <1>0, <2>2, <3>1, FoundIsRewritten
    <3> QED BY <3>1, <3>2
  <2>4. at[x].list = "undefined" /\ at[x].entries = {}
    BY <2>1, <2>3 DEF Rewritten, ListsReadable
  <2>5. x \in live' /\ attrs'[x] = at[x]
    BY <1>0, <2>1, <2>4 DEF Deleted
  <2>6. live' = {x}
    BY <2>1, <2>5 DEF DecommissionedIsReset
  <2> HIDE DEF at, gone
  <2> QED BY <2>1, <2>4, <2>5, <2>6 DEF HomeInv, InterviewReadsDescriptor
<1>5. CASE mpc_nw_monitor_init
  <2>1. CASE live # {} /\ fabrics # {}
    <3>1. /\ live' = live /\ fabrics' = fabrics
          /\ \A h \in live : attrs'[h].entries = attrs[h].entries /\ attrs'[h].ep0 = attrs[h].ep0
      BY <1>0, <1>5, <2>1, RestartCases
    <3> QED BY <3>1 DEF HomeInv, InterviewReadsDescriptor
  <2>2. CASE live = {} \/ fabrics = {}
    <3>1. /\ live' = {1} /\ fabrics' = fabrics
          /\ attrs'[1].entries = {MpcEntry(f) : f \in fabrics}
      BY <1>5, <2>2, RestartCases
    <3>2. fabrics = {} \/ fabrics = {1}
      BY DEF OneFabric, TypeOK
    <3> QED BY <3>1, <3>2 DEF HomeInv, InterviewReadsDescriptor, MpcEntry
  <2> QED BY <2>1, <2>2
<1>6. ASSUME NEW h \in Handle, Interviewed(h) PROVE HomeInv'
  <2>1. /\ h \in live /\ live' = live /\ fabrics' = fabrics
        /\ \A k \in live : attrs'[k].entries = attrs[k].entries
        /\ \A k \in live \ {h} : attrs'[k].ep0 = attrs[k].ep0
    BY <1>0, <1>6 DEF Interviewed
  <2>2. ASSUME NEW e \in attrs[h].entries, e[2] # Mpc PROVE attrs'[h].ep0 # "bare"
    <3>1. 1 \in fabrics
      BY <2>1, <2>2 DEF HomeInv, OneFabric, TypeOK
    <3>2. \A d \in attrs[h].entries : d[2] # Mpc
      BY <2>1, <2>2 DEF HomeInv
    <3>3. PICK m \in live : MpcEntry(1) \in attrs[m].entries
      BY <3>1 DEF HomeInv
    <3>4. m # h
      BY <3>2, <3>3 DEF MpcEntry
    <3>5. Cardinality(live) > 1
      <4>1. IsFiniteSet(live)
        <5>1. IsFiniteSet(1 .. MaxHandle)
          BY FS_Interval, NwAssumption
        <5> QED BY <1>0, <5>1, FS_Subset DEF Handle
      <4>2. Cardinality(live) \in Nat
        BY <4>1, FS_CardinalityType
      <4>3. Cardinality(live) # 0
        BY <2>1, <4>1, FS_EmptySet
      <4>4. Cardinality(live) # 1
        BY <2>1, <3>3, <3>4, <4>1, FS_Singleton
      <4> QED BY <4>2, <4>3, <4>4
    <3>6. mpc_on_ep_change_cb(h)
      BY <2>1, <3>1, <3>2, <3>5 DEF mpc_on_ep_change_cb, ListsReadable
    <3> QED BY <1>6, <2>1, <2>2, <3>6 DEF Interviewed, HomeInv, InterviewReadsDescriptor
  <2> QED BY <2>1, <2>2 DEF HomeInv, InterviewReadsDescriptor
<1>7. CASE StatusesSet
  BY <1>0, <1>7 DEF StatusesSet, HomeInv, InterviewReadsDescriptor
<1> QED BY <1>1, <1>2, <1>3, <1>4, <1>5, <1>6, <1>7, StoreStep

(* No device ends up with an endpoint 0 whose descriptor lists are never read, whatever *)
(* node ids look alike as text: when its interview starts there is a node with the      *)
(* MPC's entry beside it, the fabric is there and the list is its own.                  *)
THEOREM InterviewsReadDescriptors ==
  ASSUME OneFabric, NoOwnGoodbye PROVE Spec => []InterviewReadsDescriptor
<1>1. Init => HomeInv
  <2> SUFFICES ASSUME Init PROVE HomeInv
    OBVIOUS
  <2>1. attrs[1] = [NewNode EXCEPT !.ep0 = "bare"]
    BY NodeTypes DEF Init
  <2>2. attrs[1].entries = {}
    BY <2>1 DEF NewNode
  <2> QED BY <2>2 DEF Init, HomeInv, InterviewReadsDescriptor
<1>2. TypeOK /\ ListsReadable /\ ResetInv /\ ResetInv' /\ HomeInv /\ [Next]_vars => HomeInv'
  BY HomeStep DEF ResetInv
<1>3. HomeInv => InterviewReadsDescriptor
  BY DEF HomeInv
<1> QED BY <1>1, <1>2, <1>3, TypeCorrect, ListsAlwaysReadable, ResetInvariant, PTL DEF Spec

-----------------------------------------------------------------------------
(* Nodes that wait for their interview *)

(* The deleted nodes of the store have kept nothing. *)
DeadIsFresh == \A h \in Handle \ live : attrs[h] = NewNode

(* m is the MPC's own node: the only one out of the fabric, the one with the *)
(* MPC's entry in it.                                                        *)
OwnNode(m) ==
  /\ m \in live /\ attrs[m].ep0 = "bare"
  /\ fabrics # {} => attrs[m].list = "reported" /\ attrs[m].entries = {MpcEntry(1)}
  /\ fabrics = {} => /\ live = {m}
                     /\ attrs[m].list # "reported" /\ attrs[m].entries = {}

(* h is a device: one entry, not the MPC's, and no endpoint but an interviewed one. *)
DeviceNode(h) ==
  /\ attrs[h].list = "reported" /\ attrs[h].ep0 # "bare"
  /\ \E d \in NodeIds \ {Mpc} : attrs[h].entries = {<<1, d>>}

(* The store holds the MPC's node and devices. *)
Peers == \E m \in live : OwnNode(m) /\ \A h \in live \ {m} : DeviceNode(h)

(* The record of a node whose interview has not started: the resolver has no listener *)
(* for it, and it has only been discovered, or taken offline and back, since.         *)
Uninterviewed(n) ==
  {n.status, n.prev} \subseteq {"interviewing", "offline", "none"} /\ n.ep0 = "none" /\ ~ n.listener

(* A node that waits for its interview was created by this process, waits once, and *)
(* has not been interviewed.                                                        *)
Waiting ==
  /\ \A i \in 1 .. Len(pending) :
       /\ pending[i].node <= lastHandle
       /\ pending[i].node \in live => Uninterviewed(attrs[pending[i].node])
  /\ \A i, j \in 1 .. Len(pending) : pending[i].node = pending[j].node => i = j

\* The inductive invariant.
PeerInv == DeadIsFresh /\ Peers /\ Waiting

(* In one fabric the "networkList entry matching that of MPC" is found in the MPC's *)
(* own node and nowhere else.                                                       *)
LEMMA FoundIsOwn ==
  ASSUME DistinctText, TypeOK, NEW m, OwnNode(m), \A h \in live \ {m} : DeviceNode(h)
  PROVE  MpcNodes(live, attrs, {1}) = {m}
<1>1. live \in SUBSET Handle /\ m \in live /\ m \in Handle
  BY DEF TypeOK, OwnNode
<1>2. CASE live = {m}
  BY <1>1, <1>2, OneMpcNode
<1>3. CASE live # {m}
  <2>1. Cardinality(live) # 1
    <3>1. IsFiniteSet(live)
      <4>1. IsFiniteSet(1 .. MaxHandle)
        BY FS_Interval, NwAssumption
      <4> QED BY <1>1, <4>1, FS_Subset DEF Handle
    <3> QED BY <1>1, <1>3, <3>1, FS_Singleton
  <2> DEFINE matching(f) == {h \in live : TextMatch(attrs, h, f)}
             hits        == {f \in {1} : matching(f) # {}}
  <2>2. MpcNodes(live, attrs, {1}) = IF hits = {} THEN {} ELSE {Max(matching(Min(hits)))}
    BY <2>1 DEF MpcNodes
  <2>3. TextMatch(attrs, m, 1)
    BY <1>3 DEF DistinctText, OwnNode, TextMatch, MpcEntry
  <2>4. ASSUME NEW h \in live, h # m PROVE ~ TextMatch(attrs, h, 1)
    BY <2>4 DEF DistinctText, DeviceNode, TextMatch
  <2>5. matching(1) = {m}
    BY <1>1, <2>3, <2>4
  <2>6. hits = {1}
    BY <2>5
  <2> HIDE DEF matching, hits
  <2>7. Min({1}) = 1
    <3>1. {1} \subseteq Nat /\ {1} # {}
      OBVIOUS
    <3> QED BY <3>1, MinOfNaturals
  <2>8. Max({m}) = m
    <3>1. MaxHandle \in Nat /\ {m} \subseteq 1 .. MaxHandle /\ {m} # {}
      BY <1>1, NwAssumption DEF Handle
    <3>2. Max({m}) \in {m}
      BY <3>1, MaxOfHandles
    <3> QED BY <3>2
  <2> QED BY <2>2, <2>5, <2>6, <2>7, <2>8
<1> QED BY <1>2, <1>3

(* Taking an entry out leaves the others, each once and in the same order. *)
LEMMA RemoveAtEntries ==
  ASSUME NEW S, NEW s \in Seq(S), NEW k \in 1 .. Len(s)
  PROVE  /\ Len(RemoveAt(s, k)) = Len(s) - 1
         /\ \A i \in 1 .. Len(RemoveAt(s, k)) :
              RemoveAt(s, k)[i] = s[IF i < k THEN i ELSE i + 1]
<1> DEFINE a == SubSeq(s, 1, k - 1)
           b == SubSeq(s, k + 1, Len(s))
<1>1. Len(s) \in Nat
  BY LenProperties
<1>2. a \in Seq(S) /\ Len(a) = k - 1 /\ \A i \in 1 .. k - 1 : a[i] = s[i]
  BY <1>1, SubSeqProperties
<1>3. /\ b \in Seq(S) /\ Len(b) = Len(s) - k
      /\ \A i \in 1 .. Len(s) - k : b[i] = s[k + i]
  BY <1>1, SubSeqProperties
<1>4. RemoveAt(s, k) = a \o b
  BY DEF RemoveAt
<1> HIDE DEF a, b
<1>5. /\ Len(a \o b) = Len(a) + Len(b)
      /\ \A i \in 1 .. Len(a) + Len(b) : (a \o b)[i] = IF i <= Len(a) THEN a[i] ELSE b[i - Len(a)]
  BY <1>2, <1>3, ConcatProperties
<1>6. ASSUME NEW i \in 1 .. Len(s) - 1
      PROVE  (a \o b)[i] = s[IF i < k THEN i ELSE i + 1]
  <2>1. CASE i < k
    BY <1>1, <1>2, <1>3, <1>5, <2>1
  <2>2. CASE ~ (i < k)
    <3>1. i - (k - 1) \in 1 .. Len(s) - k /\ k + (i - (k - 1)) = i + 1
      BY <1>1, <2>2
    <3>2. (a \o b)[i] = b[i - (k - 1)]
      BY <1>1, <1>2, <1>3, <1>5, <2>2
    <3> QED BY <1>3, <2>2, <3>1, <3>2
  <2> QED BY <2>1, <2>2
<1> QED BY <1>1, <1>2, <1>3, <1>4, <1>5, <1>6

-----------------------------------------------------------------------------
(* Steps that leave the set of nodes alone *)

(* The store keeps its peers when no list changes and an endpoint appears, if at all, *)
(* with its descriptor.                                                               *)
LEMMA PeersKept ==
  ASSUME Peers, live' = live, fabrics' = fabrics,
         \A h \in live : /\ attrs'[h].list = attrs[h].list /\ attrs'[h].entries = attrs[h].entries
                         /\ attrs'[h].ep0 = attrs[h].ep0 \/ (attrs[h].ep0 = "none" /\ attrs'[h].ep0 # "bare")
  PROVE  Peers'
<1>1. PICK m \in live : OwnNode(m) /\ \A h \in live \ {m} : DeviceNode(h)
  BY DEF Peers
<1>2. OwnNode(m)'
  BY <1>1 DEF OwnNode
<1>3. ASSUME NEW h \in live \ {m} PROVE DeviceNode(h)'
  BY <1>1 DEF DeviceNode
<1> QED BY <1>2, <1>3 DEF Peers

(* The nodes that wait keep waiting untouched when they, the list and the numbering stay. *)
LEMMA WaitingKept ==
  ASSUME Waiting, pending' = pending, lastHandle' = lastHandle, live' \subseteq live,
         \A h \in live' : attrs[h].ep0 = "none" => attrs'[h] = attrs[h] \/ attrs[h].listener
  PROVE  Waiting'
<1>1. ASSUME NEW i \in 1 .. Len(pending), pending[i].node \in live'
      PROVE  attrs'[pending[i].node] = attrs[pending[i].node]
  BY <1>1 DEF Waiting, Uninterviewed
<1> QED BY <1>1 DEF Waiting

(* A change of one node's status: no completion runs for a node that waits, and one *)
(* that goes offline saves no other status than it has.                             *)
LEMMA StatusStep ==
  ASSUME TypeOK, PeerInv, NEW h \in live, ResolutionCompletion(h) \/ MarkFailing(h) \/ Recovery(h)
  PROVE  PeerInv'
<1>1. PICK st, pv : SetStatus(h, st, pv)
  BY DEF ResolutionCompletion, MarkFailing, Recovery
<1>2. /\ live' = live /\ fabrics' = fabrics /\ pending' = pending /\ lastHandle' = lastHandle
      /\ attrs' = [attrs EXCEPT ![h].status = st, ![h].prev = pv]
  BY <1>1 DEF SetStatus, netVars
<1>3. /\ h \in Handle /\ attrs[h] \in Node /\ DOMAIN attrs = Handle /\ live \subseteq Handle
  BY DEF TypeOK
<1>4. /\ attrs'[h].list = attrs[h].list /\ attrs'[h].entries = attrs[h].entries
      /\ attrs'[h].ep0 = attrs[h].ep0 /\ attrs'[h].listener = attrs[h].listener
      /\ \A k \in Handle \ {h} : attrs'[k] = attrs[k]
  BY <1>2, <1>3 DEF Node
<1>5. Uninterviewed(attrs[h]) => Uninterviewed(attrs'[h])
  <2> SUFFICES ASSUME Uninterviewed(attrs[h]) PROVE Uninterviewed(attrs'[h])
    OBVIOUS
  <2>1. attrs'[h].status = st /\ attrs'[h].prev = pv
    BY <1>2, <1>3 DEF Node
  <2>2. CASE MarkFailing(h)
    <3>1. attrs' = [attrs EXCEPT ![h].status = "offline", ![h].prev = attrs[h].status]
      BY <2>2 DEF MarkFailing, SetStatus
    <3>2. attrs'[h].status = "offline" /\ attrs'[h].prev = attrs[h].status
      BY <1>3, <3>1 DEF Node
    <3> QED BY <1>4, <3>2 DEF Uninterviewed
  <2>3. CASE Recovery(h)
    <3>1. attrs' = [attrs EXCEPT ![h].status = attrs[h].prev, ![h].prev = "none"]
      BY <2>3 DEF Recovery, SetStatus
    <3>2. attrs'[h].status = attrs[h].prev /\ attrs'[h].prev = "none"
      BY <1>3, <3>1 DEF Node
    <3> QED BY <1>4, <3>2 DEF Uninterviewed
  <2>4. ~ ResolutionCompletion(h)
    BY DEF ResolutionCompletion, Uninterviewed
  <2> QED BY <2>2, <2>3, <2>4
<1>6. DeadIsFresh'
  BY <1>2, <1>4 DEF PeerInv, DeadIsFresh, Handle
<1>8. Peers'
  <2>1. \A k \in live : /\ attrs'[k].list = attrs[k].list /\ attrs'[k].entries = attrs[k].entries
                        /\ attrs'[k].ep0 = attrs[k].ep0
    BY <1>3, <1>4
  <2> QED BY <1>2, <2>1, PeersKept DEF PeerInv
<1>9. Waiting'
  <2>1. ASSUME NEW i \in 1 .. Len(pending), pending[i].node \in live
        PROVE  Uninterviewed(attrs'[pending[i].node])
    BY <1>3, <1>4, <1>5, <2>1 DEF PeerInv, Waiting
  <2> QED BY <1>2, <2>1 DEF PeerInv, Waiting
<1> QED BY <1>6, <1>8, <1>9 DEF PeerInv

(* A step that touches neither the store, the fabric table nor the waiting list. *)
LEMMA QuietStep ==
  ASSUME PeerInv, UNCHANGED <<storeVars, fabrics, pending>>
  PROVE  PeerInv'
BY DEF PeerInv, DeadIsFresh, Peers, OwnNode, DeviceNode, Waiting, storeVars

(* Time passes: the times change, the nodes that wait do not. *)
LEMMA TickStep ==
  ASSUME TypeOK, PeerInv, Tick
  PROVE  PeerInv'
<1>1. /\ UNCHANGED <<live, attrs, lastHandle, fabrics>>
      /\ pending' = [i \in 1 .. Len(pending) |->
                       [pending[i] EXCEPT !.after = IF @ > 0 THEN @ - 1 ELSE 0]]
  BY DEF Tick, storeVars, netVars
<1>2. pending \in Seq(PendingEntry) /\ Len(pending) \in Nat
  BY LenProperties DEF TypeOK
<1>3. Len(pending') = Len(pending)
  BY <1>1, <1>2
<1>4. ASSUME NEW i \in 1 .. Len(pending) PROVE pending'[i].node = pending[i].node
  <2>1. pending[i] \in PendingEntry
    BY <1>2, ElementOfSeq
  <2>2. pending'[i] = [pending[i] EXCEPT !.after = IF @ > 0 THEN @ - 1 ELSE 0]
    BY <1>1
  <2> QED BY <2>1, <2>2 DEF PendingEntry
<1>5. Waiting'
  BY <1>1, <1>3, <1>4 DEF PeerInv, Waiting
<1>6. DeadIsFresh' /\ Peers'
  BY <1>1 DEF PeerInv, DeadIsFresh, Peers, OwnNode, DeviceNode
<1> QED BY <1>5, <1>6 DEF PeerInv

-----------------------------------------------------------------------------
(* Nodes come and go *)

(* A peer that is discovered gets a node of its own: no node lists it yet, its handle *)
(* is a new one, and it is not the MPC, whose node is always there in a fabric.       *)
LEMMA AddStep ==
  ASSUME OneFabric, TypeOK, PeerInv, NEW e \in Entry, AddNode(e)
  PROVE  PeerInv'
<1>0. PICK h : h = lastHandle + 1
  OBVIOUS
<1>1. PICK m \in live : OwnNode(m) /\ \A k \in live \ {m} : DeviceNode(k)
  BY DEF PeerInv, Peers
<1>2. Owners(e) = {} /\ fabrics # {} /\ fabrics' = fabrics /\ e[1] \in fabrics
  BY DEF AddNode, needs_update, netVars
<1>3. e[1] = 1 /\ e[2] \in NodeIds /\ e = <<1, e[2]>>
  BY <1>2 DEF OneFabric, TypeOK, Entry
<1>4. /\ h \in Handle /\ lastHandle < h /\ h \notin live /\ live \subseteq Handle
      /\ h # m /\ m \in Handle /\ DOMAIN attrs = Handle
  BY <1>0, <1>1, NwAssumption DEF AddNode, TypeOK, Handle
<1>5. e[2] # Mpc
  <2>1. m \notin Owners(e)
    BY <1>2
  <2> QED BY <1>1, <1>2, <1>3, <2>1 DEF OwnNode, Owners, MpcEntry
<1>6. /\ live' = live \cup {h} /\ lastHandle' = h
      /\ attrs' = [attrs EXCEPT ![h] = DiscoveredNode(attrs[h], e)]
      /\ pending' = Append(pending, [node |-> h, after |-> Delay])
  BY <1>0, <1>2, <1>4, <1>5 DEF AddNode, mpc_queue_node_for_interview
<1>7. attrs[h] = NewNode
  BY <1>4 DEF PeerInv, DeadIsFresh
<1>8. lastHandle \in Nat /\ h \in Nat
  BY <1>4, NwAssumption DEF TypeOK, Handle
<1>9. /\ attrs'[h].list = "reported" /\ attrs'[h].entries = {e}
      /\ Uninterviewed(attrs'[h])
      /\ \A k \in Handle \ {h} : attrs'[k] = attrs[k]
  BY <1>4, <1>5, <1>6, <1>7 DEF DiscoveredNode, NewNode, Uninterviewed
<1>10. DeadIsFresh'
  BY <1>6, <1>9 DEF PeerInv, DeadIsFresh, Handle
<1>11. Peers'
  <2>1. OwnNode(m)'
    BY <1>1, <1>2, <1>4, <1>6, <1>9 DEF OwnNode
  <2>2. DeviceNode(h)'
    BY <1>3, <1>5, <1>9 DEF DeviceNode, Uninterviewed
  <2>3. ASSUME NEW k \in live \ {m} PROVE DeviceNode(k)'
    BY <1>1, <1>4, <1>9 DEF DeviceNode
  <2> QED BY <1>1, <1>6, <2>1, <2>2, <2>3 DEF Peers
<1>12. Waiting'
  <2> DEFINE p == [node |-> h, after |-> Delay]
             n == Len(pending)
  <2>1. pending \in Seq(PendingEntry) /\ p \in PendingEntry /\ n \in Nat
    BY <1>4, NwAssumption, LenProperties DEF TypeOK, PendingEntry
  <2>2. /\ Len(pending') = n + 1 /\ pending'[n + 1] = p
        /\ \A i \in 1 .. n : pending'[i] = pending[i]
    BY <1>6, <2>1, AppendProperties
  <2>3. p.node = h
    OBVIOUS
  <2> HIDE DEF p, n
  <2>4. \A i \in 1 .. Len(pending') : i \in 1 .. n \/ i = n + 1
    BY <2>1, <2>2
  <2>5. ASSUME NEW i \in 1 .. n
        PROVE  /\ pending'[i].node = pending[i].node /\ pending[i].node \in Handle
               /\ pending[i].node <= lastHandle /\ pending[i].node # h /\ pending[i].node <= h
    <3>1. pending[i] \in PendingEntry
      BY <2>1, ElementOfSeq DEF n
    <3>2. pending[i].node \in Nat
      BY <3>1, NodeTypes DEF PendingEntry
    <3>3. pending[i].node <= lastHandle
      BY DEF PeerInv, Waiting, n
    <3> QED BY <1>4, <1>8, <2>2, <3>1, <3>2, <3>3 DEF PendingEntry
  <2>6. ASSUME NEW i \in 1 .. n, pending[i].node \in live'
        PROVE  Uninterviewed(attrs'[pending[i].node])
    BY <1>6, <1>9, <2>5, <2>6 DEF PeerInv, Waiting, n
  <2>7. \A i, j \in 1 .. n : pending[i].node = pending[j].node => i = j
    BY DEF PeerInv, Waiting, n
  <2>8. ASSUME NEW i \in 1 .. Len(pending')
        PROVE  /\ pending'[i].node <= lastHandle'
               /\ pending'[i].node \in live' => Uninterviewed(attrs'[pending'[i].node])
    BY <1>6, <1>8, <1>9, <2>2, <2>3, <2>4, <2>5, <2>6
  <2>9. ASSUME NEW i \in 1 .. Len(pending'), NEW j \in 1 .. Len(pending'),
               pending'[i].node = pending'[j].node
        PROVE  i = j
    BY <2>2, <2>3, <2>4, <2>5, <2>7, <2>9
  <2> QED BY <2>8, <2>9 DEF Waiting
<1> QED BY <1>10, <1>11, <1>12 DEF PeerInv

(* A goodbye takes a device out, never the MPC's own node, and its entry with it. *)
LEMMA GoodbyeStep ==
  ASSUME NoOwnGoodbye, TypeOK, PeerInv, NEW e \in Entry, Goodbye(e)
  PROVE  PeerInv'
<1>1. PICK m \in live : OwnNode(m) /\ \A k \in live \ {m} : DeviceNode(k)
  BY DEF PeerInv, Peers
<1>2. PICK h \in Owners(e) : mpc_node_removal_handle(h)
  BY DEF Goodbye
<1>3. /\ fabrics' = fabrics /\ fabrics # {} /\ lastHandle' = lastHandle /\ e[2] # Mpc
  BY DEF Goodbye, NoOwnGoodbye, netVars
<1>4. h \in live /\ e \in attrs[h].entries
  BY DEF Owners
<1>5. h # m
  BY <1>1, <1>3, <1>4 DEF OwnNode, MpcEntry
<1>6. live \subseteq Handle /\ m \in Handle /\ h \in Handle
  BY <1>1, <1>4 DEF TypeOK
<1> DEFINE at == {i \in 1 .. Len(pending) : pending[i].node = h}
<1>7. /\ pending' = IF at # {} THEN RemoveAt(pending, Min(at)) ELSE pending
      /\ \/ UNCHANGED <<live, attrs>>
         \/ live' = live \ {h} /\ attrs' = Deleted(attrs, {h})
  BY <1>2 DEF mpc_node_removal_handle
<1>8. /\ live' \subseteq live /\ m \in live'
      /\ \A k \in live' : attrs'[k] = attrs[k]
      /\ \A k \in Handle \ live' : attrs'[k] = NewNode
  <2>1. CASE UNCHANGED <<live, attrs>>
    BY <1>1, <2>1 DEF PeerInv, DeadIsFresh
  <2>2. CASE live' = live \ {h} /\ attrs' = Deleted(attrs, {h})
    BY <1>1, <1>5, <1>6, <2>2 DEF Deleted, PeerInv, DeadIsFresh
  <2> QED BY <1>7, <2>1, <2>2
<1>9. DeadIsFresh' /\ Peers'
  <2>1. DeadIsFresh'
    BY <1>8 DEF DeadIsFresh, Handle
  <2>2. OwnNode(m)' /\ \A k \in live' \ {m} : DeviceNode(k)'
    BY <1>1, <1>3, <1>8 DEF OwnNode, DeviceNode
  <2> QED BY <1>8, <2>1, <2>2 DEF Peers
<1>10. Waiting'
  <2>1. pending \in Seq(PendingEntry) /\ Len(pending) \in Nat
    BY LenProperties DEF TypeOK
  <2>2. CASE at = {}
    <3>1. pending' = pending
      BY <1>7, <2>2
    <3> QED BY <1>3, <1>8, <3>1 DEF PeerInv, Waiting
  <2>3. CASE at # {}
    <3> DEFINE k == Min(at)
               from(i) == IF i < k THEN i ELSE i + 1
    <3>1. k \in 1 .. Len(pending)
      <4>1. at \subseteq Nat
        OBVIOUS
      <4>2. k \in at
        <5> HIDE DEF at
        <5> QED BY <2>3, <4>1, MinOfNaturals
      <4> QED BY <4>2
    <3>2. pending' = RemoveAt(pending, k)
      BY <1>7, <2>3
    <3> HIDE DEF k, at
    <3>3. /\ Len(pending') = Len(pending) - 1
          /\ \A i \in 1 .. Len(pending') : pending'[i] = pending[from(i)]
      BY <2>1, <3>1, <3>2, RemoveAtEntries
    <3>4. \A i \in 1 .. Len(pending') : from(i) \in 1 .. Len(pending)
      BY <2>1, <3>1, <3>3
    <3>5. \A i, j \in 1 .. Len(pending') : from(i) = from(j) => i = j
      BY <2>1, <3>1, <3>3
    <3> HIDE DEF from
    <3>6. ASSUME NEW i \in 1 .. Len(pending')
          PROVE  /\ pending'[i].node <= lastHandle'
                 /\ pending'[i].node \in live' => Uninterviewed(attrs'[pending'[i].node])
      <4>1. PICK j \in 1 .. Len(pending) : pending'[i] = pending[j]
        BY <3>3, <3>4
      <4> QED BY <1>3, <1>8, <4>1 DEF PeerInv, Waiting
    <3>7. ASSUME NEW i \in 1 .. Len(pending'), NEW j \in 1 .. Len(pending'),
                 pending'[i].node = pending'[j].node
          PROVE  i = j
      <4>1. pending[from(i)].node = pending[from(j)].node
        BY <3>3, <3>7
      <4>2. from(i) = from(j)
        BY <3>4, <4>1 DEF PeerInv, Waiting
      <4> QED BY <3>5, <4>2
    <3> QED BY <3>6, <3>7 DEF Waiting
  <2> QED BY <2>2, <2>3
<1> QED BY <1>9, <1>10 DEF PeerInv

(* The fabric table adds or updates the fabric: the MPC's own node gets its entry. *)
LEMMA FabricUpdatedStep ==
  ASSUME OneFabric, DistinctText, TypeOK, PeerInv, NEW f \in FabricIndexes, OnFabricUpdated(f)
  PROVE  /\ PeerInv'
         /\ \A h \in live : attrs[h].ep0 # "bare" => attrs'[h] = attrs[h]
         /\ \A h \in live : attrs[h].ep0 = "bare" => attrs[h].entries \subseteq {MpcEntry(1)}
<1>1. PICK m \in live : OwnNode(m) /\ \A k \in live \ {m} : DeviceNode(k)
  BY DEF PeerInv, Peers
<1>2. /\ fabrics \cup {f} = {1} /\ fabrics' = {1}
      /\ live' = live /\ pending' = pending /\ lastHandle' = lastHandle
      /\ attrs' = find_mpc_and_update_networklist(live, attrs, {1}, {})
  BY DEF OnFabricUpdated, OneFabric, TypeOK
<1>3. MpcNodes(live, attrs, {1}) = {m}
  BY <1>1, FoundIsOwn
<1>4. live \subseteq Handle /\ m \in Handle /\ attrs \in [Handle -> Node]
  BY <1>1 DEF TypeOK
<1>5. /\ \A h \in Handle \ {m} : attrs'[h] = attrs[h]
      /\ attrs'[m].ep0 = attrs[m].ep0
      /\ attrs'[m].list = "reported" /\ attrs'[m].entries = {MpcEntry(1)}
  <2>1. Rewritten(attrs', attrs, m, {1} \ {}) /\ {1} \ {} = {1}
    BY <1>2, <1>3, <1>4, FoundIsRewritten
  <2>2. Rewritten(attrs', attrs, m, {1})
    BY <2>1
  <2> QED BY <2>2 DEF Rewritten
<1>6. DeadIsFresh'
  BY <1>1, <1>2, <1>5 DEF PeerInv, DeadIsFresh, Handle
<1>7. OwnNode(m)'
  BY <1>1, <1>2, <1>5 DEF OwnNode
<1>8. ASSUME NEW k \in live \ {m} PROVE DeviceNode(k)'
  BY <1>1, <1>4, <1>5 DEF DeviceNode
<1>10. Waiting'
  <2>1. attrs[m].ep0 = "bare"
    BY <1>1 DEF OwnNode
  <2> QED BY <1>2, <1>4, <1>5, <2>1, WaitingKept DEF PeerInv
<1>11. \A h \in live : attrs[h].ep0 # "bare" => attrs'[h] = attrs[h]
  BY <1>1, <1>4, <1>5 DEF OwnNode
<1>12. \A h \in live : attrs[h].ep0 = "bare" => attrs[h].entries \subseteq {MpcEntry(1)}
  BY <1>1 DEF OwnNode, DeviceNode
<1> QED BY <1>2, <1>6, <1>7, <1>8, <1>10, <1>11, <1>12 DEF PeerInv, Peers

(* The fabric is removed: its devices are deleted, and the MPC's own node, whose list *)
(* has lost its last entry, is not.                                                   *)
LEMMA FabricRemovedStep ==
  ASSUME OneFabric, DistinctText, TypeOK, PeerInv, NEW f \in FabricIndexes, FabricWillBeRemoved(f)
  PROVE  PeerInv'
<1> DEFINE at == find_mpc_and_update_networklist(live, attrs, fabrics, {f})
           gone == {h \in live : at[h].list = "reported"}
<1>1. PICK m \in live : OwnNode(m) /\ \A k \in live \ {m} : DeviceNode(k)
  BY DEF PeerInv, Peers
<1>2. /\ f = 1 /\ fabrics = {1} /\ fabrics' = {}
      /\ live' = live \ gone /\ attrs' = Deleted(at, gone)
      /\ pending' = pending /\ lastHandle' = lastHandle
  BY DEF FabricWillBeRemoved, OneFabric, TypeOK
<1>3. MpcNodes(live, attrs, {1}) = {m}
  BY <1>1, FoundIsOwn
<1>4. live \subseteq Handle /\ m \in Handle /\ attrs \in [Handle -> Node]
  BY <1>1 DEF TypeOK
<1>5. attrs[m].list = "reported" /\ attrs[m].ep0 = "bare"
  BY <1>1, <1>2 DEF OwnNode
<1>6. /\ \A h \in Handle \ {m} : at[h] = attrs[h]
      /\ at[m].ep0 = "bare" /\ at[m].list = "undefined" /\ at[m].entries = {}
  <2>1. Rewritten(at, attrs, m, {1} \ {1}) /\ {1} \ {1} = {}
    BY <1>2, <1>3, <1>4, FoundIsRewritten
  <2>2. Rewritten(at, attrs, m, {})
    BY <2>1
  <2> QED BY <1>5, <2>2 DEF Rewritten
<1>7. gone = live \ {m}
  BY <1>1, <1>4, <1>6 DEF DeviceNode
<1>8. live' = {m}
  BY <1>1, <1>2, <1>7
<1> HIDE DEF at, gone
<1>9. attrs'[m] = at[m] /\ \A h \in Handle \ {m} : attrs'[h] = NewNode
  BY <1>1, <1>2, <1>4, <1>6, <1>7 DEF Deleted, PeerInv, DeadIsFresh
<1>10. DeadIsFresh'
  BY <1>8, <1>9 DEF DeadIsFresh, Handle
<1>11. OwnNode(m)'
  BY <1>2, <1>6, <1>8, <1>9 DEF OwnNode
<1>13. Waiting'
  BY <1>1, <1>2, <1>5, <1>8, WaitingKept DEF PeerInv
<1> QED BY <1>8, <1>10, <1>11, <1>13 DEF PeerInv, Peers

(* A restart keeps the store of a controller that is in its fabric, and builds the *)
(* MPC's own node anew for one that is not.  Nobody waits for an interview then.   *)
LEMMA RestartStep ==
  ASSUME TypeOK, PeerInv, mpc_nw_monitor_init
  PROVE  PeerInv'
<1>1. PICK m \in live : OwnNode(m) /\ \A k \in live \ {m} : DeviceNode(k)
  BY DEF PeerInv, Peers
<1>2. pending' = <<>> /\ fabrics' = fabrics
  BY DEF mpc_nw_monitor_init
<1>3. Waiting'
  BY <1>2 DEF Waiting
<1>4. CASE fabrics # {}
  <2>1. /\ live' = live
        /\ attrs' = [h \in Handle |-> [attrs[h] EXCEPT !.listener = (h \in live)]]
    BY <1>1, <1>4 DEF mpc_nw_monitor_init
  <2>2. ASSUME NEW h \in Handle
        PROVE  /\ attrs'[h].list = attrs[h].list /\ attrs'[h].entries = attrs[h].entries
               /\ attrs'[h].ep0 = attrs[h].ep0
    BY <2>1 DEF TypeOK, Node
  <2>3. DeadIsFresh'
    <3>1. [NewNode EXCEPT !.listener = FALSE] = NewNode
      <4>1. NewNode.listener = FALSE
        BY DEF NewNode
      <4>2. \A r \in Node : [r EXCEPT !.listener = r.listener] = r
        BY DEF Node
      <4> QED BY <4>1, <4>2, NodeTypes
    <3>2. ASSUME NEW h \in Handle \ live PROVE attrs'[h] = NewNode
      <4>1. attrs'[h] = [attrs[h] EXCEPT !.listener = (h \in live)] /\ (h \in live) = FALSE
        BY <2>1
      <4>2. attrs[h] = NewNode
        BY DEF PeerInv, DeadIsFresh
      <4> QED BY <3>1, <4>1, <4>2
    <3> QED BY <2>1, <3>2 DEF DeadIsFresh, Handle
  <2>4. Peers'
    BY <1>2, <1>4, <2>1, <2>2, PeersKept DEF TypeOK, PeerInv
  <2> QED BY <1>3, <2>3, <2>4 DEF PeerInv
<1>5. CASE fabrics = {}
  <2>1. /\ live' = {1} /\ \A h \in Handle \ {1} : attrs'[h] = NewNode
        /\ attrs'[1].ep0 = "bare" /\ attrs'[1].list # "reported"
        /\ attrs'[1].entries = {MpcEntry(f) : f \in fabrics}
    BY <1>5, RestartCases
  <2>2. attrs'[1].entries = {}
    BY <1>5, <2>1
  <2>3. DeadIsFresh'
    BY <2>1 DEF DeadIsFresh, Handle
  <2>4. OwnNode(1)'
    BY <1>2, <1>5, <2>1, <2>2 DEF OwnNode
  <2> QED BY <1>3, <2>1, <2>3, <2>4 DEF PeerInv, Peers
<1> QED BY <1>4, <1>5

(* An interview starts: the node at the head is still a device, the MPC's own node is *)
(* beside it and the fabric is there, so its endpoint 0 gets the descriptor lists.    *)
LEMMA InterviewStep ==
  ASSUME OneFabric, TypeOK, PeerInv, mpc_start_next_pending_interview
  PROVE  PeerInv'
<1>1. PICK m \in live : OwnNode(m) /\ \A k \in live \ {m} : DeviceNode(k)
  BY DEF PeerInv, Peers
<1>2. live' = live /\ lastHandle' = lastHandle /\ fabrics' = fabrics
  BY DEF mpc_start_next_pending_interview, netVars
<1>3. CASE attrs' = attrs /\ pending' = pending
  BY <1>2, <1>3, QuietStep DEF storeVars
<1>4. CASE pending # <<>> /\ Head(pending).node \in live
  <2>0. PICK h : h = Head(pending).node
    OBVIOUS
  <2>1. /\ pending \in Seq(PendingEntry) /\ Len(pending) \in Nat \ {0}
        /\ Head(pending) = pending[1]
        /\ Tail(pending) \in Seq(PendingEntry) /\ Len(Tail(pending)) = Len(pending) - 1
        /\ \A i \in 1 .. Len(pending) - 1 : Tail(pending)[i] = pending[i + 1]
    BY <1>4, HeadTailProperties, EmptySeq, LenProperties DEF TypeOK
  <2>2. h \in live /\ attrs[h].ep0 = "none" /\ ~ attrs[h].listener
    BY <1>4, <2>0, <2>1 DEF PeerInv, Waiting, Uninterviewed
  <2>3. h # m /\ DeviceNode(h) /\ fabrics = {1}
    <3>1. h # m
      BY <1>1, <2>2 DEF OwnNode
    <3>2. fabrics # {}
      BY <1>1, <2>2, <3>1 DEF OwnNode
    <3> QED BY <1>1, <2>2, <3>1, <3>2 DEF OneFabric, TypeOK
  <2>4. mpc_on_ep_change_cb(h)
    <3>1. Cardinality(live) > 1
      <4>1. IsFiniteSet(live)
        <5>1. IsFiniteSet(1 .. MaxHandle)
          BY FS_Interval, NwAssumption
        <5> QED BY <5>1, FS_Subset DEF TypeOK, Handle
      <4>2. Cardinality(live) \in Nat
        BY <4>1, FS_CardinalityType
      <4>3. Cardinality(live) # 0
        BY <1>1, <4>1, FS_EmptySet
      <4>4. Cardinality(live) # 1
        BY <1>1, <2>2, <2>3, <4>1, FS_Singleton
      <4> QED BY <4>2, <4>3, <4>4
    <3>2. attrs[h].list = "reported" /\ \A e \in attrs[h].entries : e[2] # Mpc
      BY <2>3 DEF DeviceNode
    <3> QED BY <2>3, <3>1, <3>2 DEF mpc_on_ep_change_cb
  <2>5. /\ attrs' = [attrs EXCEPT ![h].listener = TRUE, ![h].ep0 = "descriptor"]
        /\ pending' = Tail(pending)
    BY <1>4, <2>0, <2>2, <2>4 DEF mpc_start_next_pending_interview
  <2>6. /\ h \in Handle /\ live \subseteq Handle /\ attrs[h] \in Node /\ DOMAIN attrs = Handle
    BY <2>2 DEF TypeOK
  <2>7. /\ attrs'[h].list = attrs[h].list /\ attrs'[h].entries = attrs[h].entries
        /\ attrs'[h].ep0 = "descriptor" /\ attrs'[h].listener
        /\ \A k \in Handle \ {h} : attrs'[k] = attrs[k]
    BY <2>5, <2>6 DEF Node
  <2>8. DeadIsFresh'
    BY <1>2, <2>2, <2>7 DEF PeerInv, DeadIsFresh, Handle
  <2>9. Peers'
    BY <1>2, <2>2, <2>3, <2>6, <2>7, PeersKept DEF PeerInv
  <2>10. Waiting'
    <3>1. \A i \in 1 .. Len(pending') :
            i + 1 \in 1 .. Len(pending) /\ i + 1 # 1 /\ 1 \in 1 .. Len(pending)
      BY <2>1, <2>5
    <3>2. \A i \in 1 .. Len(pending') : pending'[i] = pending[i + 1]
      BY <2>1, <2>5
    <3>3. ASSUME NEW i \in 1 .. Len(pending')
          PROVE  /\ pending'[i].node # h /\ pending'[i].node <= lastHandle'
                 /\ pending'[i].node \in live' => Uninterviewed(attrs'[pending'[i].node])
      <4>1. PICK j \in 1 .. Len(pending) : pending'[i] = pending[j] /\ j # 1
        BY <3>1, <3>2
      <4>2. pending[j].node # h
        BY <2>0, <2>1, <3>1, <4>1 DEF PeerInv, Waiting
      <4> QED BY <1>2, <2>6, <2>7, <4>1, <4>2 DEF PeerInv, Waiting
    <3>4. ASSUME NEW i \in 1 .. Len(pending'), NEW j \in 1 .. Len(pending'),
                 pending'[i].node = pending'[j].node
          PROVE  i = j
      <4>1. i + 1 = j + 1
        BY <3>1, <3>2, <3>4 DEF PeerInv, Waiting
      <4> QED BY <4>1
    <3> QED BY <3>3, <3>4 DEF Waiting
  <2> QED BY <2>8, <2>9, <2>10 DEF PeerInv
<1> QED BY <1>3, <1>4 DEF mpc_start_next_pending_interview

-----------------------------------------------------------------------------
(* The theorems *)

(* The first start: the MPC's own node and nothing else. *)
LEMMA InitPeerInv == Init => PeerInv
<1> SUFFICES ASSUME Init PROVE PeerInv
  OBVIOUS
<1>1. attrs[1] = [NewNode EXCEPT !.ep0 = "bare"] /\ \A h \in Handle \ {1} : attrs[h] = NewNode
  BY NodeTypes DEF Init
<1>2. DeadIsFresh
  BY <1>1 DEF Init, DeadIsFresh
<1>3. OwnNode(1)
  <2>1. /\ attrs[1].ep0 = "bare" /\ attrs[1].list = "absent" /\ attrs[1].entries = {}
    BY <1>1 DEF NewNode
  <2> QED BY <2>1 DEF Init, OwnNode
<1>5. Waiting
  BY DEF Init, Waiting
<1> QED BY <1>2, <1>3, <1>5 DEF Init, PeerInv, Peers

(* Every step keeps the invariant. *)
LEMMA PeerInvStep ==
  ASSUME OneFabric, DistinctText, NoOwnGoodbye, TypeOK, PeerInv, [Next]_vars
  PROVE  PeerInv'
<1>1. ASSUME NEW e \in Entry, AddNode(e) \/ Goodbye(e) PROVE PeerInv'
  BY <1>1, AddStep, GoodbyeStep
<1>2. ASSUME NEW f \in FabricIndexes, OnFabricUpdated(f) \/ FabricWillBeRemoved(f) PROVE PeerInv'
  BY <1>2, FabricUpdatedStep, FabricRemovedStep
<1>3. CASE CommissioningComplete \/ call_unify_event_queue
  BY <1>3, QuietStep DEF CommissioningComplete, call_unify_event_queue, netVars
<1>4. CASE mpc_nw_monitor_init
  BY <1>4, RestartStep
<1>5. CASE ContikiStep
  <2>1. CASE TimerExpires \/ TimerSet \/ MainLoopReturns
    BY <2>1, QuietStep DEF TimerExpires, TimerSet, MainLoopReturns, netVars
  <2> QED BY <1>5, <2>1, InterviewStep DEF ContikiStep
<1>6. CASE Tick
  BY <1>6, TickStep
<1>7. ASSUME NEW h \in live, ResolutionCompletion(h) \/ MarkFailing(h) \/ Recovery(h) PROVE PeerInv'
  BY <1>7, StatusStep
<1>8. CASE UNCHANGED vars
  BY <1>8, QuietStep DEF vars, netVars
<1> QED BY <1>1, <1>2, <1>3, <1>4, <1>5, <1>6, <1>7, <1>8 DEF Next

(* The invariant holds throughout. *)
LEMMA PeerInvariant == ASSUME OneFabric, DistinctText, NoOwnGoodbye PROVE Spec => []PeerInv
<1>1. TypeOK /\ PeerInv /\ [Next]_vars => PeerInv'
  BY PeerInvStep
<1> QED BY <1>1, InitPeerInv, TypeCorrect, PTL DEF Spec

(* A node in pending_interviews is not published as interviewed when its turn comes,   *)
(* and no recovery can publish it so: late answers to commands take it offline and     *)
(* back, but completions and fabric updates have not reached it.                       *)
THEOREM WaitingIsUnpublished ==
  ASSUME OneFabric, DistinctText, NoOwnGoodbye PROVE Spec => []PendingUnpublished
<1>1. PeerInv => PendingUnpublished
  BY DEF PeerInv, Waiting, Uninterviewed, PendingUnpublished
<1> QED BY <1>1, PeerInvariant, PTL

(* A change of the fabric table rewrites the list and the status of the MPC's own *)
(* node and of no device.                                                         *)
THEOREM UpdatesTouchOwnNode ==
  ASSUME OneFabric, DistinctText, NoOwnGoodbye PROVE Spec => FabricUpdateTouchesMpcOnly
<1> DEFINE A == \A f \in FabricIndexes : OnFabricUpdated(f) =>
                  \A h \in live : (\A e \in attrs[h].entries : e[2] # Mpc) /\ attrs[h].entries # {}
                                    => attrs'[h] = attrs[h]
<1>1. TypeOK /\ PeerInv => A
  <2> SUFFICES ASSUME TypeOK, PeerInv, NEW f \in FabricIndexes, OnFabricUpdated(f), NEW h \in live,
                      \A e \in attrs[h].entries : e[2] # Mpc, attrs[h].entries # {}
               PROVE  attrs'[h] = attrs[h]
    OBVIOUS
  <2>1. ~ (attrs[h].entries \subseteq {MpcEntry(1)})
    BY DEF MpcEntry
  <2> QED BY <2>1, FabricUpdatedStep
<1>2. TypeOK /\ PeerInv => [A]_vars
  BY <1>1
<1> QED BY <1>2, TypeCorrect, PeerInvariant, PTL DEF FabricUpdateTouchesMpcOnly
=============================================================================
