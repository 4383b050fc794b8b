------------------------- MODULE NodeMonitorProofs -------------------------
(***************************************************************************)
(* Proofs about NodeMonitor, for any nodes, objects, batch sizes and       *)
(* times: its state keeps its type, the failing node table names no online *)
(* node, the published states are those of NodeLifecycle, a goodbye leaves *)
(* no subscription behind, a subscription is tried again at most once, and *)
(* the recovery after boot goes on while there is something to recover.    *)
(*                                                                         *)
(* The callbacks are operators on a record of the state.  So are the       *)
(* lemmas: what each operator does to the status and to the invariant,     *)
(* first alone, then composed as the callbacks compose them.               *)
(***************************************************************************)
EXTENDS NodeMonitor, FiniteSetTheorems, SequenceTheorems, TLAPS

\* The records the callbacks' operators work on.
WorldType ==
  [status : [Nodes -> Status], prev : [Nodes -> Saved], db : [Nodes -> Nat \cup {None}],
   ongoing : [Nodes -> Objects \cup {None}], obj : [Objects -> Object]]

\* What ties the parts of w together, b being the last online states: an online node
\* has the state b knows; the saved state of an offline one is that state, unless a
\* second failure or a failed recovery has spoilt it; a row of the table belongs to a
\* node that is not online; an object in use has a node.
Consistent(w, b) ==
  /\ \A n \in Nodes : w.status[n] \in Online => w.status[n] = b[n]
  /\ \A n \in Nodes : w.status[n] = "offline" => w.prev[n] \in {b[n], "offline", "none"}
  /\ \A n \in Nodes : w.db[n] # None => w.status[n] \in {"offline", "gone"}
  /\ \A i \in Objects : w.obj[i].st # "free" => w.obj[i].node \in Nodes

\* The inductive invariant.
IInv == TypeOK /\ Consistent(World, before)

\* Objects in use stay as they are from w to v.
KeepsObjects(w, v) == \A i \in Objects : w.obj[i].st # "free" => v.obj[i] = w.obj[i]

\* v is what w becomes when node n fails, or is already offline or gone.
Failed(w, v, n) ==
  /\ v \in WorldType /\ Consistent(v, before) /\ KeepsObjects(w, v)
  /\ \/ v.status = w.status
     \/ w.status[n] \in Online /\ v.status = [w.status EXCEPT ![n] = "offline"]

\* What mpc_mark_device_as_failing changes, field by field.
LEMMA MarkFields ==
  ASSUME NEW w \in WorldType, NEW n \in Nodes, NEW now \in Nat
  PROVE  LET m == mpc_mark_device_as_failing(w, n, now)
         IN  /\ m \in WorldType /\ m.obj = w.obj /\ m.ongoing = w.ongoing
             /\ w.status[n] = "gone" => m = w
             /\ w.status[n] # "gone" =>
                  /\ m.status = [w.status EXCEPT ![n] = "offline"]
                  /\ m.prev = [w.prev EXCEPT ![n] = w.status[n]]
                  /\ \A k \in Nodes : k # n => m.db[k] = w.db[k]
  <1> DEFINE marked == [w EXCEPT !.prev[n] = w.status[n], !.status[n] = "offline"]
             m == mpc_mark_device_as_failing(w, n, now)
  <1>1. w.status \in [Nodes -> Status] /\ w.prev \in [Nodes -> Saved] /\ w.db \in [Nodes -> Nat \cup {None}]
        /\ w.ongoing \in [Nodes -> Objects \cup {None}] /\ w.obj \in [Objects -> Object]
    BY DEF WorldType
  <1>2. CASE w.status[n] = "gone"
    BY <1>2 DEF mpc_mark_device_as_failing
  <1>3. CASE w.status[n] # "gone"
    <2>1. w.status[n] \in Saved /\ "offline" \in Status
      BY <1>1, <1>3 DEF Status, Saved, Online
    <2>2. /\ marked \in WorldType /\ marked.obj = w.obj /\ marked.ongoing = w.ongoing
          /\ marked.db = w.db
          /\ marked.status = [w.status EXCEPT ![n] = "offline"]
          /\ marked.prev = [w.prev EXCEPT ![n] = w.status[n]]
      BY <1>1, <2>1 DEF WorldType
    <2>3. m = IF w.status[n] \notin {"interviewing", "nonfunctional"}
              THEN insert_failing_node(marked, n, now) ELSE marked
      BY <1>3 DEF mpc_mark_device_as_failing
    <2>4. CASE m = marked
      BY <1>3, <2>2, <2>4
    <2>5. CASE m = insert_failing_node(marked, n, now)
      <3> DEFINE row == IF marked.db[n] = None THEN now ELSE marked.db[n]
      <3>1. m = [marked EXCEPT !.db = [marked.db EXCEPT ![n] = row]]
        BY <2>5 DEF insert_failing_node
      <3>2. row \in Nat \cup {None}
        BY <1>1, <2>2
      <3>3. [marked.db EXCEPT ![n] = row] \in [Nodes -> Nat \cup {None}]
        BY <1>1, <2>2, <3>2
      <3>4. /\ m \in WorldType /\ m.obj = marked.obj /\ m.ongoing = marked.ongoing
            /\ m.status = marked.status /\ m.prev = marked.prev
            /\ m.db = [marked.db EXCEPT ![n] = row]
        BY <2>2, <3>1, <3>3 DEF WorldType
      <3>5. QED
        BY <1>1, <1>3, <2>2, <3>4
    <2>6. QED
      BY <2>3, <2>4, <2>5
  <1>4. QED
    BY <1>2, <1>3

\* It takes one online node offline, or changes no status.
LEMMA MarkFails ==
  ASSUME NEW w \in WorldType, NEW n \in Nodes, Consistent(w, before), clock \in Nat
  PROVE  Failed(w, mpc_mark_device_as_failing(w, n, clock), n)
  <1> DEFINE m == mpc_mark_device_as_failing(w, n, clock)
  <1>1. /\ m \in WorldType /\ m.obj = w.obj
        /\ w.status[n] = "gone" => m = w
        /\ w.status[n] # "gone" =>
             /\ m.status = [w.status EXCEPT ![n] = "offline"]
             /\ m.prev = [w.prev EXCEPT ![n] = w.status[n]]
             /\ \A k \in Nodes : k # n => m.db[k] = w.db[k]
    BY MarkFields
  <1> HIDE DEF m
  <1>2. w.status \in [Nodes -> Status] /\ w.prev \in [Nodes -> Saved]
    BY DEF WorldType
  <1>3. CASE w.status[n] = "gone"
    BY <1>1, <1>3 DEF Failed, KeepsObjects, m
  <1>4. CASE w.status[n] # "gone"
    <2>1. w.status[n] \in Online \/ w.status[n] = "offline"
      BY <1>2, <1>4 DEF Status
    <2>2. m.status = w.status \/ (w.status[n] \in Online /\ m.status = [w.status EXCEPT ![n] = "offline"])
      BY <1>1, <1>2, <1>4, <2>1
    <2>3. \A k \in Nodes : m.status[k] \in Online => m.status[k] = before[k]
      BY <1>1, <1>2, <1>4 DEF Consistent, Online
    <2>4. \A k \in Nodes : m.status[k] = "offline" => m.prev[k] \in {before[k], "offline", "none"}
      BY <1>1, <1>2, <1>4, <2>1 DEF Consistent
    <2>5. \A k \in Nodes : m.db[k] # None => m.status[k] \in {"offline", "gone"}
      BY <1>1, <1>2, <1>4 DEF Consistent
    <2>6. QED
      BY <1>1, <2>2, <2>3, <2>4, <2>5 DEF Failed, KeepsObjects, Consistent, m
  <1>5. QED
    BY <1>3, <1>4

\* A new subscription changes no status and uses a free object.
LEMMA InitiateKeeps ==
  ASSUME NEW w \in WorldType, NEW n \in Nodes, NEW resub \in BOOLEAN, NEW b, Consistent(w, b)
  PROVE  LET v == mpc_node_monitor_initiate_monitoring(w, n, resub)
         IN  /\ v \in WorldType /\ Consistent(v, b) /\ KeepsObjects(w, v)
             /\ v.status = w.status
  <1> DEFINE v == mpc_node_monitor_initiate_monitoring(w, n, resub)
             i == CHOOSE free \in FreeObjects(w) : TRUE
             new == [st |-> "connecting", node |-> n, resub |-> resub]
             addr == IF w.ongoing[n] = None THEN i ELSE w.ongoing[n]
  <1>1. CASE v = w
    BY <1>1 DEF KeepsObjects
  <1>2. CASE v # w
    <2>1. v = [w EXCEPT !.obj = [w.obj EXCEPT ![i] = new], !.ongoing = [w.ongoing EXCEPT ![n] = addr]]
          /\ FreeObjects(w) # {}
      BY <1>2 DEF mpc_node_monitor_initiate_monitoring
    <2>2. i \in FreeObjects(w)
      BY <2>1
    <2> HIDE DEF i
    <2>3. i \in Objects /\ w.obj[i].st = "free"
      BY <2>2 DEF FreeObjects
    <2>4. new \in Object
      BY DEF Object
    <2>5. w.ongoing \in [Nodes -> Objects \cup {None}] /\ w.obj \in [Objects -> Object]
      BY DEF WorldType
    <2>6. addr \in Objects \cup {None}
      BY <2>3, <2>5
    <2> HIDE DEF addr
    <2>7. [w.obj EXCEPT ![i] = new] \in [Objects -> Object]
          /\ [w.ongoing EXCEPT ![n] = addr] \in [Nodes -> Objects \cup {None}]
      BY <2>3, <2>4, <2>5, <2>6
    <2>8. /\ v \in WorldType /\ v.status = w.status /\ v.prev = w.prev /\ v.db = w.db
          /\ v.obj = [w.obj EXCEPT ![i] = new]
      BY <2>1, <2>7 DEF WorldType
    <2> HIDE DEF v
    <2>9. KeepsObjects(w, v)
      BY <2>3, <2>5, <2>8 DEF KeepsObjects
    <2>10. \A k \in Objects : v.obj[k].st # "free" => v.obj[k].node \in Nodes
      BY <2>3, <2>5, <2>8 DEF Consistent
    <2>11. Consistent(v, b)
      BY <2>8, <2>10 DEF Consistent
    <2>12. QED
      BY <2>8, <2>9, <2>11 DEF v
  <1>3. QED
    BY <1>1, <1>2

\* Cancelling changes no status and no object.
LEMMA CancelKeeps ==
  ASSUME NEW w \in WorldType, NEW n \in Nodes, NEW b, Consistent(w, b)
  PROVE  LET v == mpc_node_monitor_cancel_monitoring(w, n)
         IN  /\ v \in WorldType /\ Consistent(v, b) /\ KeepsObjects(w, v)
             /\ v.status = w.status
  <1> DEFINE v == mpc_node_monitor_cancel_monitoring(w, n)
  <1>1. v = [w EXCEPT !.ongoing = [w.ongoing EXCEPT ![n] = None]]
    BY DEF mpc_node_monitor_cancel_monitoring
  <1>2. [w.ongoing EXCEPT ![n] = None] \in [Nodes -> Objects \cup {None}]
    BY DEF WorldType
  <1>3. /\ v \in WorldType /\ v.status = w.status /\ v.prev = w.prev /\ v.db = w.db
        /\ v.obj = w.obj
    BY <1>1, <1>2 DEF WorldType
  <1> HIDE DEF v
  <1>4. QED
    BY <1>3 DEF Consistent, KeepsObjects, v

\* OnError, on each of its three paths, is a failure of the object's node.
LEMMA OnErrorFails ==
  ASSUME NEW w \in WorldType, NEW i \in Objects, NEW error \in Error,
         Consistent(w, before), clock \in Nat, w.obj[i].st # "free"
  PROVE  Failed(w, OnError(w, i, error), w.obj[i].node)
  <1> DEFINE n == w.obj[i].node
             v == OnError(w, i, error)
  <1>1. n \in Nodes /\ w.obj[i].resub \in BOOLEAN
    BY DEF Consistent, WorldType, Object
  <1>2. Failed(w, w, n)
    BY DEF Failed, KeepsObjects
  <1>3. Failed(w, mpc_mark_device_as_failing(w, n, clock), n)
    BY <1>1, MarkFails
  <1>4. CASE w.obj[i].resub
    BY <1>2, <1>3, <1>4 DEF OnError, check_and_mark_failing_node
  <1>5. CASE ~w.obj[i].resub /\ error = "timeout"
    <2> DEFINE c == mpc_node_monitor_cancel_monitoring(w, n)
    <2>1. v = mpc_node_monitor_initiate_monitoring(c, n, TRUE)
      BY <1>5 DEF OnError
    <2>2. c \in WorldType /\ Consistent(c, before) /\ KeepsObjects(w, c) /\ c.status = w.status
      BY <1>1, CancelKeeps
    <2> HIDE DEF c, v, n
    <2>3. v \in WorldType /\ Consistent(v, before) /\ KeepsObjects(c, v) /\ v.status = c.status
      BY <1>1, <2>1, <2>2, InitiateKeeps
    <2>4. KeepsObjects(w, v)
      BY <2>2, <2>3 DEF KeepsObjects
    <2>5. QED
      BY <2>2, <2>3, <2>4 DEF Failed, v, n
  <1>6. CASE ~w.obj[i].resub /\ error # "timeout"
    <2> DEFINE m == mpc_mark_device_as_failing(w, n, clock)
    <2>1. v = mpc_node_monitor_cancel_monitoring(m, n)
      BY <1>6 DEF OnError
    <2> HIDE DEF v, m, n
    <2>2. m \in WorldType /\ Consistent(m, before) /\ KeepsObjects(w, m)
      BY <1>3 DEF Failed, m
    <2>3. v \in WorldType /\ Consistent(v, before) /\ KeepsObjects(m, v) /\ v.status = m.status
      BY <1>1, <2>1, <2>2, CancelKeeps
    <2>4. KeepsObjects(w, v)
      BY <2>2, <2>3 DEF KeepsObjects
    <2>5. QED
      BY <1>3, <2>3, <2>4 DEF Failed, v, m, n
  <1>7. QED
    BY <1>4, <1>5, <1>6

\* v is what w becomes when a message arrives from node n.
Recovered(w, v, n) ==
  /\ v \in WorldType /\ Consistent(v, before)
  /\ \/ v.status = w.status
     \/ w.status[n] = "offline" /\ v.status = [w.status EXCEPT ![n] = before[n]]

\* mpc_failing_node_recovery brings a node back to its last online state or
\* leaves its status alone: a spoilt saved state is never one of the others.
LEMMA RecoveryRecovers ==
  ASSUME NEW w \in WorldType, NEW n \in Nodes, Consistent(w, before), before \in [Nodes -> Online]
  PROVE  Recovered(w, mpc_failing_node_recovery(w, n), n)
  <1> DEFINE v == mpc_failing_node_recovery(w, n)
  <1>1. CASE v = w
    BY <1>1 DEF Recovered
  <1>2. CASE v # w
    <2>1. /\ v = [w EXCEPT !.status = [w.status EXCEPT ![n] = w.prev[n]],
                           !.prev = [w.prev EXCEPT ![n] = "none"], !.db = [w.db EXCEPT ![n] = None]]
          /\ w.status[n] = "offline" /\ w.prev[n] # "none"
      BY <1>2 DEF mpc_failing_node_recovery
    <2>2. /\ w.status \in [Nodes -> Status] /\ w.prev \in [Nodes -> Saved]
          /\ w.db \in [Nodes -> Nat \cup {None}]
      BY DEF WorldType
    <2>3. w.prev[n] \in {before[n], "offline"} /\ before[n] \in Online
      BY <2>1 DEF Consistent
    <2>4. w.prev[n] \in Status /\ "none" \in Saved
      BY <2>3 DEF Status, Saved
    <2>5. /\ [w.status EXCEPT ![n] = w.prev[n]] \in [Nodes -> Status]
          /\ [w.prev EXCEPT ![n] = "none"] \in [Nodes -> Saved]
          /\ [w.db EXCEPT ![n] = None] \in [Nodes -> Nat \cup {None}]
      BY <2>2, <2>4
    <2>6. /\ v \in WorldType /\ v.obj = w.obj
          /\ v.status = [w.status EXCEPT ![n] = w.prev[n]]
          /\ v.prev = [w.prev EXCEPT ![n] = "none"] /\ v.db = [w.db EXCEPT ![n] = None]
      BY <2>1, <2>5 DEF WorldType
    <2> HIDE DEF v
    <2>7. \/ v.status = w.status
          \/ v.status = [w.status EXCEPT ![n] = before[n]]
      BY <2>1, <2>2, <2>3, <2>6
    <2>8. \A k \in Nodes : v.status[k] \in Online => v.status[k] = before[k]
      BY <2>2, <2>3, <2>6 DEF Consistent, Online
    <2>9. \A k \in Nodes : v.status[k] = "offline" => v.prev[k] \in {before[k], "offline", "none"}
      BY <2>2, <2>6 DEF Consistent
    <2>10. \A k \in Nodes : v.db[k] # None => v.status[k] \in {"offline", "gone"}
      BY <2>2, <2>6 DEF Consistent
    <2>11. QED
      BY <2>1, <2>6, <2>7, <2>8, <2>9, <2>10 DEF Recovered, Consistent, v
  <1>3. QED
    BY <1>1, <1>2

\* The type invariant, for the record.
LEMMA WorldTyped == TypeOK => World \in WorldType /\ before \in [Nodes -> Online] /\ clock \in Nat
  BY DEF TypeOK, World, WorldType

\* A callback that leaves no node with a new online state leaves before alone and
\* keeps the invariant.
LEMMA BecomeKeeps ==
  ASSUME IInv, NEW w \in WorldType, Consistent(w, before), Become(w), UNCHANGED Rest
  PROVE  IInv' /\ before' = before /\ status' = w.status
  <1>1. before \in [Nodes -> Online]
    BY DEF IInv, TypeOK
  <1>2. before' = [n \in Nodes |-> IF w.status[n] \in Online THEN w.status[n] ELSE before[n]]
    BY DEF Become
  <1>3. \A n \in Nodes : before'[n] = before[n]
    BY <1>2 DEF Consistent
  <1>4. before' = before
    BY <1>1, <1>2, <1>3
  <1>5. /\ status' = w.status /\ prev' = w.prev /\ db' = w.db
        /\ ongoing' = w.ongoing /\ obj' = w.obj
    BY DEF Become
  <1>6. TypeOK'
    BY <1>1, <1>4, <1>5 DEF IInv, TypeOK, Rest, WorldType
  <1>7. Consistent(World, before)'
    BY <1>4, <1>5 DEF Consistent, World
  <1>8. QED
    BY <1>4, <1>5, <1>6, <1>7 DEF IInv

\* The step of the abstract life cycle, or none.
Implements == [Lifecycle!Next]_<<status, before>>

\* A callback in which a node fails is a step of the life cycle.
LEMMA FailureImplements ==
  ASSUME IInv, NEW w, NEW n \in Nodes, Failed(World, w, n), Become(w), UNCHANGED Rest
  PROVE  IInv' /\ Implements
  <1>1. IInv' /\ before' = before /\ status' = w.status
    BY BecomeKeeps DEF Failed
  <1>2. \/ status' = status
        \/ status[n] \in Online /\ status' = [status EXCEPT ![n] = "offline"]
    BY <1>1 DEF Failed, World
  <1>3. QED
    BY <1>1, <1>2 DEF Implements, Lifecycle!Next, Lifecycle!Fails, Lifecycle!Online, Online

\* A callback in which a node answers is a step of the life cycle.
LEMMA RecoveryImplements ==
  ASSUME IInv, NEW w, NEW n \in Nodes, Recovered(World, w, n), Become(w), UNCHANGED Rest
  PROVE  IInv' /\ Implements
  <1>1. IInv' /\ before' = before /\ status' = w.status
    BY BecomeKeeps DEF Recovered
  <1>2. \/ status' = status
        \/ status[n] = "offline" /\ status' = [status EXCEPT ![n] = before[n]]
    BY <1>1 DEF Recovered, World
  <1>3. QED
    BY <1>1, <1>2 DEF Implements, Lifecycle!Next, Lifecycle!Recovers

\* A callback that changes objects only.
LEMMA ObjectsOnly ==
  ASSUME IInv, NEW o \in [Objects -> Object],
         \A i \in Objects : o[i].st # "free" => o[i].node \in Nodes
  PROVE  [World EXCEPT !.obj = o] \in WorldType /\ Consistent([World EXCEPT !.obj = o], before)
         /\ [World EXCEPT !.obj = o].status = status
  <1> DEFINE w == [World EXCEPT !.obj = o]
  <1>1. World \in WorldType
    BY WorldTyped DEF IInv
  <1>2. /\ w \in WorldType /\ w.status = status /\ w.prev = prev /\ w.db = db /\ w.obj = o
    BY <1>1 DEF WorldType, World
  <1> HIDE DEF w
  <1>3. Consistent(w, before)
    BY <1>2 DEF IInv, Consistent, World
  <1>4. QED
    BY <1>2, <1>3 DEF w

-----------------------------------------------------------------------------
(* One lemma per action whose effect on the world is not one of the above. *)

\* The one callback that gives a node a new online state.
LEMMA ResolutionCompletionOK ==
  ASSUME IInv, NEW n \in Nodes, ResolutionCompletion(n)
  PROVE  IInv' /\ Implements
  <1>1. PICK st \in {"functional", "nonfunctional"} :
          Become(mpc_node_monitor_initiate_monitoring([World EXCEPT !.status[n] = st], n, FALSE))
    BY DEF ResolutionCompletion
  <1> DEFINE w == [World EXCEPT !.status[n] = st]
             b == [before EXCEPT ![n] = st]
             v == mpc_node_monitor_initiate_monitoring(w, n, FALSE)
  <1>2. World \in WorldType /\ before \in [Nodes -> Online] /\ status \in [Nodes -> Status]
    BY WorldTyped DEF IInv, TypeOK
  <1>3. st \in Online /\ st \in Status
    BY DEF Online, Status
  <1>4. status[n] \in Online /\ UNCHANGED Rest
    BY DEF ResolutionCompletion
  <1>5. [status EXCEPT ![n] = st] \in [Nodes -> Status]
    BY <1>2, <1>3
  <1>6. /\ w \in WorldType /\ w.status = [status EXCEPT ![n] = st]
        /\ w.prev = prev /\ w.db = db /\ w.obj = obj
    BY <1>2, <1>5 DEF WorldType, World
  <1>7. Consistent(w, b)
    <2> HIDE DEF w
    <2>1. \A k \in Nodes : w.status[k] \in Online => w.status[k] = b[k]
      BY <1>2, <1>6 DEF IInv, Consistent, World
    <2>2. \A k \in Nodes : w.status[k] = "offline" => w.prev[k] \in {b[k], "offline", "none"}
      BY <1>2, <1>3, <1>6 DEF IInv, Consistent, World, Online
    <2>3. \A k \in Nodes : w.db[k] # None => w.status[k] \in {"offline", "gone"}
      BY <1>2, <1>4, <1>6 DEF IInv, Consistent, World, Online
    <2>4. QED
      BY <1>6, <2>1, <2>2, <2>3 DEF IInv, Consistent, World
  <1>8. v \in WorldType /\ Consistent(v, b) /\ v.status = [status EXCEPT ![n] = st]
    <2> HIDE DEF w, b
    <2>1. QED
      BY <1>6, <1>7, InitiateKeeps
  <1> HIDE DEF v
  <1>9. /\ status' = v.status /\ prev' = v.prev /\ db' = v.db
        /\ ongoing' = v.ongoing /\ obj' = v.obj
        /\ before' = [k \in Nodes |-> IF v.status[k] \in Online THEN v.status[k] ELSE before[k]]
    BY <1>1 DEF Become, v
  <1>10. \A k \in Nodes : before'[k] = b[k]
    BY <1>2, <1>3, <1>8, <1>9 DEF IInv, Consistent, World
  <1>11. before' = b /\ b \in [Nodes -> Online]
    BY <1>2, <1>3, <1>9, <1>10
  <1>12. TypeOK'
    BY <1>4, <1>8, <1>9, <1>11 DEF IInv, TypeOK, Rest, WorldType
  <1>13. Consistent(World, before)'
    BY <1>8, <1>9, <1>11 DEF Consistent, World
  <1>14. Implements
    BY <1>4, <1>8, <1>9, <1>11 DEF Implements, Lifecycle!Next, Lifecycle!Concludes, Lifecycle!Online, Online
  <1>15. QED
    BY <1>12, <1>13, <1>14 DEF IInv

\* A subscription request that is sent.
LEMMA SubscribeSentOK ==
  ASSUME IInv, NEW i \in Objects, SubscribeSent(i)
  PROVE  IInv' /\ Implements
  <1> DEFINE o == [obj EXCEPT ![i].st = "open"]
  <1>1. obj \in [Objects -> Object] /\ obj[i].st = "connecting"
    BY DEF IInv, TypeOK, SubscribeSent
  <1>2. o \in [Objects -> Object] /\ \A k \in Objects : o[k].node = obj[k].node /\ (o[k].st = "free" => obj[k].st = "free")
    BY <1>1 DEF Object
  <1>3. \A k \in Objects : o[k].st # "free" => o[k].node \in Nodes
    <2>1. \A k \in Objects : obj[k].st # "free" => obj[k].node \in Nodes
      BY DEF IInv, Consistent, World
    <2>2. \A k \in Objects : o[k].st # "free" => obj[k].st # "free"
      BY <1>1
    <2>3. QED
      BY <1>2, <2>1, <2>2
  <1>4. Become([World EXCEPT !.obj = o]) /\ UNCHANGED Rest
    BY DEF SubscribeSent, World
  <1> HIDE DEF o
  <1>5. QED
    BY <1>2, <1>3, <1>4, ObjectsOnly, BecomeKeeps DEF Implements

\* The world in which a callback of object i finds that its client is gone.
LEMMA IdleWorld ==
  ASSUME IInv, NEW i \in Objects, obj[i].st # "free"
  PROVE  LET w == [World EXCEPT !.obj[i].st = "idle"]
         IN  /\ w \in WorldType /\ Consistent(w, before) /\ w.status = status
             /\ w.obj[i].st = "idle" /\ w.obj[i].node = obj[i].node /\ obj[i].node \in Nodes
  <1> DEFINE o == [obj EXCEPT ![i].st = "idle"]
  <1>1. obj \in [Objects -> Object]
    BY DEF IInv, TypeOK
  <1>2. o \in [Objects -> Object] /\ \A k \in Objects : o[k].node = obj[k].node
    BY <1>1 DEF Object
  <1>3. \A k \in Objects : obj[k].st # "free" => obj[k].node \in Nodes
    BY DEF IInv, Consistent, World
  <1>4. \A k \in Objects : o[k].st # "free" => o[k].node \in Nodes
    <2>1. \A k \in Objects : o[k].st # "free" => obj[k].st # "free"
      BY <1>1
    <2>2. QED
      BY <1>2, <1>3, <2>1
  <1>5. [World EXCEPT !.obj[i].st = "idle"] = [World EXCEPT !.obj = o]
    BY DEF World
  <1>6. o[i].st = "idle" /\ [World EXCEPT !.obj = o].obj = o
    BY <1>1 DEF World, Object
  <1> HIDE DEF o
  <1>7. QED
    BY <1>2, <1>3, <1>4, <1>5, <1>6, ObjectsOnly

\* The second of two OnError calls finds the object as the first one left it, and
\* the node already offline.
LEMMA SubscribeSendFailsOK ==
  ASSUME IInv, NEW i \in Objects, NEW error \in Error, SubscribeSendFails(i, error)
  PROVE  IInv' /\ Implements
  <1> DEFINE w == [World EXCEPT !.obj[i].st = "idle"]
             v == OnError(w, i, error)
             u == OnError(v, i, error)
             n == obj[i].node
  <1>1. obj[i].st # "free" /\ Become(u) /\ UNCHANGED Rest
    BY DEF SubscribeSendFails
  <1>2. /\ w \in WorldType /\ Consistent(w, before) /\ w.status = status
        /\ w.obj[i].st = "idle" /\ w.obj[i].node = n /\ n \in Nodes
    BY <1>1, IdleWorld
  <1>3. clock \in Nat /\ World.status = status
    BY DEF IInv, TypeOK, World
  <1> HIDE DEF w, v, u, n
  <1>4. Failed(w, v, n)
    BY <1>2, <1>3, OnErrorFails DEF v
  <1>5. v \in WorldType /\ Consistent(v, before) /\ v.obj[i] = w.obj[i]
    BY <1>2, <1>4 DEF Failed, KeepsObjects
  <1>6. Failed(v, u, n)
    BY <1>2, <1>3, <1>5, OnErrorFails DEF u
  <1>7. v.status = status \/ (status[n] \in Online /\ v.status = [status EXCEPT ![n] = "offline"])
    BY <1>2, <1>4 DEF Failed
  <1>8. u.status = v.status \/ (v.status[n] \in Online /\ u.status = [v.status EXCEPT ![n] = "offline"])
    BY <1>6 DEF Failed
  <1>9. u.status = status \/ (status[n] \in Online /\ u.status = [status EXCEPT ![n] = "offline"])
    <2>1. status \in [Nodes -> Status]
      BY DEF IInv, TypeOK
    <2>2. QED
      BY <1>2, <1>7, <1>8, <2>1 DEF Online
  <1>10. u \in WorldType /\ Consistent(u, before)
    BY <1>6 DEF Failed
  <1>11. IInv' /\ before' = before /\ status' = u.status
    BY <1>1, <1>10, BecomeKeeps
  <1>12. QED
    BY <1>2, <1>9, <1>11 DEF Implements, Lifecycle!Next, Lifecycle!Fails, Lifecycle!Online, Online

\* OnError, called once.
LEMMA ConnectionFailsOK ==
  ASSUME IInv, NEW i \in Objects, ConnectionFails(i)
  PROVE  IInv' /\ Implements
  <1> DEFINE w == [World EXCEPT !.obj[i].st = "idle"]
             v == OnError(w, i, "closed")
             n == obj[i].node
  <1>1. obj[i].st # "free" /\ Become(v) /\ UNCHANGED Rest
    BY DEF ConnectionFails
  <1>2. /\ w \in WorldType /\ Consistent(w, before) /\ w.status = status
        /\ w.obj[i].st = "idle" /\ w.obj[i].node = n /\ n \in Nodes
    BY <1>1, IdleWorld
  <1>3. clock \in Nat /\ "closed" \in Error
    BY DEF IInv, TypeOK, Error
  <1> HIDE DEF w, v, n
  <1>4. Failed(w, v, n)
    BY <1>2, <1>3, OnErrorFails DEF v
  <1>5. IInv' /\ before' = before /\ status' = v.status
    BY <1>1, <1>4, BecomeKeeps DEF Failed
  <1>6. status' = status \/ (status[n] \in Online /\ status' = [status EXCEPT ![n] = "offline"])
    BY <1>2, <1>4, <1>5 DEF Failed
  <1>7. QED
    BY <1>2, <1>5, <1>6 DEF Implements, Lifecycle!Next, Lifecycle!Fails, Lifecycle!Online, Online

\* OnError, then the object deletes itself.
LEMMA SubscriptionFailsOK ==
  ASSUME IInv, NEW i \in Objects, NEW error \in Error, SubscriptionFails(i, error)
  PROVE  IInv' /\ Implements
  <1> DEFINE v == OnError(World, i, error)
             u == OnDone(v, i)
             n == obj[i].node
             o == [v.obj EXCEPT ![i] = FreeObject]
  <1>1. obj[i].st # "free" /\ Become(u) /\ UNCHANGED Rest
    BY DEF SubscriptionFails
  <1>2. World \in WorldType /\ Consistent(World, before) /\ clock \in Nat
    BY WorldTyped DEF IInv
  <1>3. World.obj = obj /\ World.status = status
    BY DEF World
  <1>4. n \in Nodes
    BY <1>1, <1>2, <1>3 DEF Consistent
  <1> HIDE DEF v, n
  <1>5. Failed(World, v, n)
    BY <1>1, <1>2, <1>3, OnErrorFails DEF v, n
  <1>6. v \in WorldType /\ Consistent(v, before) /\ v.obj \in [Objects -> Object]
    BY <1>5 DEF Failed, WorldType
  <1>7. o \in [Objects -> Object] /\ \A k \in Objects : o[k].st # "free" => o[k].node \in Nodes
    BY <1>6 DEF Consistent, FreeObject, Object
  <1>8. u = [v EXCEPT !.obj = o]
    BY DEF OnDone
  <1> HIDE DEF o
  <1>9. /\ u \in WorldType /\ u.status = v.status /\ u.prev = v.prev /\ u.db = v.db /\ u.obj = o
    BY <1>6, <1>7, <1>8 DEF WorldType
  <1> HIDE DEF u
  <1>10. Consistent(u, before)
    BY <1>6, <1>7, <1>9 DEF Consistent
  <1>11. IInv' /\ before' = before /\ status' = v.status
    BY <1>1, <1>9, <1>10, BecomeKeeps
  <1>12. status' = status \/ (status[n] \in Online /\ status' = [status EXCEPT ![n] = "offline"])
    BY <1>3, <1>5, <1>11 DEF Failed
  <1>13. QED
    BY <1>4, <1>11, <1>12 DEF Implements, Lifecycle!Next, Lifecycle!Fails, Lifecycle!Online, Online

\* A report brings its object's node back.
LEMMA ReportOK ==
  ASSUME IInv, NEW i \in Objects, Report(i)
  PROVE  IInv' /\ Implements
  <1>1. World \in WorldType /\ Consistent(World, before) /\ before \in [Nodes -> Online]
    BY WorldTyped DEF IInv
  <1>2. obj[i].node \in Nodes
    BY DEF Report, IInv, Consistent, World
  <1>3. QED
    BY <1>1, <1>2, RecoveryRecovers, RecoveryImplements DEF Report

\* Answers and failures of reads and commands.
LEMMA RequestOK ==
  ASSUME IInv, NEW n \in Nodes, NEW error \in Error, RequestAnswered(n) \/ RequestFails(n, error)
  PROVE  IInv' /\ Implements
  <1>1. World \in WorldType /\ Consistent(World, before) /\ before \in [Nodes -> Online] /\ clock \in Nat
    BY WorldTyped DEF IInv
  <1>2. CASE RequestAnswered(n)
    BY <1>1, <1>2, RecoveryRecovers, RecoveryImplements DEF RequestAnswered
  <1>3. CASE RequestFails(n, error)
    <2>1. Failed(World, World, n)
      BY <1>1 DEF Failed, KeepsObjects
    <2>2. Failed(World, check_and_mark_failing_node(World, n, error, clock), n)
      BY <1>1, <2>1, MarkFails DEF check_and_mark_failing_node
    <2>3. QED
      BY <1>3, <2>2, FailureImplements DEF RequestFails
  <1>4. QED
    BY <1>2, <1>3

\* A deleted node: its status is "gone", whatever objects were freed.
LEMMA NodeRemovedOK ==
  ASSUME IInv, NEW n \in Nodes, NodeRemoved(n)
  PROVE  IInv' /\ Implements
  <1> DEFINE w == IF status[n] = "interviewing" THEN World ELSE ShutdownSubscriptions(World, n)
             v == [w EXCEPT !.status[n] = "gone", !.prev[n] = "none"]
             o == [i \in Objects |-> IF obj[i].st = "open" /\ obj[i].node = n THEN FreeObject ELSE obj[i]]
  <1>1. Become(v) /\ UNCHANGED Rest /\ status[n] \in Online
    BY DEF NodeRemoved
  <1>2. World \in WorldType /\ Consistent(World, before) /\ obj \in [Objects -> Object]
    BY WorldTyped DEF IInv, TypeOK
  <1>3. o \in [Objects -> Object] /\ \A i \in Objects : o[i].st # "free" => o[i].node \in Nodes
    BY <1>2 DEF Consistent, World, FreeObject, Object
  <1>4. ShutdownSubscriptions(World, n) = [World EXCEPT !.obj = o]
    BY DEF ShutdownSubscriptions, World
  <1> HIDE DEF o
  <1>5. w \in WorldType /\ Consistent(w, before) /\ w.status = status
    <2>1. World.status = status
      BY DEF World
    <2>2. QED
      BY <1>2, <1>3, <1>4, <2>1, ObjectsOnly
  <1> HIDE DEF w
  <1>6. w.status \in [Nodes -> Status] /\ w.prev \in [Nodes -> Saved] /\ "gone" \in Status /\ "none" \in Saved
    BY <1>5 DEF WorldType, Status, Saved
  <1>7. /\ v \in WorldType /\ v.status = [status EXCEPT ![n] = "gone"]
        /\ v.prev = [w.prev EXCEPT ![n] = "none"] /\ v.db = w.db /\ v.obj = w.obj
    BY <1>5, <1>6 DEF WorldType
  <1> HIDE DEF v
  <1>8. Consistent(v, before)
    <2>1. \A k \in Nodes : v.status[k] \in Online => v.status[k] = before[k]
      BY <1>5, <1>6, <1>7 DEF Consistent, Online
    <2>2. \A k \in Nodes : v.status[k] = "offline" => v.prev[k] \in {before[k], "offline", "none"}
      BY <1>5, <1>6, <1>7 DEF Consistent
    <2>3. \A k \in Nodes : v.db[k] # None => v.status[k] \in {"offline", "gone"}
      BY <1>5, <1>6, <1>7 DEF Consistent
    <2>4. QED
      BY <1>5, <1>7, <2>1, <2>2, <2>3 DEF Consistent
  <1>9. IInv' /\ before' = before /\ status' = v.status
    BY <1>1, <1>7, <1>8, BecomeKeeps
  <1>10. QED
    BY <1>1, <1>7, <1>9 DEF Implements, Lifecycle!Next, Lifecycle!Leaves, Lifecycle!Online, Online

\* All nodes go at once.
LEMMA FabricWillBeRemovedOK ==
  ASSUME IInv, FabricWillBeRemoved
  PROVE  IInv' /\ Implements
  <1> DEFINE o == [i \in Objects |-> IF obj[i].st = "open" THEN FreeObject ELSE obj[i]]
             v == [World EXCEPT !.obj = o, !.status = [n \in Nodes |-> "gone"], !.prev = [n \in Nodes |-> "none"]]
  <1>1. World \in WorldType /\ Consistent(World, before) /\ obj \in [Objects -> Object]
    BY WorldTyped DEF IInv, TypeOK
  <1>2. o \in [Objects -> Object] /\ \A i \in Objects : o[i].st # "free" => o[i].node \in Nodes
    BY <1>1 DEF Consistent, World, FreeObject, Object
  <1>3. Become(v) /\ UNCHANGED Rest
    BY DEF FabricWillBeRemoved, World
  <1>4. [n \in Nodes |-> "gone"] \in [Nodes -> Status] /\ [n \in Nodes |-> "none"] \in [Nodes -> Saved]
    BY DEF Status, Saved
  <1> HIDE DEF o
  <1>5. v \in WorldType /\ v.status = [n \in Nodes |-> "gone"] /\ v.obj = o
    BY <1>1, <1>2, <1>4 DEF WorldType, World
  <1> HIDE DEF v
  <1>6. Consistent(v, before)
    BY <1>2, <1>5 DEF Consistent, Online
  <1>7. IInv' /\ before' = before /\ status' = v.status
    BY <1>3, <1>5, <1>6, BecomeKeeps
  <1>8. QED
    BY <1>5, <1>7 DEF Implements, Lifecycle!Next, Lifecycle!AllLeave

\* The list read at start-up is a sequence of entries.
LEMMA TableRead ==
  ASSUME db \in [Nodes -> Nat \cup {None}], NEW f \in read_failing_nodes(db)
  PROVE  f \in Seq(FailingEntry)
  <1> DEFINE failed == {n \in Nodes : db[n] # None}
             len == Cardinality(failed)
  <1>1. IsFiniteSet(failed) /\ len \in Nat
    BY MonitorAssumption, FS_Subset, FS_CardinalityType
  <1>2. PICK rows \in [1 .. len -> failed] : f = [k \in DOMAIN rows |-> [node |-> rows[k], time |-> db[rows[k]]]]
    BY DEF read_failing_nodes
  <1> HIDE DEF len
  <1>3. \A k \in 1 .. len : [node |-> rows[k], time |-> db[rows[k]]] \in FailingEntry
    BY DEF FailingEntry
  <1>4. f \in [1 .. len -> FailingEntry]
    BY <1>2, <1>3
  <1>5. QED
    BY <1>1, <1>4

\* A restart touches nothing that is published.
LEMMA RestartOK ==
  ASSUME IInv, Restart
  PROVE  IInv' /\ Implements
  <1>1. failing' \in Seq(FailingEntry)
    BY TableRead DEF Restart, IInv, TypeOK
  <1>2. /\ setup' \subseteq Nodes /\ process' \in {"armed", "idle", "exited"}
        /\ ongoing' \in [Nodes -> Objects \cup {None}] /\ obj' \in [Objects -> Object]
        /\ \A i \in Objects : obj'[i].st = "free"
        /\ UNCHANGED <<status, prev, db, clock, before>>
    BY DEF Restart, FreeObject, Object
  <1>3. TypeOK'
    BY <1>1, <1>2 DEF IInv, TypeOK
  <1>4. Consistent(World, before)'
    BY <1>2 DEF IInv, Consistent, World
  <1>5. QED
    BY <1>2, <1>3, <1>4 DEF IInv, Implements

\* w is the world after a batch of the recovery after boot: rows are deleted, and
\* objects that were free are opened for nodes of the batch.
Recovery(w, batch) ==
  /\ w.status = status /\ w.prev = prev /\ KeepsObjects(World, w)
  /\ \A n \in Nodes : w.db[n] # None => db[n] # None
  /\ \A i \in Objects : w.obj[i] = obj[i] \/ \E k \in DOMAIN batch : w.obj[i].node = batch[k].node

\* A batch of the recovery after boot: no status changes.
LEMMA BatchOK ==
  ASSUME IInv, NEW batch, RecoverBatch(batch)
  PROVE  \E w \in WorldType : Consistent(w, before) /\ Recovery(w, batch) /\ Become(w)
  <1> DEFINE entries == {batch[k] : k \in DOMAIN batch}
             expired == {e.node : e \in {x \in entries : clock >= x.time + RecoveryTime}}
             due == {n \in setup : status[n] # "gone" /\ \E e \in entries : e.node = n /\ n \notin expired}
             free == FreeObjects(World)
  <1> DEFINE Grown(S, got) == [World EXCEPT
               !.db = [n \in Nodes |-> IF n \in expired THEN None ELSE @[n]],
               !.obj = [i \in Objects |->
                 IF \E n \in S : got[n] = i
                 THEN [st |-> "connecting", node |-> CHOOSE n \in S : got[n] = i, resub |-> FALSE]
                 ELSE @[i]],
               !.ongoing = [n \in Nodes |-> IF n \in S /\ @[n] = None THEN got[n] ELSE @[n]]]
  <1>0. PICK S \in SUBSET due : \E got \in Injection(S, free) : Become(Grown(S, got))
    BY DEF RecoverBatch
  <1>1. PICK got \in Injection(S, free) : Become(Grown(S, got))
    BY <1>0
  <1> DEFINE New(i) == [st |-> "connecting", node |-> CHOOSE n \in S : got[n] = i, resub |-> FALSE]
             d == [n \in Nodes |-> IF n \in expired THEN None ELSE db[n]]
             o == [i \in Objects |-> IF \E n \in S : got[n] = i THEN New(i) ELSE obj[i]]
             g == [n \in Nodes |-> IF n \in S /\ ongoing[n] = None THEN got[n] ELSE ongoing[n]]
             w == [World EXCEPT !.db = d, !.obj = o, !.ongoing = g]
  <1>2. /\ S \subseteq Nodes /\ got \in [S -> Objects]
        /\ \A n \in S : obj[got[n]].st = "free" /\ \E k \in DOMAIN batch : batch[k].node = n
    <2>1. /\ due \subseteq Nodes /\ free \subseteq Objects /\ \A i \in free : obj[i].st = "free"
          /\ \A n \in due : \E k \in DOMAIN batch : batch[k].node = n
      BY DEF IInv, TypeOK, FreeObjects, World
    <2>2. got \in [S -> free]
      BY DEF Injection
    <2> HIDE DEF due, free
    <2>3. QED
      BY <2>1, <2>2
  <1>3. Become(w)
    BY <1>1 DEF World
  <1>4. /\ World \in WorldType /\ Consistent(World, before) /\ obj \in [Objects -> Object]
        /\ db \in [Nodes -> Nat \cup {None}] /\ ongoing \in [Nodes -> Objects \cup {None}]
    BY WorldTyped DEF IInv, TypeOK
  <1> HIDE DEF entries, expired, due, free
  <1>5. \A i \in Objects : (\E n \in S : got[n] = i) =>
          /\ New(i) \in Object /\ New(i).node \in Nodes
          /\ obj[i].st = "free" /\ \E k \in DOMAIN batch : New(i).node = batch[k].node
    <2> TAKE i \in Objects
    <2> HAVE \E n \in S : got[n] = i
    <2>1. (CHOOSE n \in S : got[n] = i) \in S
      OBVIOUS
    <2>2. QED
      BY <1>2, <2>1 DEF Object
  <1>6. o \in [Objects -> Object] /\ \A i \in Objects : o[i].st # "free" => o[i].node \in Nodes
    <2> HIDE DEF New
    <2>1. \A i \in Objects : o[i] \in Object
      BY <1>4, <1>5
    <2>2. \A i \in Objects : obj[i].st # "free" => obj[i].node \in Nodes
      BY <1>4 DEF Consistent, World
    <2>3. QED
      BY <1>5, <2>1, <2>2
  <1>7. d \in [Nodes -> Nat \cup {None}] /\ \A n \in Nodes : d[n] # None => db[n] # None
    BY <1>4
  <1>8. g \in [Nodes -> Objects \cup {None}]
    BY <1>2, <1>4
  <1>9. /\ \A i \in Objects : obj[i].st # "free" => o[i] = obj[i]
        /\ \A i \in Objects : o[i] = obj[i] \/ \E k \in DOMAIN batch : o[i].node = batch[k].node
    <2> HIDE DEF New
    <2>1. QED
      BY <1>5
  <1> HIDE DEF o, d, g
  <1>10. /\ w \in WorldType /\ w.status = status /\ w.prev = prev
         /\ w.db = d /\ w.obj = o
    BY <1>4, <1>6, <1>7, <1>8 DEF WorldType, World
  <1> HIDE DEF w
  <1>11. Consistent(w, before)
    BY <1>4, <1>6, <1>7, <1>10 DEF Consistent, World
  <1>12. Recovery(w, batch)
    BY <1>7, <1>9, <1>10 DEF Recovery, KeepsObjects, World
  <1>13. QED
    BY <1>3, <1>10, <1>11, <1>12

\* A turn of the recovery after boot touches nothing that is published.
LEMMA RecoverNextOK ==
  ASSUME IInv, recover_next_failing_node
  PROVE  IInv' /\ Implements
  <1> DEFINE size == IF Len(failing) < MaxBatch THEN Len(failing) ELSE MaxBatch
             batch == SubSeq(failing, 1, size)
  <1>1. PICK w \in WorldType : Consistent(w, before) /\ w.status = status /\ Become(w)
    BY BatchOK DEF recover_next_failing_node, Recovery
  <1>2. failing \in Seq(FailingEntry) /\ Len(failing) \in Nat /\ size \in 0 .. Len(failing) /\ MaxBatch \in Nat
    BY MonitorAssumption DEF IInv, TypeOK
  <1>3. Len(batch) = size
    BY <1>2, SubSeqProperties
  <1>4. failing' = SubSeq(failing, size + 1, Len(failing))
    BY <1>3 DEF recover_next_failing_node
  <1>5. failing' \in Seq(FailingEntry)
    BY <1>2, <1>4, SubSeqProperties
  <1>6. process' \in {"armed", "idle", "exited"} /\ UNCHANGED <<setup, clock>>
    BY DEF recover_next_failing_node
  <1>7. /\ status' = w.status /\ prev' = w.prev /\ db' = w.db
        /\ ongoing' = w.ongoing /\ obj' = w.obj
        /\ before' = [n \in Nodes |-> IF w.status[n] \in Online THEN w.status[n] ELSE before[n]]
    BY <1>1 DEF Become
  <1>8. before' = before /\ before \in [Nodes -> Online]
    BY <1>1, <1>7 DEF IInv, TypeOK, Consistent
  <1>9. TypeOK'
    BY <1>1, <1>5, <1>6, <1>7, <1>8 DEF IInv, TypeOK, WorldType
  <1>10. Consistent(World, before)'
    BY <1>1, <1>7, <1>8 DEF Consistent, World
  <1>11. QED
    BY <1>1, <1>7, <1>8, <1>9, <1>10 DEF IInv, Implements

-----------------------------------------------------------------------------
\* The initial state is the abstract one's.
LEMMA InitIInv == Init => IInv /\ Lifecycle!Init
  <1> SUFFICES ASSUME Init PROVE IInv /\ Lifecycle!Init
    OBVIOUS
  <1>1. TypeOK
    BY MonitorAssumption DEF Init, TypeOK, Status, Saved, Online, Object, FreeObject
  <1>2. Consistent(World, before)
    BY DEF Init, Consistent, World, FreeObject, Online
  <1>3. QED
    BY <1>1, <1>2 DEF IInv, Init, Lifecycle!Init

\* Every step keeps the invariant and is a step of the life cycle or none.
LEMMA StepImplements == IInv /\ [Next]_vars => IInv' /\ Implements
  <1> SUFFICES ASSUME IInv, [Next]_vars PROVE IInv' /\ Implements
    OBVIOUS
  <1>1. ASSUME NEW n \in Nodes, VolatileAttributeDiscovered(n) PROVE IInv' /\ Implements
    BY <1>1 DEF VolatileAttributeDiscovered, IInv, TypeOK, Consistent, World, Implements
  <1>2. CASE Tick
    BY <1>2 DEF Tick, IInv, TypeOK, Consistent, World, Implements
  <1>3. CASE UNCHANGED vars
    BY <1>3 DEF vars, IInv, TypeOK, Consistent, World, Implements
  <1>4. CASE \E n \in Nodes : \/ VolatileAttributeDiscovered(n) \/ ResolutionCompletion(n)
                              \/ RequestAnswered(n) \/ NodeRemoved(n)
                              \/ \E error \in Error : RequestFails(n, error)
    <2>1. "other" \in Error
      BY DEF Error
    <2>2. QED
      BY <1>1, <1>4, <2>1, ResolutionCompletionOK, RequestOK, NodeRemovedOK
  <1>5. CASE \E i \in Objects : \/ SubscribeSent(i) \/ ConnectionFails(i) \/ Report(i)
                        \/ \E error \in Error : SubscribeSendFails(i, error) \/ SubscriptionFails(i, error)
    BY <1>5, SubscribeSentOK, ConnectionFailsOK, ReportOK, SubscribeSendFailsOK, SubscriptionFailsOK
  <1>6. QED
    BY <1>2, <1>3, <1>4, <1>5, FabricWillBeRemovedOK, RestartOK, RecoverNextOK DEF Next

\* The invariant is inductive.
LEMMA Inductive == Spec => []IInv
  BY InitIInv, StepImplements, PTL DEF Spec

\* Every callback keeps the type of the state: no status is written from an undefined
\* saved state, and no callback works on an object without a node.
THEOREM TypeCorrect == Spec => []TypeOK
  <1>1. IInv => TypeOK
    BY DEF IInv
  <1>2. QED
    BY Inductive, <1>1, PTL

\* However callbacks of requests, subscriptions, goodbyes, fabric removals, reboots and
\* the recovery after boot interleave, the failing node table has no row of a node
\* that is online (mpc_mark_device_as_failing, mpc_failing_node_recovery).
THEOREM NoRowOfAnOnlineNode == Spec => []FailedAreOffline
  <1>1. IInv => FailedAreOffline
    BY DEF IInv, Consistent, World, FailedAreOffline
  <1>2. QED
    BY Inductive, <1>1, PTL

\* NodeMonitor implements NodeLifecycle: for any number of nodes and objects the
\* published status of a node changes only the ways the abstract specification has.
THEOREM Refinement == Spec => ImplementsLifecycle
  <1>1. Init => Lifecycle!Init
    BY InitIInv
  <1>2. IInv /\ [Next]_vars => [Lifecycle!Next]_<<status, before>>
    BY StepImplements DEF Implements
  <1>3. QED
    BY Inductive, <1>1, <1>2, PTL DEF Spec, ImplementsLifecycle, Lifecycle!Spec

-----------------------------------------------------------------------------
(***************************************************************************)
(* Subscriptions: a goodbye leaves none behind, and one is tried again at  *)
(* most once.                                                              *)
(*                                                                         *)
(* mpc_node_removal_handle does not shut down the subscriptions of a node  *)
(* that is still interviewed.  That this is enough is an invariant of its  *)
(* own: such a node has none, because it has never been published, has no  *)
(* row in the table of failing nodes and so is not recovered after a boot. *)
(***************************************************************************)

\* Node n is in its first interview, or will be again with the next message from it.
\* (A second failure of an offline node spoils its saved state; it stays offline then.)
Unpublished(w, b, n) ==
  /\ b[n] = "interviewing" /\ w.status[n] # "gone"
  /\ w.status[n] = "offline" => w.prev[n] = "interviewing"

\* Some object on the heap is for node n.
Subscribed(w, n) == \E i \in Objects : w.obj[i].st # "free" /\ w.obj[i].node = n

\* A node that is still unpublished is unknown to the subscriptions, to the table of
\* failing nodes and to the list read from it.
Unknown ==
  \A n \in Nodes : Unpublished(World, before, n) =>
    /\ db[n] = None /\ ~Subscribed(World, n)
    /\ \A k \in DOMAIN failing : failing[k].node # n

\* No node becomes unpublished from w to v, and those that are become no better known.
Quiet(w, v, b) ==
  \A n \in Nodes : Unpublished(v, b, n) =>
    /\ Unpublished(w, b, n)
    /\ w.db[n] = None => v.db[n] = None
    /\ Subscribed(v, n) => Subscribed(w, n)

\* A failure frees or opens no object.
LEMMA MarkObjects ==
  ASSUME NEW w \in WorldType, NEW n \in Nodes, NEW now \in Nat
  PROVE  mpc_mark_device_as_failing(w, n, now) \in WorldType /\ mpc_mark_device_as_failing(w, n, now).obj = w.obj
  <1> DEFINE m == mpc_mark_device_as_failing(w, n, now)
  <1>1. /\ m \in WorldType /\ m.obj = w.obj /\ m.ongoing = w.ongoing
        /\ w.status[n] = "gone" => m = w
        /\ w.status[n] # "gone" =>
             /\ m.status = [w.status EXCEPT ![n] = "offline"]
             /\ m.prev = [w.prev EXCEPT ![n] = w.status[n]]
             /\ \A k \in Nodes : k # n => m.db[k] = w.db[k]
    BY MarkFields
  <1> HIDE DEF m
  <1>2. QED
    BY <1>1 DEF m

\* A failure of a node that is in its interview writes no row of the table; that of an
\* offline one spoils its saved state.
LEMMA MarkQuiet ==
  ASSUME NEW w \in WorldType, NEW n \in Nodes, NEW now \in Nat, NEW b
  PROVE  Quiet(w, mpc_mark_device_as_failing(w, n, now), b)
  <1> DEFINE m == mpc_mark_device_as_failing(w, n, now)
  <1>1. /\ m \in WorldType /\ m.obj = w.obj
        /\ w.status[n] = "gone" => m = w
        /\ w.status[n] # "gone" =>
             /\ m.status = [w.status EXCEPT ![n] = "offline"]
             /\ m.prev = [w.prev EXCEPT ![n] = w.status[n]]
             /\ \A k \in Nodes : k # n => m.db[k] = w.db[k]
    BY MarkFields
  <1>2. w.status[n] = "interviewing" => m.db = w.db
    <2> DEFINE marked == [w EXCEPT !.prev[n] = w.status[n], !.status[n] = "offline"]
    <2>1. w.status[n] = "interviewing" => m = marked
      BY DEF mpc_mark_device_as_failing
    <2>2. marked.db = w.db
      BY DEF WorldType
    <2>3. QED
      BY <2>1, <2>2
  <1>3. w.status \in [Nodes -> Status] /\ w.prev \in [Nodes -> Saved]
    BY DEF WorldType
  <1> HIDE DEF m
  <1>4. ASSUME NEW k \in Nodes, Unpublished(m, b, k)
        PROVE  Unpublished(w, b, k) /\ m.db[k] = w.db[k]
    <2>1. CASE w.status[n] = "gone"
      BY <1>1, <1>4, <2>1
    <2>2. CASE w.status[n] # "gone" /\ k # n
      BY <1>1, <1>3, <1>4, <2>2 DEF Unpublished
    <2>3. CASE w.status[n] # "gone" /\ k = n
      <3>1. m.status[n] = "offline" /\ m.prev[n] = w.status[n]
        BY <1>1, <1>3, <2>3
      <3>2. w.status[n] = "interviewing"
        BY <1>4, <2>3, <3>1 DEF Unpublished
      <3>3. QED
        BY <1>2, <1>4, <2>3, <3>2 DEF Unpublished
    <2>4. QED
      BY <2>1, <2>2, <2>3
  <1>5. \A k \in Nodes : Subscribed(m, k) <=> Subscribed(w, k)
    BY <1>1 DEF Subscribed
  <1>6. Quiet(w, m, b)
    BY <1>4, <1>5 DEF Quiet
  <1>7. QED
    BY <1>6 DEF m

\* v is w with at most one more subscription, for node n.
Opened(w, v, n) ==
  /\ v \in WorldType /\ v.status = w.status /\ v.prev = w.prev /\ v.db = w.db
  /\ \A k \in Objects : v.obj[k] = w.obj[k] \/ (w.obj[k].st = "free" /\ v.obj[k].node = n)

\* mpc_node_monitor_initiate_monitoring takes at most one free object, for node n.
LEMMA InitiateOpens ==
  ASSUME NEW w \in WorldType, NEW n \in Nodes, NEW resub \in BOOLEAN
  PROVE  Opened(w, mpc_node_monitor_initiate_monitoring(w, n, resub), n)
  <1> DEFINE v == mpc_node_monitor_initiate_monitoring(w, n, resub)
             i == CHOOSE free \in FreeObjects(w) : TRUE
             new == [st |-> "connecting", node |-> n, resub |-> resub]
             addr == IF w.ongoing[n] = None THEN i ELSE w.ongoing[n]
  <1>1. CASE v = w
    BY <1>1 DEF Opened
  <1>2. CASE v # w
    <2>1. v = [w EXCEPT !.obj = [w.obj EXCEPT ![i] = new], !.ongoing = [w.ongoing EXCEPT ![n] = addr]]
          /\ FreeObjects(w) # {}
      BY <1>2 DEF mpc_node_monitor_initiate_monitoring
    <2>2. i \in FreeObjects(w)
      BY <2>1
    <2> HIDE DEF i
    <2>3. i \in Objects /\ w.obj[i].st = "free"
      BY <2>2 DEF FreeObjects
    <2>4. new \in Object /\ new.node = n
      BY DEF Object
    <2>5. w.ongoing \in [Nodes -> Objects \cup {None}] /\ w.obj \in [Objects -> Object]
      BY DEF WorldType
    <2>6. addr \in Objects \cup {None}
      BY <2>3, <2>5
    <2> HIDE DEF addr, new
    <2>7. [w.obj EXCEPT ![i] = new] \in [Objects -> Object]
          /\ [w.ongoing EXCEPT ![n] = addr] \in [Nodes -> Objects \cup {None}]
      BY <2>3, <2>4, <2>5, <2>6
    <2>8. /\ v \in WorldType /\ v.status = w.status /\ v.prev = w.prev /\ v.db = w.db
          /\ v.obj = [w.obj EXCEPT ![i] = new]
      BY <2>1, <2>7 DEF WorldType
    <2> HIDE DEF v
    <2>9. \A k \in Objects : v.obj[k] = w.obj[k] \/ (w.obj[k].st = "free" /\ v.obj[k].node = n)
      BY <2>3, <2>4, <2>5, <2>8
    <2>10. QED
      BY <2>8, <2>9 DEF Opened, v
  <1>3. QED
    BY <1>1, <1>2

\* A subscription for a node that has one, or that has been published, is no news.
LEMMA OpenedQuiet ==
  ASSUME NEW w, NEW v, NEW n, NEW b, Opened(w, v, n), Subscribed(w, n) \/ ~Unpublished(w, b, n)
  PROVE  Quiet(w, v, b)
  <1>1. \A k \in Nodes : Unpublished(v, b, k) <=> Unpublished(w, b, k)
    BY DEF Opened, Unpublished
  <1>2. \A k \in Nodes : Subscribed(v, k) => Subscribed(w, k) \/ k = n
    BY DEF Opened, Subscribed
  <1>3. QED
    BY <1>1, <1>2 DEF Quiet, Opened

\* Cancelling changes nothing that matters here.
LEMMA CancelFields ==
  ASSUME NEW w \in WorldType, NEW n \in Nodes
  PROVE  LET v == mpc_node_monitor_cancel_monitoring(w, n)
         IN  v \in WorldType /\ v.status = w.status /\ v.prev = w.prev /\ v.db = w.db /\ v.obj = w.obj
  <1> DEFINE o == [w.ongoing EXCEPT ![n] = None]
  <1>1. o \in [Nodes -> Objects \cup {None}]
    BY DEF WorldType
  <1>2. mpc_node_monitor_cancel_monitoring(w, n) = [w EXCEPT !.ongoing = o]
    BY DEF mpc_node_monitor_cancel_monitoring
  <1> HIDE DEF o
  <1>3. QED
    BY <1>1, <1>2 DEF WorldType

\* Quiet changes compose.
LEMMA QuietTransitive ==
  ASSUME NEW u, NEW w, NEW v, NEW b, Quiet(u, w, b), Quiet(w, v, b)
  PROVE  Quiet(u, v, b)
  BY DEF Quiet

\* OnError on each of its paths; the object itself is a subscription of the node.
LEMMA OnErrorQuiet ==
  ASSUME NEW w \in WorldType, NEW i \in Objects, NEW error \in Error, NEW b,
         w.obj[i].node \in Nodes, clock \in Nat, w.obj[i].st # "free"
  PROVE  /\ Quiet(w, OnError(w, i, error), b)
         /\ w.obj[i].resub => OnError(w, i, error).obj = w.obj
  <1> DEFINE n == w.obj[i].node
             v == OnError(w, i, error)
             m == mpc_mark_device_as_failing(w, n, clock)
  <1>1. Quiet(w, w, b) /\ Quiet(w, m, b) /\ Subscribed(w, n) /\ m \in WorldType /\ m.obj = w.obj
    <2>1. Quiet(w, w, b)
      BY DEF Quiet
    <2>2. Subscribed(w, n)
      BY DEF Subscribed
    <2>3. n \in Nodes
      OBVIOUS
    <2> HIDE DEF n
    <2>4. Quiet(w, m, b)
      BY <2>3, MarkQuiet
    <2>5. m \in WorldType /\ m.obj = w.obj
      BY <2>3, MarkObjects
    <2>6. QED
      BY <2>1, <2>2, <2>4, <2>5
  <1>2. CASE w.obj[i].resub
    <2>1. v = check_and_mark_failing_node(w, n, error, clock)
      BY <1>2 DEF OnError
    <2>2. v = w \/ v = m
      BY <2>1 DEF check_and_mark_failing_node
    <2> HIDE DEF v, m, n
    <2>3. QED
      BY <1>1, <2>2 DEF v
  <1>3. CASE ~w.obj[i].resub /\ error = "timeout"
    <2> DEFINE c == mpc_node_monitor_cancel_monitoring(w, n)
    <2>1. v = mpc_node_monitor_initiate_monitoring(c, n, TRUE)
      BY <1>3 DEF OnError
    <2>2. c \in WorldType /\ c.status = w.status /\ c.prev = w.prev /\ c.db = w.db /\ c.obj = w.obj
      BY CancelFields
    <2> HIDE DEF c, v, n
    <2>3. Opened(c, v, n)
      BY <2>1, <2>2, InitiateOpens DEF n
    <2>4. Opened(w, v, n)
      BY <2>2, <2>3 DEF Opened
    <2>5. QED
      BY <1>1, <1>3, <2>4, OpenedQuiet DEF v
  <1>4. CASE ~w.obj[i].resub /\ error # "timeout"
    <2>1. v = mpc_node_monitor_cancel_monitoring(m, n)
      BY <1>4 DEF OnError
    <2> HIDE DEF v, m, n
    <2>2. v \in WorldType /\ v.status = m.status /\ v.prev = m.prev /\ v.db = m.db /\ v.obj = m.obj
      BY <1>1, <2>1, CancelFields DEF n
    <2>3. Quiet(m, v, b)
      BY <2>2 DEF Quiet, Unpublished, Subscribed
    <2>4. QED
      BY <1>1, <1>4, <2>3, QuietTransitive DEF v
  <1>5. QED
    BY <1>2, <1>3, <1>4

\* A message brings no node back into its interview that was not in it when it failed.
LEMMA RecoveryQuiet ==
  ASSUME NEW w \in WorldType, NEW n \in Nodes, NEW b, Consistent(w, b)
  PROVE  Quiet(w, mpc_failing_node_recovery(w, n), b) /\ mpc_failing_node_recovery(w, n).obj = w.obj
  <1> DEFINE v == mpc_failing_node_recovery(w, n)
  <1>1. CASE v = w
    BY <1>1 DEF Quiet
  <1>2. CASE v # w
    <2>1. /\ v = [w EXCEPT !.status = [w.status EXCEPT ![n] = w.prev[n]],
                           !.prev = [w.prev EXCEPT ![n] = "none"], !.db = [w.db EXCEPT ![n] = None]]
          /\ w.status[n] = "offline" /\ w.prev[n] # "none"
      BY <1>2 DEF mpc_failing_node_recovery
    <2>2. /\ w.status \in [Nodes -> Status] /\ w.prev \in [Nodes -> Saved]
          /\ w.db \in [Nodes -> Nat \cup {None}]
      BY DEF WorldType
    <2>3. /\ v.obj = w.obj /\ v.status = [w.status EXCEPT ![n] = w.prev[n]]
          /\ v.prev = [w.prev EXCEPT ![n] = "none"] /\ v.db = [w.db EXCEPT ![n] = None]
      BY <2>1 DEF WorldType
    <2> HIDE DEF v
    <2>4. ASSUME NEW k \in Nodes, Unpublished(v, b, k)
          PROVE  Unpublished(w, b, k) /\ (w.db[k] = None => v.db[k] = None)
      <3>1. CASE k # n
        BY <2>2, <2>3, <2>4, <3>1 DEF Unpublished
      <3>2. CASE k = n
        <4>1. v.status[n] = w.prev[n] /\ v.prev[n] = "none" /\ v.db[n] = None
          BY <2>2, <2>3
        <4>2. w.prev[n] = b[n]
          BY <2>1, <2>4, <3>2, <4>1 DEF Unpublished, Consistent
        <4>3. QED
          BY <2>1, <2>4, <3>2, <4>1, <4>2 DEF Unpublished
      <3>3. QED
        BY <3>1, <3>2
    <2>5. Quiet(w, v, b)
      BY <2>3, <2>4 DEF Quiet, Subscribed
    <2>6. QED
      BY <2>3, <2>5 DEF v
  <1>3. QED
    BY <1>1, <1>2

-----------------------------------------------------------------------------
(* The steps *)

\* What the steps have to show: the invariant again, and ResubscribesOnce.
RetriesOnce ==
  \A i, k \in Objects :
    /\ obj[i].st \in {"connecting", "open"} /\ obj[i].resub
    /\ obj'[i].st \in {"idle", "free"}
    => ~(obj[k].st = "free" /\ obj'[k].st = "connecting")

\* Both together.
StepOK == Unknown' /\ RetriesOnce

\* No object is taken into use.
NoneOpened(v) == \A k \in Objects : obj[k].st = "free" => v.obj[k].st # "connecting"

\* No object of a second attempt ends.
RetriesStay(v) ==
  \A i \in Objects : obj[i].st \in {"connecting", "open"} /\ obj[i].resub => v.obj[i].st \notin {"idle", "free"}

\* A callback that is quiet and opens an object only if no second attempt ends.
LEMMA QuietStep ==
  ASSUME IInv, Unknown, NEW v \in WorldType, \A n \in Nodes : v.status[n] \in Online => v.status[n] = before[n],
         Quiet(World, v, before), NoneOpened(v) \/ RetriesStay(v), Become(v), UNCHANGED failing
  PROVE  StepOK
  <1>1. before \in [Nodes -> Online]
    BY DEF IInv, TypeOK
  <1>2. before' = [n \in Nodes |-> IF v.status[n] \in Online THEN v.status[n] ELSE before[n]]
    BY DEF Become
  <1>3. before' = before
    BY <1>1, <1>2
  <1>4. status' = v.status /\ prev' = v.prev /\ db' = v.db /\ ongoing' = v.ongoing /\ obj' = v.obj
    BY DEF Become
  <1>5. World' = v
    BY <1>4 DEF World, WorldType
  <1>6. World.db = db
    BY DEF World
  <1>7. Unknown'
    BY <1>3, <1>4, <1>5, <1>6 DEF Unknown, Quiet
  <1>8. RetriesOnce
    BY <1>4 DEF RetriesOnce, NoneOpened, RetriesStay
  <1>9. QED
    BY <1>7, <1>8 DEF StepOK

\* Objects only: those in use keep their nodes.
LEMMA SameNodesQuiet ==
  ASSUME NEW w, NEW v, NEW b, v.status = w.status, v.prev = w.prev, v.db = w.db,
         \A i \in Objects : v.obj[i].st # "free" => w.obj[i].st # "free" /\ v.obj[i].node = w.obj[i].node
  PROVE  Quiet(w, v, b)
  BY DEF Quiet, Unpublished, Subscribed

\* Answers and failures of reads and commands, and reports.
LEMMA MessageStep ==
  ASSUME IInv, Unknown, NEW n \in Nodes, NEW error \in Error, UNCHANGED Rest,
         \/ Become(mpc_failing_node_recovery(World, n))
         \/ Become(check_and_mark_failing_node(World, n, error, clock))
  PROVE  StepOK
  <1>1. World \in WorldType /\ Consistent(World, before) /\ before \in [Nodes -> Online] /\ clock \in Nat /\ World.obj = obj
    BY WorldTyped DEF IInv, World
  <1>2. UNCHANGED failing
    BY DEF Rest
  <1>3. ASSUME NEW v, v \in WorldType, Consistent(v, before), v.obj = obj, Quiet(World, v, before), Become(v)
        PROVE  StepOK
    <2>1. NoneOpened(v)
      BY <1>3 DEF NoneOpened
    <2>2. QED
      BY <1>2, <1>3, <2>1, QuietStep DEF Consistent
  <1>4. CASE Become(mpc_failing_node_recovery(World, n))
    <2> DEFINE v == mpc_failing_node_recovery(World, n)
    <2>1. v \in WorldType /\ Consistent(v, before)
      BY <1>1, RecoveryRecovers DEF Recovered
    <2>2. Quiet(World, v, before) /\ v.obj = obj
      BY <1>1, RecoveryQuiet
    <2> HIDE DEF v
    <2>3. QED
      BY <1>3, <1>4, <2>1, <2>2 DEF v
  <1>5. CASE Become(check_and_mark_failing_node(World, n, error, clock))
    <2> DEFINE v == check_and_mark_failing_node(World, n, error, clock)
               m == mpc_mark_device_as_failing(World, n, clock)
    <2>1. v = World \/ v = m
      BY DEF check_and_mark_failing_node
    <2>2. m \in WorldType /\ Consistent(m, before)
      BY <1>1, MarkFails DEF Failed
    <2>3. m.obj = obj /\ Quiet(World, m, before)
      BY <1>1, MarkObjects, MarkQuiet
    <2>4. Quiet(World, World, before)
      BY DEF Quiet
    <2> HIDE DEF v, m
    <2>5. QED
      BY <1>1, <1>3, <1>5, <2>1, <2>2, <2>3, <2>4 DEF v
  <1>6. QED
    BY <1>4, <1>5

\* The object that a callback belongs to has lost its client: the rest is as it was.
LEMMA IdleQuiet ==
  ASSUME IInv, NEW i \in Objects, obj[i].st # "free"
  PROVE  LET w == [World EXCEPT !.obj[i].st = "idle"]
         IN  /\ w.obj[i].resub = obj[i].resub /\ Quiet(World, w, before)
             /\ w.obj[i].st = "idle" /\ \A k \in Objects : k # i => w.obj[k] = obj[k]
  <1> DEFINE o == [obj EXCEPT ![i] = [obj[i] EXCEPT !.st = "idle"]]
             w == [World EXCEPT !.obj = o]
  <1>1. obj \in [Objects -> Object]
    BY DEF IInv, TypeOK
  <1>2. /\ o[i].resub = obj[i].resub /\ o[i].node = obj[i].node /\ o[i].st = "idle"
        /\ \A k \in Objects : k # i => o[k] = obj[k]
    BY <1>1 DEF Object
  <1>3. [World EXCEPT !.obj[i].st = "idle"] = w
    BY DEF World
  <1> HIDE DEF o
  <1>4. w.obj = o /\ w.status = World.status /\ w.prev = World.prev /\ w.db = World.db /\ World.obj = obj
    BY DEF World
  <1> HIDE DEF w
  <1>5. Quiet(World, w, before)
    BY <1>2, <1>4, SameNodesQuiet
  <1>6. QED
    BY <1>2, <1>3, <1>4, <1>5

\* A callback of object i: another object is opened only by a first attempt.
LEMMA ObjectStep ==
  ASSUME IInv, Unknown, NEW i \in Objects, obj[i].st # "free", NEW u \in WorldType, Consistent(u, before),
         Quiet(World, u, before), Become(u), UNCHANGED failing,
         \A k \in Objects : k # i /\ obj[k].st # "free" => u.obj[k] = obj[k],
         obj[i].resub => \A k \in Objects : k # i => u.obj[k] = obj[k]
  PROVE  StepOK
  <1>1. CASE obj[i].resub
    <2>1. NoneOpened(u)
      BY <1>1 DEF NoneOpened
    <2>2. QED
      BY <2>1, QuietStep DEF Consistent
  <1>2. CASE ~obj[i].resub
    <2>1. RetriesStay(u)
      BY <1>2 DEF RetriesStay
    <2>2. QED
      BY <2>1, QuietStep DEF Consistent
  <1>3. QED
    BY <1>1, <1>2

\* What one call of OnError does.
LEMMA OnErrorOnce ==
  ASSUME NEW w \in WorldType, Consistent(w, before), clock \in Nat, NEW i \in Objects, w.obj[i].st # "free",
         NEW error \in Error
  PROVE  LET v == OnError(w, i, error)
         IN  /\ v \in WorldType /\ Consistent(v, before) /\ KeepsObjects(w, v) /\ Quiet(w, v, before)
             /\ w.obj[i].resub => v.obj = w.obj
  <1> DEFINE v == OnError(w, i, error)
  <1>1. w.obj[i].node \in Nodes
    BY DEF Consistent
  <1>2. Failed(w, v, w.obj[i].node)
    BY OnErrorFails
  <1>3. Quiet(w, v, before) /\ (w.obj[i].resub => v.obj = w.obj)
    BY <1>1, OnErrorQuiet
  <1> HIDE DEF v
  <1>4. QED
    BY <1>2, <1>3 DEF Failed, v

\* The request cannot be sent: OnError runs twice for the object.
LEMMA SubscribeSendFailsStep ==
  ASSUME IInv, Unknown, NEW i \in Objects, NEW error \in Error, SubscribeSendFails(i, error)
  PROVE  StepOK
  <1> DEFINE w == [World EXCEPT !.obj[i].st = "idle"]
             v == OnError(w, i, error)
             u == OnError(v, i, error)
  <1>1. obj[i].st # "free" /\ Become(u) /\ UNCHANGED failing /\ clock \in Nat
    BY DEF SubscribeSendFails, Rest, IInv, TypeOK
  <1>2. /\ w \in WorldType /\ Consistent(w, before)
        /\ w.obj[i].resub = obj[i].resub /\ Quiet(World, w, before)
        /\ w.obj[i].st = "idle" /\ \A k \in Objects : k # i => w.obj[k] = obj[k]
    BY <1>1, IdleWorld, IdleQuiet
  <1> HIDE DEF w
  <1>3. /\ v \in WorldType /\ Consistent(v, before) /\ KeepsObjects(w, v) /\ Quiet(w, v, before)
        /\ w.obj[i].resub => v.obj = w.obj
    BY <1>1, <1>2, OnErrorOnce
  <1> HIDE DEF v
  <1>4. v.obj[i] = w.obj[i]
    BY <1>2, <1>3 DEF KeepsObjects
  <1>5. /\ u \in WorldType /\ Consistent(u, before) /\ KeepsObjects(v, u) /\ Quiet(v, u, before)
        /\ v.obj[i].resub => u.obj = v.obj
    BY <1>1, <1>2, <1>3, <1>4, OnErrorOnce
  <1> HIDE DEF u
  <1>6. Quiet(World, u, before)
    BY <1>2, <1>3, <1>5, QuietTransitive
  <1>7. \A k \in Objects : k # i /\ obj[k].st # "free" => u.obj[k] = obj[k]
    BY <1>2, <1>3, <1>5 DEF KeepsObjects
  <1>8. obj[i].resub => \A k \in Objects : k # i => u.obj[k] = obj[k]
    BY <1>2, <1>3, <1>4, <1>5
  <1>9. QED
    BY <1>1, <1>5, <1>6, <1>7, <1>8, ObjectStep

\* No session: OnError runs once.
LEMMA ConnectionFailsStep ==
  ASSUME IInv, Unknown, NEW i \in Objects, ConnectionFails(i)
  PROVE  StepOK
  <1> DEFINE w == [World EXCEPT !.obj[i].st = "idle"]
             v == OnError(w, i, "closed")
  <1>1. obj[i].st # "free" /\ Become(v) /\ UNCHANGED failing /\ clock \in Nat /\ "closed" \in Error
    BY DEF ConnectionFails, Rest, IInv, TypeOK, Error
  <1>2. /\ w \in WorldType /\ Consistent(w, before)
        /\ w.obj[i].resub = obj[i].resub /\ Quiet(World, w, before)
        /\ w.obj[i].st = "idle" /\ \A k \in Objects : k # i => w.obj[k] = obj[k]
    BY <1>1, IdleWorld, IdleQuiet
  <1> HIDE DEF w
  <1>3. /\ v \in WorldType /\ Consistent(v, before) /\ KeepsObjects(w, v) /\ Quiet(w, v, before)
        /\ w.obj[i].resub => v.obj = w.obj
    BY <1>1, <1>2, OnErrorOnce
  <1> HIDE DEF v
  <1>4. Quiet(World, v, before)
    BY <1>2, <1>3, QuietTransitive
  <1>5. \A k \in Objects : k # i /\ obj[k].st # "free" => v.obj[k] = obj[k]
    BY <1>2, <1>3 DEF KeepsObjects
  <1>6. obj[i].resub => \A k \in Objects : k # i => v.obj[k] = obj[k]
    BY <1>2, <1>3
  <1>7. QED
    BY <1>1, <1>3, <1>4, <1>5, <1>6, ObjectStep

\* An open subscription fails: OnError, then OnDone deletes the object.
LEMMA SubscriptionFailsStep ==
  ASSUME IInv, Unknown, NEW i \in Objects, NEW error \in Error, SubscriptionFails(i, error)
  PROVE  StepOK
  <1> DEFINE v == OnError(World, i, error)
             o == [v.obj EXCEPT ![i] = FreeObject]
             u == [v EXCEPT !.obj = o]
  <1>1. obj[i].st # "free" /\ Become(OnDone(v, i)) /\ UNCHANGED failing
    BY DEF SubscriptionFails, Rest
  <1>2. World \in WorldType /\ Consistent(World, before) /\ clock \in Nat /\ World.obj = obj
    BY WorldTyped DEF IInv, World
  <1>3. /\ v \in WorldType /\ Consistent(v, before) /\ KeepsObjects(World, v) /\ Quiet(World, v, before)
        /\ obj[i].resub => v.obj = obj
    BY <1>1, <1>2, OnErrorOnce
  <1> HIDE DEF v
  <1>4. OnDone(v, i) = u
    BY DEF OnDone
  <1>5. v.obj \in [Objects -> Object] /\ FreeObject \in Object /\ FreeObject.st = "free"
    BY <1>3 DEF WorldType, FreeObject, Object
  <1>6. o \in [Objects -> Object] /\ o[i] = FreeObject /\ \A k \in Objects : k # i => o[k] = v.obj[k]
    BY <1>5
  <1> HIDE DEF o
  <1>7. u \in WorldType /\ u.status = v.status /\ u.prev = v.prev /\ u.db = v.db /\ u.obj = o
    BY <1>3, <1>6 DEF WorldType
  <1> HIDE DEF u
  <1>8. Quiet(v, u, before)
    BY <1>5, <1>6, <1>7, SameNodesQuiet
  <1>9. Consistent(u, before)
    BY <1>3, <1>5, <1>6, <1>7 DEF Consistent
  <1>10. Quiet(World, u, before)
    BY <1>3, <1>8, QuietTransitive
  <1>11. \A k \in Objects : k # i /\ obj[k].st # "free" => u.obj[k] = obj[k]
    BY <1>2, <1>3, <1>6, <1>7 DEF KeepsObjects
  <1>12. obj[i].resub => \A k \in Objects : k # i => u.obj[k] = obj[k]
    BY <1>3, <1>6, <1>7
  <1>13. QED
    BY <1>1, <1>4, <1>7, <1>9, <1>10, <1>11, <1>12, ObjectStep

\* A subscription request that is sent.
LEMMA SubscribeSentStep ==
  ASSUME IInv, Unknown, NEW i \in Objects, SubscribeSent(i)
  PROVE  StepOK
  <1> DEFINE o == [obj EXCEPT ![i] = [obj[i] EXCEPT !.st = "open"]]
             v == [World EXCEPT !.obj = o]
  <1>1. obj \in [Objects -> Object] /\ obj[i].st = "connecting" /\ World \in WorldType /\ Consistent(World, before)
    BY WorldTyped DEF IInv, TypeOK, SubscribeSent
  <1>2. /\ o \in [Objects -> Object] /\ o[i].node = obj[i].node /\ o[i].st = "open"
        /\ \A k \in Objects : k # i => o[k] = obj[k]
    BY <1>1 DEF Object
  <1>3. Become(v) /\ UNCHANGED failing
    BY DEF SubscribeSent, World, Rest
  <1> HIDE DEF o
  <1>4. /\ v \in WorldType /\ v.obj = o /\ v.status = status
        /\ v.status = World.status /\ v.prev = World.prev /\ v.db = World.db /\ World.obj = obj
    BY <1>1, <1>2 DEF WorldType, World
  <1> HIDE DEF v
  <1>5. Quiet(World, v, before)
    BY <1>1, <1>2, <1>4, SameNodesQuiet
  <1>6. NoneOpened(v)
    BY <1>1, <1>2, <1>4 DEF NoneOpened
  <1>7. \A n \in Nodes : v.status[n] \in Online => v.status[n] = before[n]
    BY <1>1, <1>4 DEF Consistent
  <1>8. QED
    BY <1>3, <1>4, <1>5, <1>6, <1>7, QuietStep

\* A goodbye takes its node out of the running and opens nothing.
LEMMA NodeRemovedStep ==
  ASSUME IInv, Unknown, NEW n \in Nodes, NodeRemoved(n)
  PROVE  StepOK /\ \A i \in Objects : ~(obj'[i].st = "open" /\ obj'[i].node = n)
  <1> DEFINE w == IF status[n] = "interviewing" THEN World ELSE ShutdownSubscriptions(World, n)
             s == [status EXCEPT ![n] = "gone"]
             p == [prev EXCEPT ![n] = "none"]
             o == IF status[n] = "interviewing" THEN obj
                  ELSE [i \in Objects |-> IF obj[i].st = "open" /\ obj[i].node = n THEN FreeObject ELSE obj[i]]
             v == [World EXCEPT !.obj = o, !.status = s, !.prev = p]
  <1>1. /\ World \in WorldType /\ Consistent(World, before) /\ obj \in [Objects -> Object]
        /\ status \in [Nodes -> Status] /\ prev \in [Nodes -> Saved] /\ status[n] \in Online
        /\ World.status = status /\ World.prev = prev /\ World.db = db /\ World.obj = obj
    BY WorldTyped DEF IInv, TypeOK, NodeRemoved, World
  <1>2. /\ o \in [Objects -> Object]
        /\ \A i \in Objects : o[i] = obj[i] \/ o[i].st = "free"
    BY <1>1 DEF FreeObject, Object
  <1>3. \A i \in Objects : ~(o[i].st = "open" /\ o[i].node = n)
    <2>1. CASE status[n] = "interviewing"
      <3>1. before[n] = "interviewing"
        BY <1>1, <2>1 DEF Consistent
      <3>2. Unpublished(World, before, n)
        BY <1>1, <2>1, <3>1 DEF Unpublished
      <3>3. ~Subscribed(World, n)
        BY <3>2 DEF Unknown
      <3>4. QED
        BY <1>1, <2>1, <3>3 DEF Subscribed
    <2>2. CASE status[n] # "interviewing"
      BY <2>2 DEF FreeObject
    <2>3. QED
      BY <2>1, <2>2
  <1>4. Become(v) /\ UNCHANGED failing
    <2>1. Become([w EXCEPT !.status[n] = "gone", !.prev[n] = "none"]) /\ UNCHANGED failing
      BY DEF NodeRemoved, Rest
    <2>2. w = [World EXCEPT !.obj = o]
      BY DEF ShutdownSubscriptions, World
    <2> HIDE DEF w, o
    <2>3. [w EXCEPT !.status[n] = "gone", !.prev[n] = "none"] = v
      BY <2>2 DEF World
    <2>4. QED
      BY <2>1, <2>3
  <1>5. "gone" \in Status /\ "none" \in Saved /\ "gone" \notin Online
    BY DEF Status, Saved, Online
  <1>6. /\ s \in [Nodes -> Status] /\ s[n] = "gone" /\ \A k \in Nodes : k # n => s[k] = status[k]
        /\ p \in [Nodes -> Saved] /\ \A k \in Nodes : k # n => p[k] = prev[k]
    BY <1>1, <1>5
  <1> HIDE DEF o, s, p
  <1>7. v \in WorldType /\ v.obj = o /\ v.status = s /\ v.prev = p /\ v.db = db
    BY <1>1, <1>2, <1>6 DEF WorldType, World
  <1> HIDE DEF v
  <1>8. Quiet(World, v, before)
    <2>1. \A k \in Nodes : Unpublished(v, before, k) => k # n /\ Unpublished(World, before, k)
      BY <1>1, <1>6, <1>7 DEF Unpublished
    <2>2. \A k \in Nodes : Subscribed(v, k) => Subscribed(World, k)
      BY <1>1, <1>2, <1>7 DEF Subscribed
    <2>3. QED
      BY <1>1, <1>7, <2>1, <2>2 DEF Quiet
  <1>9. NoneOpened(v)
    BY <1>2, <1>7 DEF NoneOpened
  <1>10. \A k \in Nodes : v.status[k] \in Online => v.status[k] = before[k]
    BY <1>1, <1>5, <1>6, <1>7 DEF Consistent
  <1>11. StepOK
    BY <1>4, <1>7, <1>8, <1>9, <1>10, QuietStep
  <1>12. obj' = o
    BY <1>4, <1>7 DEF Become
  <1>13. QED
    BY <1>3, <1>11, <1>12

\* No node is left.
LEMMA FabricWillBeRemovedStep ==
  ASSUME IInv, Unknown, FabricWillBeRemoved
  PROVE  StepOK
  <1> DEFINE o == [i \in Objects |-> IF obj[i].st = "open" THEN FreeObject ELSE obj[i]]
  <1>1. obj' = o /\ status' = [n \in Nodes |-> "gone"]
    BY DEF FabricWillBeRemoved, Become, World
  <1>2. \A i \in Objects : obj[i].st = "free" => o[i].st # "connecting"
    OBVIOUS
  <1>3. Unknown'
    BY <1>1 DEF Unknown, Unpublished, World
  <1>4. RetriesOnce
    BY <1>1, <1>2 DEF RetriesOnce
  <1>5. QED
    BY <1>3, <1>4 DEF StepOK

\* The list read at start-up has the nodes of the table only.
LEMMA RestartStep ==
  ASSUME IInv, Unknown, Restart
  PROVE  StepOK
  <1>1. /\ obj' = [i \in Objects |-> FreeObject] /\ failing' \in read_failing_nodes(db)
        /\ UNCHANGED <<status, prev, db, before>>
    BY DEF Restart
  <1>2. \A i \in Objects : obj'[i].st = "free"
    BY <1>1 DEF FreeObject
  <1>3. \A k \in DOMAIN failing' : db[failing'[k].node] # None
    <2> DEFINE failed == {n \in Nodes : db[n] # None}
               len == Cardinality(failed)
    <2>1. PICK rows \in [1 .. len -> failed] : failing' = [k \in DOMAIN rows |-> [node |-> rows[k], time |-> db[rows[k]]]]
      BY <1>1 DEF read_failing_nodes
    <2> HIDE DEF len
    <2>2. QED
      BY <2>1
  <1>4. \A n \in Nodes : Unpublished(World, before, n)' => Unpublished(World, before, n)
    BY <1>1 DEF Unpublished, World
  <1>5. \A n \in Nodes : ~Subscribed(World, n)'
    BY <1>2 DEF Subscribed, World
  <1>6. Unknown'
    BY <1>1, <1>3, <1>4, <1>5 DEF Unknown
  <1>7. RetriesOnce
    BY <1>2 DEF RetriesOnce
  <1>8. QED
    BY <1>6, <1>7 DEF StepOK

\* The recovery after boot subscribes to nodes of its list only.
LEMMA RecoverNextStep ==
  ASSUME IInv, Unknown, recover_next_failing_node
  PROVE  StepOK
  <1> DEFINE size == IF Len(failing) < MaxBatch THEN Len(failing) ELSE MaxBatch
             batch == SubSeq(failing, 1, size)
  <1>1. PICK w \in WorldType : Consistent(w, before) /\ Recovery(w, batch) /\ Become(w)
    BY BatchOK DEF recover_next_failing_node
  <1>2. failing \in Seq(FailingEntry) /\ Len(failing) \in Nat /\ size \in 0 .. Len(failing)
    BY MonitorAssumption DEF IInv, TypeOK
  <1>3. Len(batch) = size /\ \A k \in DOMAIN batch : k \in DOMAIN failing /\ batch[k] = failing[k]
    BY <1>2, SubSeqProperties
  <1>4. failing' = SubSeq(failing, size + 1, Len(failing))
    BY <1>3 DEF recover_next_failing_node
  <1>5. \A k \in DOMAIN failing' : \E j \in DOMAIN failing : failing'[k] = failing[j]
    <2> HIDE DEF size
    <2>1. QED
      BY <1>2, <1>4, SubSeqProperties
  <1> HIDE DEF batch
  <1>6. /\ status' = w.status /\ prev' = w.prev /\ db' = w.db /\ ongoing' = w.ongoing /\ obj' = w.obj
        /\ before' = [n \in Nodes |-> IF w.status[n] \in Online THEN w.status[n] ELSE before[n]]
    BY <1>1 DEF Become
  <1>7. before' = before
    BY <1>1, <1>6 DEF IInv, TypeOK, Consistent
  <1>8. World' = w /\ World.obj = obj /\ World.status = status /\ World.prev = prev
    BY <1>1, <1>6 DEF World, WorldType
  <1>9. Unknown'
    <2> SUFFICES ASSUME NEW n \in Nodes, Unpublished(w, before, n)
                 PROVE  /\ w.db[n] = None /\ ~Subscribed(w, n)
                        /\ \A k \in DOMAIN failing' : failing'[k].node # n
      BY <1>6, <1>7, <1>8 DEF Unknown
    <2>1. Unpublished(World, before, n)
      BY <1>1, <1>8 DEF Unpublished, Recovery
    <2>2. /\ db[n] = None /\ ~Subscribed(World, n)
          /\ \A k \in DOMAIN failing : failing[k].node # n
      BY <2>1 DEF Unknown
    <2>3. w.db[n] = None
      BY <1>1, <2>2 DEF Recovery
    <2>4. ~Subscribed(w, n)
      BY <1>1, <1>3, <1>8, <2>2 DEF Recovery, Subscribed
    <2>5. QED
      BY <1>5, <2>2, <2>3, <2>4
  <1>10. RetriesOnce
    BY <1>1, <1>6, <1>8 DEF Recovery, KeepsObjects, RetriesOnce
  <1>11. QED
    BY <1>9, <1>10 DEF StepOK

\* The end of an interview publishes its node.
LEMMA ResolutionCompletionStep ==
  ASSUME IInv, Unknown, NEW n \in Nodes, ResolutionCompletion(n)
  PROVE  StepOK
  <1>1. PICK st \in {"functional", "nonfunctional"} :
          Become(mpc_node_monitor_initiate_monitoring([World EXCEPT !.status[n] = st], n, FALSE))
    BY DEF ResolutionCompletion
  <1> DEFINE s == [status EXCEPT ![n] = st]
             w == [World EXCEPT !.status = s]
             v == mpc_node_monitor_initiate_monitoring(w, n, FALSE)
  <1>2. /\ World \in WorldType /\ Consistent(World, before) /\ before \in [Nodes -> Online]
        /\ status \in [Nodes -> Status] /\ UNCHANGED failing
        /\ World.status = status /\ World.prev = prev /\ World.db = db /\ World.obj = obj
    BY WorldTyped DEF IInv, TypeOK, ResolutionCompletion, Rest, World
  <1>3. st \in Online /\ st \in Status /\ st # "interviewing"
    BY DEF Online, Status
  <1>4. Become(v)
    BY <1>1 DEF World
  <1>5. s \in [Nodes -> Status] /\ s[n] = st /\ \A k \in Nodes : k # n => s[k] = status[k]
    BY <1>2, <1>3
  <1> HIDE DEF s
  <1>6. w \in WorldType /\ w.status = s /\ w.prev = prev /\ w.db = db /\ w.obj = obj
    BY <1>2, <1>5 DEF WorldType, World
  <1> HIDE DEF w
  <1>7. Opened(w, v, n)
    BY <1>6, InitiateOpens
  <1> HIDE DEF v
  <1>8. /\ v \in WorldType /\ v.status = s /\ v.prev = prev /\ v.db = db
        /\ \A k \in Objects : v.obj[k] = obj[k] \/ (obj[k].st = "free" /\ v.obj[k].node = n)
    BY <1>6, <1>7 DEF Opened
  <1>9. /\ status' = v.status /\ prev' = v.prev /\ db' = v.db /\ ongoing' = v.ongoing /\ obj' = v.obj
        /\ before' = [k \in Nodes |-> IF v.status[k] \in Online THEN v.status[k] ELSE before[k]]
    BY <1>4 DEF Become
  <1>10. before'[n] = st /\ \A k \in Nodes : k # n => before'[k] = before[k]
    BY <1>2, <1>3, <1>5, <1>8, <1>9 DEF Consistent
  <1>11. World' = v
    BY <1>8, <1>9 DEF World, WorldType
  <1>12. Unknown'
    <2> SUFFICES ASSUME NEW k \in Nodes, Unpublished(v, before', k)
                 PROVE  /\ db'[k] = None /\ ~Subscribed(v, k)
                        /\ \A j \in DOMAIN failing' : failing'[j].node # k
      BY <1>11 DEF Unknown
    <2>1. k # n
      BY <1>3, <1>10 DEF Unpublished
    <2>2. Unpublished(World, before, k)
      BY <1>2, <1>5, <1>8, <1>10, <2>1 DEF Unpublished
    <2>3. /\ db[k] = None /\ ~Subscribed(World, k)
          /\ \A j \in DOMAIN failing : failing[j].node # k
      BY <2>2 DEF Unknown
    <2>4. ~Subscribed(v, k)
      BY <1>2, <1>8, <2>1, <2>3 DEF Subscribed
    <2>5. QED
      BY <1>2, <1>8, <1>9, <2>3, <2>4
  <1>13. RetriesOnce
    BY <1>8, <1>9 DEF RetriesOnce
  <1>14. QED
    BY <1>12, <1>13 DEF StepOK

-----------------------------------------------------------------------------
\* At first no unpublished node is known.
LEMMA InitUnknown == Init => Unknown
  BY DEF Init, Unknown, Subscribed, World, FreeObject

\* Every step keeps the invariant, tries a subscription again once, and leaves none to a
\* node that says goodbye.
LEMMA StepKeepsUnknown ==
  ASSUME IInv, Unknown, [Next]_vars
  PROVE  StepOK
  <1>1. ASSUME World' = World, UNCHANGED <<db, obj, failing, before>>
        PROVE  StepOK
    BY <1>1 DEF StepOK, Unknown, RetriesOnce
  <1>2. ASSUME NEW n \in Nodes, VolatileAttributeDiscovered(n) PROVE StepOK
    BY <1>1, <1>2 DEF VolatileAttributeDiscovered, World
  <1>3. CASE Tick
    BY <1>1, <1>3 DEF Tick, World
  <1>4. CASE UNCHANGED vars
    BY <1>1, <1>4 DEF vars, World
  <1>5. ASSUME NEW n \in Nodes, NEW error \in Error, RequestAnswered(n) \/ RequestFails(n, error)
        PROVE  StepOK
    BY <1>5, MessageStep DEF RequestAnswered, RequestFails
  <1>6. ASSUME NEW i \in Objects, Report(i) PROVE StepOK
    <2>1. obj[i].node \in Nodes /\ "other" \in Error
      BY <1>6 DEF Report, IInv, Consistent, World, Error
    <2>2. QED
      BY <1>6, <2>1, MessageStep DEF Report
  <1>7. CASE \E n \in Nodes : \/ VolatileAttributeDiscovered(n) \/ ResolutionCompletion(n)
                              \/ RequestAnswered(n) \/ NodeRemoved(n)
                              \/ \E error \in Error : RequestFails(n, error)
    <2>1. "other" \in Error
      BY DEF Error
    <2>2. QED
      BY <1>2, <1>5, <1>7, <2>1, ResolutionCompletionStep, NodeRemovedStep
  <1>8. CASE \E i \in Objects : \/ SubscribeSent(i) \/ ConnectionFails(i) \/ Report(i)
                        \/ \E error \in Error : SubscribeSendFails(i, error) \/ SubscriptionFails(i, error)
    BY <1>6, <1>8, SubscribeSentStep, ConnectionFailsStep, SubscribeSendFailsStep, SubscriptionFailsStep
  <1>9. QED
    BY <1>3, <1>4, <1>7, <1>8, FabricWillBeRemovedStep, RestartStep, RecoverNextStep DEF Next

\* And none ever is.
LEMMA UnknownInvariant == Spec => [](IInv /\ Unknown)
  <1>1. IInv /\ Unknown /\ [Next]_vars => (IInv /\ Unknown)'
    BY StepImplements, StepKeepsUnknown DEF StepOK
  <1>2. QED
    BY InitIInv, InitUnknown, <1>1, PTL DEF Spec

\* mpc_node_removal_handle leaves no subscription of the node behind, although it shuts
\* none down for a node that is interviewed.
THEOREM GoodbyeIsClean == Spec => GoodbyeUnsubscribes
  <1>1. IInv /\ Unknown /\ [Next]_vars =>
          [\A n \in Nodes : NodeRemoved(n) => \A i \in Objects : ~(obj'[i].st = "open" /\ obj'[i].node = n)]_vars
    BY NodeRemovedStep
  <1>2. QED
    BY UnknownInvariant, <1>1, PTL DEF Spec, GoodbyeUnsubscribes

\* A subscription that is tried again after a timeout is not tried a third time
\* (mReSubscribe in MPCNodeReportablesDelegate::OnError), whatever else goes on.
THEOREM RetriedOnce == Spec => ResubscribesOnce
  <1>1. IInv /\ Unknown /\ [Next]_vars => [RetriesOnce]_vars
    BY StepKeepsUnknown DEF StepOK
  <1>2. QED
    BY UnknownInvariant, <1>1, PTL DEF Spec, ResubscribesOnce, RetriesOnce

-----------------------------------------------------------------------------
(***************************************************************************)
(* Recovery after boot: what BootRecoveryDrains needs besides fairness.    *)
(***************************************************************************)

\* While rows read at boot wait for their turn, the process has its timer running or
\* its first event posted: none of the three ways recover_next_failing_node ends
\* leaves them behind.
RecoveryArmed == failing # <<>> => process = "armed"

\* Nothing but a boot adds to the rows that wait, and each run of the process takes at
\* least one of them.
BatchTaken ==
  /\ ~Restart => Len(failing') <= Len(failing)
  /\ recover_next_failing_node /\ failing # <<>> => Len(failing') < Len(failing)

\* What a run of the process leaves of the list.
LEMMA BatchLength ==
  ASSUME TypeOK, recover_next_failing_node
  PROVE  LET n == IF Len(failing) < MaxBatch THEN Len(failing) ELSE MaxBatch
         IN  Len(failing) \in Nat /\ n \in Nat /\ Len(failing') = Len(failing) - n
  <1> DEFINE n == IF Len(failing) < MaxBatch THEN Len(failing) ELSE MaxBatch
  <1> USE MonitorAssumption
  <1>1. failing \in Seq(FailingEntry) /\ Len(failing) \in Nat /\ MaxBatch \in Nat \ {0}
    BY DEF TypeOK
  <1>2. n \in Nat /\ n <= Len(failing)
    BY <1>1
  <1>3. Len(SubSeq(failing, 1, n)) = n
    BY <1>1, <1>2
  <1>4. failing' = SubSeq(failing, n + 1, Len(failing))
    BY <1>3 DEF recover_next_failing_node
  <1>5. Len(failing') = Len(failing) - n
    <2> HIDE DEF n
    <2>1. \A i \in n + 1 .. Len(failing) : failing[i] \in FailingEntry
      BY <1>1, <1>2
    <2>2. n + 1 \in Int /\ Len(failing) \in Int
      BY <1>1, <1>2
    <2>3. Len(SubSeq(failing, n + 1, Len(failing))) =
            IF n + 1 <= Len(failing) THEN Len(failing) - (n + 1) + 1 ELSE 0
      BY <2>1, <2>2, SubSeqProperties
    <2>4. QED
      BY <1>1, <1>2, <1>4, <2>3
  <1>6. QED
    BY <1>1, <1>2, <1>5

\* A step keeps the process armed.
LEMMA StepKeepsArmed == TypeOK /\ TypeOK' /\ RecoveryArmed /\ [Next]_vars => RecoveryArmed' /\ (BatchTaken \/ UNCHANGED vars)
  <1> SUFFICES ASSUME TypeOK, TypeOK', RecoveryArmed, [Next]_vars
               PROVE  RecoveryArmed' /\ (BatchTaken \/ UNCHANGED vars)
    OBVIOUS
  <1>0. Len(failing) \in Nat /\ failing' \in Seq(FailingEntry)
    BY DEF TypeOK
  <1>1. CASE recover_next_failing_node
    <2> DEFINE n == IF Len(failing) < MaxBatch THEN Len(failing) ELSE MaxBatch
    <2>1. n \in Nat /\ Len(failing') = Len(failing) - n /\ MaxBatch \in Nat \ {0}
      BY <1>1, BatchLength, MonitorAssumption
    <2>2. process' = CASE Len(failing) > MaxBatch -> "armed"
                       [] Len(failing) = MaxBatch -> "idle"
                       [] OTHER -> "exited"
      BY <1>1 DEF recover_next_failing_node
    <2>3. CASE Len(failing) > MaxBatch
      <3>1. process' = "armed" /\ n = MaxBatch
        BY <2>1, <2>2, <2>3, <1>0
      <3>2. QED
        BY <2>1, <3>1, <1>0 DEF RecoveryArmed, BatchTaken
    <2>4. CASE Len(failing) <= MaxBatch
      <3>1. Len(failing') = 0
        BY <2>1, <2>4, <1>0
      <3>2. failing' = <<>>
        BY <3>1, <1>0
      <3>3. failing # <<>> => Len(failing) > 0
        BY <1>0 DEF TypeOK
      <3>4. QED
        BY <3>1, <3>2, <3>3, <1>0 DEF RecoveryArmed, BatchTaken
    <2>5. QED
      BY <2>1, <2>3, <2>4, <1>0
  <1>2. CASE Restart
    <2>1. RecoveryArmed'
      BY <1>2 DEF Restart, RecoveryArmed
    <2>2. CASE recover_next_failing_node
      BY <1>1, <2>2
    <2>3. CASE ~recover_next_failing_node
      BY <1>2, <2>1, <2>3 DEF BatchTaken
    <2>4. QED
      BY <2>2, <2>3
  <1>3. CASE UNCHANGED <<failing, process>>
    <2>1. RecoveryArmed'
      BY <1>3 DEF RecoveryArmed
    <2>2. CASE recover_next_failing_node
      BY <1>1, <2>2
    <2>3. CASE ~recover_next_failing_node
      BY <1>0, <1>3, <2>1, <2>3 DEF BatchTaken
    <2>4. QED
      BY <2>1, <2>2, <2>3
  <1>4. QED
    BY <1>1, <1>2, <1>3 DEF Next, vars, Rest, VolatileAttributeDiscovered, ResolutionCompletion,
       RequestAnswered, NodeRemoved, RequestFails, SubscribeSent, ConnectionFails, Report,
       SubscribeSendFails, SubscriptionFails, FabricWillBeRemoved, Tick

\* The recovery after boot never stops half way: while rows wait, the process will be
\* called again (mpc_failing_node_auto_recovery_process), for any batch size.
THEOREM RecoveryGoesOn == Spec => []RecoveryArmed
  <1>1. Init => RecoveryArmed
    BY DEF Init, RecoveryArmed
  <1>2. TypeOK /\ TypeOK' /\ RecoveryArmed /\ [Next]_vars => RecoveryArmed'
    BY StepKeepsArmed
  <1>3. QED
    BY <1>1, <1>2, TypeCorrect, PTL DEF Spec

\* Only a boot adds rows to the ones that wait, and every call of the process takes
\* some: with RecoveryGoesOn, as many calls as there are rows empty the list.
THEOREM RecoveryAdvances == Spec => [][BatchTaken]_vars
  <1>1. TypeOK /\ TypeOK' /\ RecoveryArmed /\ [Next]_vars => [BatchTaken]_vars
    BY StepKeepsArmed
  <1>2. QED
    BY <1>1, TypeCorrect, RecoveryGoesOn, PTL DEF Spec
=============================================================================
