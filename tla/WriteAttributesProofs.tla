----------------------- MODULE WriteAttributesProofs -----------------------
(***************************************************************************)
(* Proofs about WriteAttributes, for any nodes, attributes, values and     *)
(* requests: the state keeps its type, no write is left hanging, and what  *)
(* is reported is what the device confirmed.                               *)
(*                                                                         *)
(* The callbacks are operators on a record of the state, and so is the     *)
(* invariant: each operator is shown to keep Inv(w), and each action to    *)
(* compose them.                                                           *)
(***************************************************************************)
EXTENDS WriteAttributes, TLAPS

\* The record of the state, typed.
WorldType ==
  [status : [Nodes -> Status], prev : [Nodes -> Saved], db : [Nodes -> {None, 0}],
   desired : [Nodes -> [Attrs -> Values]], reported : [Nodes -> [Attrs -> Values]],
   req : [Requests -> Request], writes : 0 .. MaxWrites, open : SUBSET Paths,
   confirmed : [Nodes -> [Attrs -> Values]], mixed : SUBSET Paths]

\* Request r of w is under way and writes attribute a of node n.
Writing(w, r, n, a) == w.req[r].st # "free" /\ w.req[r].node = n /\ a \in w.req[r].paths

\* A request under way has a node, and only what it writes was sent.
RequestsOK(w) ==
  \A r \in Requests : /\ w.req[r].asked \subseteq w.req[r].paths
                      /\ w.req[r].st # "free" => w.req[r].node \in Nodes

\* Settled, of the record.
NoneHangs(w) ==
  \A n \in Nodes, a \in Attrs :
    w.status[n] # "gone" /\ w.desired[n][a] # w.reported[n][a]
      => InFlight(w, n, a) \/ <<n, a>> \in w.open

\* ReportedIsConfirmed, of the record.
AllConfirmed(w) ==
  \A n \in Nodes, a \in Attrs :
    w.status[n] # "gone" /\ <<n, a>> \notin w.mixed => w.reported[n][a] = w.confirmed[n][a]

\* What makes that inductive: an attribute that is not mixed has at most one write
\* under way, and its desired value is still the one that write carries.
WriteIsOwn(w) ==
  \A n \in Nodes, a \in Attrs, r \in Requests :
    w.status[n] # "gone" /\ <<n, a>> \notin w.mixed /\ Writing(w, r, n, a) =>
      /\ w.desired[n][a] = w.req[r].val[a]
      /\ \A s \in Requests : Writing(w, s, n, a) => s = r

\* All of it, of the record.
Inv(w) == w \in WorldType /\ RequestsOK(w) /\ NoneHangs(w) /\ AllConfirmed(w) /\ WriteIsOwn(w)

\* The inductive invariant.
IInv == Inv(World)

\* v differs from w in what FailingNode changes, and no node comes or goes.
OnlyStatus(w, v) ==
  /\ v \in WorldType
  /\ v.desired = w.desired /\ v.reported = w.reported /\ v.req = w.req
  /\ v.writes = w.writes /\ v.open = w.open /\ v.confirmed = w.confirmed /\ v.mixed = w.mixed
  /\ \A n \in Nodes : v.status[n] = "gone" <=> w.status[n] = "gone"

\* A change of statuses alone keeps the invariant: it neither adds a live node nor
\* touches a value or a request.
LEMMA StatusKeepsInv ==
  ASSUME NEW w, NEW v, Inv(w), OnlyStatus(w, v)
  PROVE  Inv(v)
  <1>1. RequestsOK(v)
    BY DEF Inv, OnlyStatus, RequestsOK
  <1>2. NoneHangs(v)
    BY DEF Inv, OnlyStatus, NoneHangs, InFlight
  <1>3. AllConfirmed(v)
    BY DEF Inv, OnlyStatus, AllConfirmed
  <1>4. WriteIsOwn(v)
    BY DEF Inv, OnlyStatus, WriteIsOwn, Writing
  <1>5. QED
    BY <1>1, <1>2, <1>3, <1>4 DEF Inv, OnlyStatus

\* mpc_mark_device_as_failing changes the status, the saved state and the table only.
LEMMA MarkOnlyStatus ==
  ASSUME NEW w \in WorldType, NEW n \in Nodes
  PROVE  OnlyStatus(w, mpc_mark_device_as_failing(w, n, 0))
  <1> DEFINE marked == [w EXCEPT !.prev[n] = w.status[n], !.status[n] = "offline"]
             m == mpc_mark_device_as_failing(w, n, 0)
  <1>1. w.status \in [Nodes -> Status] /\ w.prev \in [Nodes -> Saved] /\ w.db \in [Nodes -> {None, 0}]
    BY DEF WorldType
  <1>2. CASE w.status[n] = "gone"
    BY <1>2 DEF mpc_mark_device_as_failing, OnlyStatus
  <1>3. CASE w.status[n] # "gone"
    <2>1. w.status[n] \in Saved /\ "offline" \in Status
      BY <1>1, <1>3 DEF Status, Saved, Online
    <2>2. [w.status EXCEPT ![n] = "offline"] \in [Nodes -> Status]
          /\ [w.prev EXCEPT ![n] = w.status[n]] \in [Nodes -> Saved]
      BY <1>1, <2>1
    <2>3. /\ marked \in WorldType /\ marked.db = w.db
          /\ marked.desired = w.desired /\ marked.reported = w.reported /\ marked.req = w.req
          /\ marked.writes = w.writes /\ marked.open = w.open /\ marked.confirmed = w.confirmed
          /\ marked.mixed = w.mixed /\ marked.status = [w.status EXCEPT ![n] = "offline"]
      BY <2>2 DEF WorldType
    <2> HIDE DEF marked
    <2>4. OnlyStatus(w, marked)
      BY <1>1, <1>3, <2>3 DEF OnlyStatus
    <2>5. OnlyStatus(w, insert_failing_node(marked, n, 0))
      <3> DEFINE row == IF marked.db[n] = None THEN 0 ELSE marked.db[n]
                 d == [marked.db EXCEPT ![n] = row]
                 v == [marked EXCEPT !.db = d]
      <3>1. d \in [Nodes -> {None, 0}]
        BY <1>1, <2>3
      <3>2. insert_failing_node(marked, n, 0) = v
        BY DEF insert_failing_node
      <3> HIDE DEF d
      <3>3. /\ v \in WorldType
            /\ v.desired = marked.desired /\ v.reported = marked.reported /\ v.req = marked.req
            /\ v.writes = marked.writes /\ v.open = marked.open /\ v.confirmed = marked.confirmed
            /\ v.mixed = marked.mixed /\ v.status = marked.status
        BY <2>3, <3>1 DEF WorldType
      <3> HIDE DEF v
      <3>4. QED
        BY <2>4, <3>2, <3>3 DEF OnlyStatus
    <2>6. m = marked \/ m = insert_failing_node(marked, n, 0)
      BY <1>3 DEF mpc_mark_device_as_failing, marked
    <2>7. QED
      BY <2>4, <2>5, <2>6
  <1>4. QED
    BY <1>2, <1>3

\* So does check_and_mark_failing_node, whether the error counts or not.
LEMMA CheckOnlyStatus ==
  ASSUME NEW w \in WorldType, NEW n \in Nodes, NEW error
  PROVE  OnlyStatus(w, check_and_mark_failing_node(w, n, error, 0))
  <1>1. OnlyStatus(w, w)
    BY DEF OnlyStatus
  <1>2. QED
    BY <1>1, MarkOnlyStatus DEF check_and_mark_failing_node

\* So does the loop that marks once for each path of a request.
LEMMA MarkTimes ==
  ASSUME NEW w \in WorldType, NEW n \in Nodes, NEW error, NEW times
  PROVE  OnlyStatus(w, Mark(w, n, error, times))
  <1> DEFINE once == check_and_mark_failing_node(w, n, error, 0)
             twice == check_and_mark_failing_node(once, n, error, 0)
  <1>1. OnlyStatus(w, w)
    BY DEF OnlyStatus
  <1>2. OnlyStatus(w, once)
    BY CheckOnlyStatus
  <1>3. OnlyStatus(once, twice)
    BY <1>2, CheckOnlyStatus DEF OnlyStatus
  <1>4. OnlyStatus(w, twice)
    BY <1>2, <1>3 DEF OnlyStatus
  <1>5. Mark(w, n, error, times) \in {w, once, twice}
    BY DEF Mark
  <1>6. QED
    BY <1>1, <1>2, <1>4, <1>5

\* So does mpc_failing_node_recovery.
LEMMA RecoveryOnlyStatus ==
  ASSUME NEW w \in WorldType, NEW n \in Nodes
  PROVE  OnlyStatus(w, mpc_failing_node_recovery(w, n))
  <1> DEFINE v == mpc_failing_node_recovery(w, n)
  <1>1. CASE v = w
    BY <1>1 DEF OnlyStatus
  <1>2. CASE v # w
    <2>1. /\ v = [w EXCEPT !.status = [w.status EXCEPT ![n] = w.prev[n]],
                           !.prev = [w.prev EXCEPT ![n] = "none"], !.db = [w.db EXCEPT ![n] = None]]
          /\ w.status[n] = "offline" /\ w.prev[n] # "none"
      BY <1>2 DEF mpc_failing_node_recovery
    <2>2. /\ w.status \in [Nodes -> Status] /\ w.prev \in [Nodes -> Saved]
          /\ w.db \in [Nodes -> {None, 0}]
      BY DEF WorldType
    <2>3. w.prev[n] \in Status /\ w.prev[n] # "gone" /\ "none" \in Saved
      BY <2>1, <2>2 DEF Status, Saved, Online
    <2>4. /\ [w.status EXCEPT ![n] = w.prev[n]] \in [Nodes -> Status]
          /\ [w.prev EXCEPT ![n] = "none"] \in [Nodes -> Saved]
          /\ [w.db EXCEPT ![n] = None] \in [Nodes -> {None, 0}]
      BY <2>2, <2>3
    <2>5. /\ v \in WorldType /\ v.status = [w.status EXCEPT ![n] = w.prev[n]]
          /\ v.desired = w.desired /\ v.reported = w.reported /\ v.req = w.req
          /\ v.writes = w.writes /\ v.open = w.open /\ v.confirmed = w.confirmed /\ v.mixed = w.mixed
      BY <2>1, <2>4 DEF WorldType
    <2> HIDE DEF v
    <2>6. QED
      BY <2>1, <2>2, <2>3, <2>5 DEF OnlyStatus, v
  <1>3. QED
    BY <1>1, <1>2

-----------------------------------------------------------------------------
(* myWriteCallbackFunction *)

\* What a callback reaches, through a stale store node too, are paths.
LEMMA ReachedPaths ==
  ASSUME NEW w, NEW n \in Nodes, NEW as \in SUBSET Attrs, NEW wild \in SUBSET Paths
  PROVE  Reached(w, n, as, wild) \in SUBSET Paths
  BY DEF Reached, Paths

\* What a failure does to w.
Undone(w, v, n, as, wild) ==
  /\ v \in WorldType
  /\ v.status = w.status /\ v.reported = w.reported /\ v.req = w.req /\ v.confirmed = w.confirmed
  /\ v.open = w.open \ Reached(w, n, as, wild)
  /\ w.status[n] = "gone" => v.mixed = w.mixed \cup wild
  /\ w.status[n] # "gone" => v.mixed = w.mixed
  /\ \A m \in Nodes, a \in Attrs :
       /\ <<m, a>> \in Reached(w, n, as, wild) => v.desired[m][a] = w.reported[m][a]
       /\ <<m, a>> \notin Reached(w, n, as, wild) => v.desired[m][a] = w.desired[m][a]

\* What a success does to w.
Done(w, v, n, as, wild) ==
  /\ v \in WorldType
  /\ v.status = w.status /\ v.desired = w.desired /\ v.req = w.req /\ v.confirmed = w.confirmed
  /\ v.open = w.open \ Reached(w, n, as, wild)
  /\ w.status[n] = "gone" => v.mixed = w.mixed \cup wild
  /\ w.status[n] # "gone" => v.mixed = w.mixed
  /\ \A m \in Nodes, a \in Attrs :
       /\ <<m, a>> \in Reached(w, n, as, wild) => v.reported[m][a] = w.desired[m][a]
       /\ <<m, a>> \notin Reached(w, n, as, wild) => v.reported[m][a] = w.reported[m][a]

\* The failure callback does what Undone says.
LEMMA FailureUndoes ==
  ASSUME NEW w \in WorldType, NEW n \in Nodes, NEW as \in SUBSET Attrs, NEW wild \in SUBSET Paths
  PROVE  Undone(w, Failure(w, n, as, wild), n, as, wild)
  <1> DEFINE hit == Reached(w, n, as, wild)
             d == [m \in Nodes |-> [a \in Attrs |-> IF <<m, a>> \in hit THEN w.reported[m][a] ELSE w.desired[m][a]]]
             x == IF w.status[n] = "gone" THEN w.mixed \cup wild ELSE w.mixed
             v == [w EXCEPT !.desired = d, !.open = w.open \ hit, !.mixed = x]
  <1>1. Failure(w, n, as, wild) = v
    BY DEF Failure
  <1>2. /\ w.desired \in [Nodes -> [Attrs -> Values]] /\ w.reported \in [Nodes -> [Attrs -> Values]]
        /\ w.open \in SUBSET Paths /\ w.mixed \in SUBSET Paths
    BY DEF WorldType
  <1> HIDE DEF hit
  <1>3. d \in [Nodes -> [Attrs -> Values]] /\ w.open \ hit \in SUBSET Paths /\ x \in SUBSET Paths
    BY <1>2
  <1>4. \A m \in Nodes, a \in Attrs :
          /\ <<m, a>> \in hit => d[m][a] = w.reported[m][a]
          /\ <<m, a>> \notin hit => d[m][a] = w.desired[m][a]
    OBVIOUS
  <1>5. /\ w.status[n] = "gone" => x = w.mixed \cup wild
        /\ w.status[n] # "gone" => x = w.mixed
    OBVIOUS
  <1> HIDE DEF d, x
  <1>6. /\ v \in WorldType
        /\ v.status = w.status /\ v.reported = w.reported
        /\ v.req = w.req /\ v.confirmed = w.confirmed
        /\ v.open = w.open \ hit /\ v.mixed = x /\ v.desired = d
    BY <1>3 DEF WorldType
  <1> HIDE DEF v
  <1>7. Undone(w, v, n, as, wild)
    BY <1>4, <1>5, <1>6 DEF Undone, hit
  <1>8. QED
    BY <1>1, <1>7

\* The success callback does what Done says.
LEMMA SuccessDoes ==
  ASSUME NEW w \in WorldType, NEW n \in Nodes, NEW as \in SUBSET Attrs, NEW wild \in SUBSET Paths
  PROVE  Done(w, Success(w, n, as, wild), n, as, wild)
  <1> DEFINE hit == Reached(w, n, as, wild)
             d == [m \in Nodes |-> [a \in Attrs |-> IF <<m, a>> \in hit THEN w.desired[m][a] ELSE w.reported[m][a]]]
             x == IF w.status[n] = "gone" THEN w.mixed \cup wild ELSE w.mixed
             v == [w EXCEPT !.reported = d, !.open = w.open \ hit, !.mixed = x]
  <1>1. Success(w, n, as, wild) = v
    BY DEF Success
  <1>2. /\ w.desired \in [Nodes -> [Attrs -> Values]] /\ w.reported \in [Nodes -> [Attrs -> Values]]
        /\ w.open \in SUBSET Paths /\ w.mixed \in SUBSET Paths
    BY DEF WorldType
  <1> HIDE DEF hit
  <1>3. d \in [Nodes -> [Attrs -> Values]] /\ w.open \ hit \in SUBSET Paths /\ x \in SUBSET Paths
    BY <1>2
  <1>4. \A m \in Nodes, a \in Attrs :
          /\ <<m, a>> \in hit => d[m][a] = w.desired[m][a]
          /\ <<m, a>> \notin hit => d[m][a] = w.reported[m][a]
    OBVIOUS
  <1>5. /\ w.status[n] = "gone" => x = w.mixed \cup wild
        /\ w.status[n] # "gone" => x = w.mixed
    OBVIOUS
  <1> HIDE DEF d, x
  <1>6. /\ v \in WorldType
        /\ v.status = w.status /\ v.desired = w.desired
        /\ v.req = w.req /\ v.confirmed = w.confirmed
        /\ v.open = w.open \ hit /\ v.mixed = x /\ v.reported = d
    BY <1>3 DEF WorldType
  <1> HIDE DEF v
  <1>7. Done(w, v, n, as, wild)
    BY <1>4, <1>5, <1>6 DEF Done, hit
  <1>8. QED
    BY <1>1, <1>7

\* A deleted request frees its slot and nothing else.
LEMMA ForgetFields ==
  ASSUME NEW w \in WorldType, NEW r \in Requests
  PROVE  LET v == Forget(w, r)
         IN  /\ v \in WorldType /\ v.req[r] = FreeRequest
             /\ \A s \in Requests : s # r => v.req[s] = w.req[s]
             /\ v.status = w.status /\ v.prev = w.prev /\ v.db = w.db /\ v.desired = w.desired
             /\ v.reported = w.reported /\ v.writes = w.writes /\ v.confirmed = w.confirmed
             /\ v.open = w.open /\ v.mixed = w.mixed
  <1> DEFINE q == [w.req EXCEPT ![r] = FreeRequest]
             v == [w EXCEPT !.req = q]
  <1>1. Forget(w, r) = v
    BY DEF Forget
  <1>2. FreeRequest \in Request
    BY WriteAssumption DEF FreeRequest, Request
  <1>3. w.req \in [Requests -> Request]
    BY DEF WorldType
  <1>4. q \in [Requests -> Request] /\ q[r] = FreeRequest /\ \A s \in Requests : s # r => q[s] = w.req[s]
    BY <1>2, <1>3
  <1> HIDE DEF q
  <1>5. /\ v \in WorldType /\ v.req = q
        /\ v.status = w.status /\ v.prev = w.prev /\ v.db = w.db /\ v.desired = w.desired
        /\ v.reported = w.reported /\ v.writes = w.writes /\ v.confirmed = w.confirmed
        /\ v.open = w.open /\ v.mixed = w.mixed
    BY <1>4 DEF WorldType
  <1>6. QED
    BY <1>1, <1>4, <1>5

\* A free slot writes nothing.
LEMMA FreeIsFree == FreeRequest.st = "free" /\ FreeRequest.asked = {} /\ FreeRequest.paths = {}
  BY DEF FreeRequest

\* A request all of whose paths have failed is settled and gone.
LEMMA FailedIsSettled ==
  ASSUME NEW w, Inv(w), NEW r \in Requests, w.req[r].st # "free", NEW wild \in SUBSET Paths
  PROVE  Inv(Forget(Failure(w, w.req[r].node, w.req[r].paths, wild), r))
  <1> DEFINE n == w.req[r].node
             as == w.req[r].paths
             hit == Reached(w, n, as, wild)
             v == Failure(w, n, as, wild)
             u == Forget(v, r)
  <1>1. w \in WorldType /\ n \in Nodes /\ as \in SUBSET Attrs
    BY DEF Inv, RequestsOK, WorldType, Request
  <1>2. /\ v \in WorldType
        /\ v.status = w.status /\ v.reported = w.reported
        /\ v.req = w.req /\ v.confirmed = w.confirmed
        /\ v.open = w.open \ hit
        /\ w.status[n] = "gone" => v.mixed = w.mixed \cup wild
        /\ w.status[n] # "gone" => v.mixed = w.mixed
        /\ \A m \in Nodes, a \in Attrs :
             /\ <<m, a>> \in hit => v.desired[m][a] = w.reported[m][a]
             /\ <<m, a>> \notin hit => v.desired[m][a] = w.desired[m][a]
    <2> HIDE DEF n, as
    <2>1. Undone(w, v, n, as, wild)
      BY <1>1, FailureUndoes
    <2>2. QED
      BY <2>1 DEF Undone
  <1> HIDE DEF v
  <1>3. /\ u \in WorldType /\ u.req[r] = FreeRequest
        /\ \A s \in Requests : s # r => u.req[s] = w.req[s]
        /\ u.status = v.status /\ u.desired = v.desired
        /\ u.reported = v.reported /\ u.confirmed = v.confirmed
        /\ u.open = v.open /\ u.mixed = v.mixed
    BY <1>2, ForgetFields
  <1> HIDE DEF u
  <1>4. w.status[n] # "gone" => hit = {n} \X as
    BY DEF Reached
  <1>5. w.status[n] = "gone" => hit = wild
    BY DEF Reached
  <1> HIDE DEF hit
  <1>6. RequestsOK(u)
    BY <1>3, FreeIsFree DEF Inv, RequestsOK
  <1>7. NoneHangs(u)
    <2> SUFFICES ASSUME NEW m \in Nodes, NEW a \in Attrs,
                        w.status[m] # "gone", u.desired[m][a] # u.reported[m][a]
                 PROVE  InFlight(u, m, a) \/ <<m, a>> \in u.open
      BY <1>2, <1>3 DEF NoneHangs
    <2>1. <<m, a>> \notin hit
      BY <1>2, <1>3
    <2>2. w.desired[m][a] # w.reported[m][a]
      BY <1>2, <1>3, <2>1
    <2>3. InFlight(w, m, a) \/ <<m, a>> \in w.open
      BY <2>2 DEF Inv, NoneHangs
    <2>4. CASE <<m, a>> \in w.open
      BY <1>2, <1>3, <2>1, <2>4
    <2>5. CASE InFlight(w, m, a)
      <3>1. PICK s \in Requests : w.req[s].st # "free" /\ w.req[s].node = m /\ a \in w.req[s].paths
        BY <2>5 DEF InFlight
      <3>2. s # r
        BY <1>4, <2>1, <3>1
      <3>3. QED
        BY <1>3, <3>1, <3>2 DEF InFlight
    <2>6. QED
      BY <2>3, <2>4, <2>5
  <1>8. AllConfirmed(u)
    BY <1>2, <1>3 DEF Inv, AllConfirmed
  <1>9. WriteIsOwn(u)
    <2> SUFFICES ASSUME NEW m \in Nodes, NEW a \in Attrs, NEW s \in Requests,
                        u.status[m] # "gone", <<m, a>> \notin u.mixed, Writing(u, s, m, a)
                 PROVE  /\ u.desired[m][a] = u.req[s].val[a]
                        /\ \A t \in Requests : Writing(u, t, m, a) => t = s
      BY DEF WriteIsOwn
    <2>1. s # r /\ u.req[s] = w.req[s]
      BY <1>3, FreeIsFree DEF Writing
    <2>2. <<m, a>> \notin w.mixed /\ w.status[m] # "gone" /\ Writing(w, s, m, a)
      BY <1>2, <1>3, <2>1 DEF Writing
    <2>3. /\ w.desired[m][a] = w.req[s].val[a]
          /\ \A t \in Requests : Writing(w, t, m, a) => t = s
      BY <2>2 DEF Inv, WriteIsOwn
    <2>4. <<m, a>> \notin hit
      <3>1. CASE w.status[n] = "gone"
        BY <1>2, <1>3, <1>5, <3>1
      <3>2. CASE w.status[n] # "gone"
        <4>1. ~Writing(w, r, m, a)
          BY <2>1, <2>3
        <4>2. QED
          BY <1>4, <3>2, <4>1 DEF Writing
      <3>3. QED
        BY <3>1, <3>2
    <2>5. \A t \in Requests : Writing(u, t, m, a) => Writing(w, t, m, a)
      BY <1>3, FreeIsFree DEF Writing
    <2>6. QED
      BY <1>2, <1>3, <2>1, <2>3, <2>4, <2>5
  <1>10. QED
    BY <1>3, <1>6, <1>7, <1>8, <1>9 DEF Inv, u, v

-----------------------------------------------------------------------------
(* WriteRequest *)

\* A request that fails before its answer undoes its writes and is deleted: nothing
\* of it stays open.
LEMMA CallbackSettles ==
  ASSUME NEW w, Inv(w), NEW r \in Requests, w.req[r].st # "free", NEW error, NEW wild \in SUBSET Paths
  PROVE  Inv(Forget(invokeFailureCallback(w, r, error, wild), r))
  <1> DEFINE n == w.req[r].node
             m == Mark(w, n, error, Cardinality(w.req[r].paths))
  <1>1. w \in WorldType /\ n \in Nodes
    BY DEF Inv, RequestsOK
  <1>2. OnlyStatus(w, m)
    BY <1>1, MarkTimes
  <1>3. invokeFailureCallback(w, r, error, wild) = Failure(m, w.req[r].node, w.req[r].paths, wild)
    BY DEF invokeFailureCallback
  <1> HIDE DEF m
  <1>4. Inv(m) /\ m.req = w.req
    BY <1>2, StatusKeepsInv DEF OnlyStatus
  <1>5. Inv(Forget(Failure(m, m.req[r].node, m.req[r].paths, wild), r))
    BY <1>4, FailedIsSettled
  <1>6. QED
    BY <1>3, <1>4, <1>5

\* Sending keeps the invariant on each of its paths: encoded and sent, failed to
\* encode, failed to send.
LEMMA SendKeepsInv ==
  ASSUME NEW w, Inv(w), NEW r \in Requests, w.req[r].st # "free", NEW puts \in SUBSET w.req[r].paths,
         NEW garbage \in BOOLEAN, NEW error, NEW wild \in SUBSET Paths
  PROVE  Inv(Send(w, r, puts, garbage, error, wild))
  <1> DEFINE n == w.req[r].node
             c == check_and_mark_failing_node(w, n, error, 0)
             o == [w.req[r] EXCEPT !.st = "sent", !.asked = puts]
             q == [w.req EXCEPT ![r] = o]
             u == [w EXCEPT !.req = q]
             failed == IF w.req[r].paths = {} THEN garbage ELSE Max(w.req[r].paths) \notin puts
  <1>1. w \in WorldType /\ n \in Nodes /\ w.req \in [Requests -> Request]
    BY DEF Inv, RequestsOK, WorldType
  <1>2. Inv(Forget(invokeFailureCallback(w, r, "other", wild), r))
    BY CallbackSettles
  <1>3. Inv(Forget(invokeFailureCallback(c, r, error, wild), r))
    <2>1. Inv(c) /\ c.req = w.req
      BY <1>1, CheckOnlyStatus, StatusKeepsInv DEF OnlyStatus
    <2> HIDE DEF c
    <2>2. QED
      BY <2>1, CallbackSettles
  <1>4. Inv(u)
    <2>1. w.req[r] \in Request /\ puts \in SUBSET Attrs
      BY <1>1 DEF Request
    <2>2. /\ o \in Request /\ o.st = "sent" /\ o.asked = puts /\ o.node = w.req[r].node
          /\ o.paths = w.req[r].paths /\ o.val = w.req[r].val
      BY <2>1 DEF Request
    <2> HIDE DEF o
    <2>3. q \in [Requests -> Request] /\ q[r] = o /\ \A s \in Requests : s # r => q[s] = w.req[s]
      BY <1>1, <2>2
    <2> HIDE DEF q
    <2>4. /\ u \in WorldType /\ u.req = q
          /\ u.status = w.status /\ u.desired = w.desired
          /\ u.reported = w.reported /\ u.confirmed = w.confirmed
          /\ u.open = w.open /\ u.mixed = w.mixed
      BY <1>1, <2>3 DEF WorldType
    <2> HIDE DEF u
    <2>5. \A s \in Requests : /\ u.req[s].node = w.req[s].node /\ u.req[s].paths = w.req[s].paths
                              /\ u.req[s].val = w.req[s].val
                              /\ (u.req[s].st # "free" <=> w.req[s].st # "free")
      BY <2>2, <2>3, <2>4
    <2>6. RequestsOK(u)
      <3>1. \A s \in Requests : u.req[s].asked \subseteq u.req[s].paths
        BY <2>2, <2>3, <2>4 DEF Inv, RequestsOK
      <3>2. QED
        BY <2>5, <3>1 DEF Inv, RequestsOK
    <2>7. \A m \in Nodes, a \in Attrs, s \in Requests : Writing(u, s, m, a) <=> Writing(w, s, m, a)
      BY <2>5 DEF Writing
    <2>8. NoneHangs(u)
      <3>1. \A m \in Nodes, a \in Attrs : InFlight(w, m, a) => InFlight(u, m, a)
        BY <2>5 DEF InFlight
      <3>2. QED
        BY <2>4, <3>1 DEF Inv, NoneHangs
    <2>9. AllConfirmed(u)
      BY <2>4 DEF Inv, AllConfirmed
    <2>10. WriteIsOwn(u)
      BY <2>4, <2>5, <2>7 DEF Inv, WriteIsOwn
    <2>11. QED
      BY <2>4, <2>6, <2>8, <2>9, <2>10 DEF Inv
  <1>5. u = [w EXCEPT !.req[r].st = "sent", !.req[r].asked = puts]
    BY <1>1 DEF Request
  <1>6. \/ Send(w, r, puts, garbage, error, wild) = Forget(invokeFailureCallback(w, r, "other", wild), r)
        \/ Send(w, r, puts, garbage, error, wild) = Forget(invokeFailureCallback(c, r, error, wild), r)
        \/ Send(w, r, puts, garbage, error, wild) = u
    <2> HIDE DEF u
    <2>1. CASE failed
      BY <2>1 DEF Send
    <2>2. CASE ~failed /\ error # "none"
      BY <2>2 DEF Send
    <2>3. CASE ~failed /\ error = "none"
      BY <1>5, <2>3 DEF Send
    <2>4. QED
      BY <2>1, <2>2, <2>3
  <1>7. QED
    BY <1>2, <1>3, <1>4, <1>6

\* More attributes counted as mixed claim less.
LEMMA MixedKeepsInv ==
  ASSUME NEW w, Inv(w), NEW X \in SUBSET Paths
  PROVE  Inv([w EXCEPT !.mixed = @ \cup X])
  <1> DEFINE x == w.mixed \cup X
             u == [w EXCEPT !.mixed = x]
  <1>1. w \in WorldType /\ x \in SUBSET Paths /\ w.mixed \subseteq x
    BY DEF Inv, WorldType
  <1> HIDE DEF x
  <1>2. /\ u \in WorldType /\ u.req = w.req
        /\ u.status = w.status /\ u.desired = w.desired
        /\ u.reported = w.reported /\ u.confirmed = w.confirmed
        /\ u.open = w.open /\ u.mixed = x
    BY <1>1 DEF WorldType
  <1> HIDE DEF u
  <1>3. Inv(u)
    <2>1. RequestsOK(u)
      BY <1>2 DEF Inv, RequestsOK
    <2>2. NoneHangs(u)
      BY <1>2 DEF Inv, NoneHangs, InFlight
    <2>3. AllConfirmed(u)
      BY <1>1, <1>2 DEF Inv, AllConfirmed
    <2>4. WriteIsOwn(u)
      BY <1>1, <1>2 DEF Inv, WriteIsOwn, Writing
    <2>5. QED
      BY <1>2, <2>1, <2>2, <2>3, <2>4 DEF Inv
  <1>4. QED
    BY <1>3 DEF u, x

\* An MQTT write sets desired values only with a request that carries them.
LEMMA WrittenKeepsInv ==
  ASSUME IInv, NEW n \in Nodes, NEW S \in SUBSET Attrs, NEW v \in [Attrs -> Values], NEW r \in Requests,
         status[n] # "gone", req[r].st = "free", writes < MaxWrites
  PROVE  LET u == Written(n, S, v, r)
         IN  Inv(u) /\ u.req[r].st # "free" /\ u.req[r].paths = S
  <1> DEFINE w == World
             row == [a \in Attrs |-> IF a \in S THEN v[a] ELSE desired[n][a]]
             d == [desired EXCEPT ![n] = row]
             x == mixed \cup ({n} \X {a \in S : InFlight(World, n, a)})
             p == open \ ({n} \X S)
             o == [st |-> "connecting", node |-> n, paths |-> S, asked |-> {},
                   val |-> [a \in Attrs |-> IF a \in S THEN v[a] ELSE Initial]]
             q == [req EXCEPT ![r] = o]
             u == [World EXCEPT !.desired = d, !.mixed = x, !.open = p, !.writes = writes + 1, !.req = q]
  <1>1. /\ World \in WorldType /\ World.status = status /\ World.desired = desired
        /\ World.reported = reported /\ World.req = req /\ World.writes = writes
        /\ World.open = open /\ World.confirmed = confirmed /\ World.mixed = mixed
    BY DEF IInv, Inv, World
  <1>2. /\ desired \in [Nodes -> [Attrs -> Values]] /\ req \in [Requests -> Request]
        /\ writes \in 0 .. MaxWrites /\ open \in SUBSET Paths /\ mixed \in SUBSET Paths
    BY <1>1 DEF WorldType
  <1>3. row \in [Attrs -> Values]
    BY <1>2
  <1>4. /\ d \in [Nodes -> [Attrs -> Values]]
        /\ \A m \in Nodes, a \in Attrs : m # n \/ a \notin S => d[m][a] = desired[m][a]
        /\ \A a \in S : d[n][a] = v[a]
    BY <1>2, <1>3
  <1>5. o \in Request /\ \A a \in S : o.val[a] = v[a]
    BY WriteAssumption DEF Request
  <1>6. q \in [Requests -> Request] /\ q[r] = o /\ \A s \in Requests : s # r => q[s] = req[s]
    BY <1>2, <1>5
  <1>7. x \in SUBSET Paths /\ p \in SUBSET Paths /\ mixed \subseteq x
    BY <1>2 DEF Paths
  <1>8. writes + 1 \in 0 .. MaxWrites
    BY <1>2, WriteAssumption
  <1>9. Written(n, S, v, r) = u
    BY DEF Written, World
  <1>10. o.st # "free" /\ o.node = n /\ o.paths = S /\ o.asked = {}
    OBVIOUS
  <1> HIDE DEF row, d, o, q
  <1>11. /\ u \in WorldType /\ u.status = status /\ u.desired = d
         /\ u.reported = reported /\ u.req = q /\ u.open = p
         /\ u.confirmed = confirmed /\ u.mixed = x
    <2> HIDE DEF x, p
    <2>1. QED
      BY <1>1, <1>4, <1>6, <1>7, <1>8 DEF WorldType, World
  <1> HIDE DEF u
  <1>12. RequestsOK(u)
    BY <1>1, <1>6, <1>10, <1>11 DEF IInv, Inv, RequestsOK
  <1>13. NoneHangs(u)
    <2> SUFFICES ASSUME NEW m \in Nodes, NEW a \in Attrs,
                        u.status[m] # "gone", u.desired[m][a] # u.reported[m][a]
                 PROVE  InFlight(u, m, a) \/ <<m, a>> \in u.open
      BY DEF NoneHangs
    <2>1. CASE m = n /\ a \in S
      BY <1>6, <1>10, <1>11, <2>1 DEF InFlight
    <2>2. CASE m # n \/ a \notin S
      <3>1. InFlight(World, m, a) \/ <<m, a>> \in open
        BY <1>1, <1>4, <1>11, <2>2 DEF IInv, Inv, NoneHangs
      <3>2. InFlight(World, m, a) => InFlight(u, m, a)
        BY <1>1, <1>6, <1>11 DEF InFlight
      <3>3. <<m, a>> \in open => <<m, a>> \in p
        BY <2>2
      <3>4. QED
        BY <1>11, <3>1, <3>2, <3>3
    <2>3. QED
      BY <2>1, <2>2
  <1>14. AllConfirmed(u)
    BY <1>1, <1>7, <1>11 DEF IInv, Inv, AllConfirmed
  <1>15. WriteIsOwn(u)
    <2> SUFFICES ASSUME NEW m \in Nodes, NEW a \in Attrs, NEW s \in Requests,
                        u.status[m] # "gone", <<m, a>> \notin u.mixed, Writing(u, s, m, a)
                 PROVE  /\ u.desired[m][a] = u.req[s].val[a]
                        /\ \A t \in Requests : Writing(u, t, m, a) => t = s
      BY DEF WriteIsOwn
    <2>1. \A t \in Requests : t # r => (Writing(u, t, m, a) <=> Writing(World, t, m, a))
      BY <1>1, <1>6, <1>11 DEF Writing
    <2>2. <<m, a>> \notin mixed
      BY <1>7, <1>11
    <2>3. CASE m = n /\ a \in S
      <3>1. ~InFlight(World, n, a)
        BY <1>11, <2>3
      <3>2. \A t \in Requests : ~Writing(World, t, m, a)
        BY <2>3, <3>1 DEF InFlight, Writing
      <3>3. QED
        BY <1>4, <1>5, <1>6, <1>11, <2>1, <2>3, <3>2
    <2>4. CASE ~(m = n /\ a \in S)
      <3>1. ~Writing(u, r, m, a)
        BY <1>6, <1>10, <1>11, <2>4 DEF Writing
      <3>2. s # r /\ Writing(World, s, m, a)
        BY <2>1, <3>1
      <3>3. /\ desired[m][a] = req[s].val[a]
            /\ \A t \in Requests : Writing(World, t, m, a) => t = s
        BY <1>1, <1>11, <2>2, <3>2 DEF IInv, Inv, WriteIsOwn
      <3>4. QED
        BY <1>4, <1>6, <1>11, <2>1, <2>4, <3>1, <3>2, <3>3
    <2>5. QED
      BY <2>3, <2>4
  <1>16. Inv(u) /\ u.req[r].st # "free" /\ u.req[r].paths = S
    BY <1>6, <1>10, <1>11, <1>12, <1>13, <1>14, <1>15 DEF Inv
  <1>17. QED
    BY <1>9, <1>16

\* The world after OnResponse.
AfterResponse(w, r, ok, wild) ==
  LET q == w.req[r]
  IN  Forget([Answered(w, r, ok, wild) EXCEPT
        !.open = @ \cup ({q.node} \X (q.paths \ q.asked)),
        !.confirmed[q.node] = [a \in Attrs |-> IF a \in ok THEN q.val[a] ELSE @[a]]], r)

\* An answer: accepted paths are reported, refused ones undone, and those that were
\* never sent stay open.
LEMMA ResponseKeepsInv ==
  ASSUME NEW w, Inv(w), NEW r \in Requests, w.req[r].st = "sent", NEW ok \in SUBSET w.req[r].asked,
         NEW wild \in SUBSET Paths
  PROVE  Inv(AfterResponse(w, r, ok, wild))
  <1> DEFINE q == w.req[r]
             n == q.node
             bad == q.asked \ ok
             lost == {n} \X (q.paths \ q.asked)
             v1 == Success(w, n, ok, wild)
             v2 == Failure(v1, n, bad, wild)
             row == [a \in Attrs |-> IF a \in ok THEN q.val[a] ELSE v2.confirmed[n][a]]
             c == [v2.confirmed EXCEPT ![n] = row]
             v3 == [v2 EXCEPT !.open = v2.open \cup lost, !.confirmed = c]
             u == Forget(v3, r)
  <1>1. /\ w \in WorldType /\ n \in Nodes /\ q \in Request
        /\ ok \in SUBSET Attrs /\ bad \in SUBSET Attrs /\ q.asked \subseteq q.paths /\ q.paths \subseteq Attrs
        /\ q.val \in [Attrs -> Values]
    BY DEF Inv, RequestsOK, WorldType, Request
  <1>2. lost \in SUBSET Paths
    BY <1>1 DEF Paths
  <1>3. Answered(w, r, ok, wild) = v2
    BY DEF Answered
  <1> HIDE DEF v1, v2, lost, q, bad
  <1>4. Done(w, v1, n, ok, wild)
    BY <1>1, SuccessDoes DEF v1, q
  <1>5. v1 \in WorldType
    BY <1>4 DEF Done
  <1>6. Undone(v1, v2, n, bad, wild)
    BY <1>1, <1>5, FailureUndoes DEF v2
  <1>7. v2 \in WorldType
    BY <1>6 DEF Undone
  <1>8. /\ v2.status = w.status /\ v2.req = w.req /\ v2.confirmed = w.confirmed
        /\ w.mixed \subseteq v2.mixed
        /\ w.status[n] = "gone" => wild \subseteq v2.mixed
    BY <1>4, <1>6 DEF Done, Undone
  <1>9. ASSUME w.status[n] # "gone"
        PROVE  /\ v2.open = w.open \ ({n} \X q.asked)
               /\ \A m \in Nodes, a \in Attrs :
                    /\ m = n /\ a \in ok => /\ v2.reported[m][a] = w.desired[m][a]
                                            /\ v2.desired[m][a] = w.desired[m][a]
                    /\ m = n /\ a \in bad => /\ v2.desired[m][a] = w.reported[m][a]
                                             /\ v2.reported[m][a] = w.reported[m][a]
                    /\ m # n \/ a \notin q.asked => /\ v2.desired[m][a] = w.desired[m][a]
                                                    /\ v2.reported[m][a] = w.reported[m][a]
    <2>1. Reached(w, n, ok, wild) = {n} \X ok /\ Reached(v1, n, bad, wild) = {n} \X bad
      BY <1>4, <1>9 DEF Reached, Done
    <2>2. v2.open = w.open \ ({n} \X q.asked)
      <3>1. v2.open = (w.open \ ({n} \X ok)) \ ({n} \X bad)
        BY <1>4, <1>6, <2>1 DEF Done, Undone
      <3>2. \A z : z \in {n} \X q.asked <=> z \in {n} \X ok \/ z \in {n} \X bad
        BY DEF bad, q
      <3>3. QED
        BY <3>1, <3>2
    <2> SUFFICES ASSUME NEW m \in Nodes, NEW a \in Attrs
                 PROVE  /\ m = n /\ a \in ok => /\ v2.reported[m][a] = w.desired[m][a]
                                            /\ v2.desired[m][a] = w.desired[m][a]
                        /\ m = n /\ a \in bad => /\ v2.desired[m][a] = w.reported[m][a]
                                             /\ v2.reported[m][a] = w.reported[m][a]
                        /\ m # n \/ a \notin q.asked => /\ v2.desired[m][a] = w.desired[m][a]
                                                    /\ v2.reported[m][a] = w.reported[m][a]
      BY <2>2
    <2>3. /\ <<m, a>> \in {n} \X ok => v1.reported[m][a] = w.desired[m][a]
          /\ <<m, a>> \notin {n} \X ok => v1.reported[m][a] = w.reported[m][a]
          /\ v1.desired = w.desired
      BY <1>4, <2>1 DEF Done
    <2>4. /\ <<m, a>> \in {n} \X bad => v2.desired[m][a] = v1.reported[m][a]
          /\ <<m, a>> \notin {n} \X bad => v2.desired[m][a] = v1.desired[m][a]
          /\ v2.reported = v1.reported
      BY <1>6, <2>1 DEF Undone
    <2>5. a \in ok => a \notin bad
      BY DEF bad
    <2>6. a \in bad => a \notin ok
      BY DEF bad
    <2>7. a \notin q.asked => a \notin ok /\ a \notin bad
      BY DEF bad, q
    <2>8. QED
      BY <2>3, <2>4, <2>5, <2>6, <2>7
  <1>10. ASSUME w.status[n] = "gone"
         PROVE  /\ v2.open = w.open \ wild
                /\ \A m \in Nodes, a \in Attrs :
                     /\ <<m, a>> \in wild => v2.desired[m][a] = v2.reported[m][a]
                     /\ <<m, a>> \notin wild => /\ v2.desired[m][a] = w.desired[m][a]
                                                /\ v2.reported[m][a] = w.reported[m][a]
    <2>1. Reached(w, n, ok, wild) = wild /\ Reached(v1, n, bad, wild) = wild
      BY <1>4, <1>10 DEF Reached, Done
    <2>2. v2.open = w.open \ wild
      BY <1>4, <1>6, <2>1 DEF Done, Undone
    <2>3. QED
      BY <1>4, <1>6, <2>1, <2>2 DEF Done, Undone
  <1>11. /\ c \in [Nodes -> [Attrs -> Values]]
         /\ \A m \in Nodes, a \in Attrs :
              /\ m = n /\ a \in ok => c[m][a] = q.val[a]
              /\ m # n \/ a \notin ok => c[m][a] = w.confirmed[m][a]
    <2>1. v2.confirmed \in [Nodes -> [Attrs -> Values]]
      BY <1>7 DEF WorldType
    <2>2. row \in [Attrs -> Values]
      BY <1>1, <2>1
    <2>3. QED
      BY <1>1, <1>8, <2>1, <2>2
  <1> HIDE DEF c
  <1>12. /\ v3 \in WorldType /\ v3.open = v2.open \cup lost /\ v3.confirmed = c
         /\ v3.status = v2.status /\ v3.desired = v2.desired /\ v3.reported = v2.reported
         /\ v3.req = v2.req /\ v3.mixed = v2.mixed
    <2>1. v2.open \cup lost \in SUBSET Paths
      BY <1>2, <1>7 DEF WorldType
    <2>2. QED
      BY <1>7, <1>11, <2>1 DEF WorldType
  <1>13. v3 = [v2 EXCEPT !.open = @ \cup lost,
                         !.confirmed[n] = [a \in Attrs |-> IF a \in ok THEN q.val[a] ELSE @[a]]]
    BY DEF c
  <1> HIDE DEF v3
  <1>14. /\ u \in WorldType /\ u.req[r] = FreeRequest
         /\ \A s \in Requests : s # r => u.req[s] = w.req[s]
         /\ u.status = w.status /\ u.desired = v2.desired
         /\ u.reported = v2.reported /\ u.confirmed = c
         /\ u.open = v2.open \cup lost /\ u.mixed = v2.mixed
    BY <1>8, <1>12, ForgetFields
  <1> HIDE DEF u
  <1>15. RequestsOK(u)
    BY <1>14, FreeIsFree DEF Inv, RequestsOK
  <1>16. NoneHangs(u)
    <2> SUFFICES ASSUME NEW m \in Nodes, NEW a \in Attrs,
                        w.status[m] # "gone", v2.desired[m][a] # v2.reported[m][a]
                 PROVE  InFlight(u, m, a) \/ <<m, a>> \in u.open
      BY <1>14 DEF NoneHangs
    <2>1. ASSUME NEW s \in Requests, s # r, Writing(w, s, m, a)
          PROVE  InFlight(u, m, a)
      BY <1>14, <2>1 DEF InFlight, Writing
    <2>2. CASE m = n /\ a \in q.paths
      <3>1. a \notin q.asked
        BY <1>9, <2>2 DEF bad
      <3>2. <<m, a>> \in lost
        BY <2>2, <3>1 DEF lost
      <3>3. QED
        BY <1>14, <3>2
    <2>3. CASE ~(m = n /\ a \in q.paths)
      <3>1. ~Writing(w, r, m, a)
        BY <2>3 DEF Writing, q
      <3>2. /\ v2.desired[m][a] = w.desired[m][a] /\ v2.reported[m][a] = w.reported[m][a]
            /\ <<m, a>> \in w.open => <<m, a>> \in v2.open
        <4>1. CASE w.status[n] = "gone"
          BY <1>10, <4>1
        <4>2. CASE w.status[n] # "gone"
          <5>1. m # n \/ a \notin q.asked
            BY <1>1, <2>3
          <5>2. QED
            BY <1>9, <4>2, <5>1
        <4>3. QED
          BY <4>1, <4>2
      <3>3. InFlight(w, m, a) \/ <<m, a>> \in w.open
        BY <3>2 DEF Inv, NoneHangs
      <3>4. InFlight(w, m, a) => InFlight(u, m, a)
        BY <2>1, <3>1 DEF InFlight, Writing
      <3>5. QED
        BY <1>14, <3>2, <3>3, <3>4
    <2>4. QED
      BY <2>2, <2>3
  <1>17. AllConfirmed(u)
    <2> SUFFICES ASSUME NEW m \in Nodes, NEW a \in Attrs, w.status[m] # "gone", <<m, a>> \notin v2.mixed
                 PROVE  v2.reported[m][a] = c[m][a]
      BY <1>14 DEF AllConfirmed
    <2>1. <<m, a>> \notin w.mixed
      BY <1>8
    <2>2. w.reported[m][a] = w.confirmed[m][a]
      BY <2>1 DEF Inv, AllConfirmed
    <2>3. CASE w.status[n] = "gone"
      <3>1. m # n /\ <<m, a>> \notin wild
        BY <1>8, <2>3
      <3>2. QED
        BY <1>10, <1>11, <2>2, <2>3, <3>1
    <2>4. CASE w.status[n] # "gone" /\ m = n /\ a \in ok
      <3>1. Writing(w, r, m, a)
        BY <1>1, <2>4 DEF Writing, q
      <3>2. w.desired[m][a] = q.val[a]
        BY <2>1, <3>1 DEF Inv, WriteIsOwn, q
      <3>3. QED
        BY <1>9, <1>11, <2>4, <3>2
    <2>5. CASE w.status[n] # "gone" /\ ~(m = n /\ a \in ok)
      <3>1. v2.reported[m][a] = w.reported[m][a]
        BY <1>9, <2>5 DEF bad
      <3>2. QED
        BY <1>11, <2>2, <2>5, <3>1
    <2>6. QED
      BY <2>3, <2>4, <2>5
  <1>18. WriteIsOwn(u)
    <2> SUFFICES ASSUME NEW m \in Nodes, NEW a \in Attrs, NEW s \in Requests,
                        u.status[m] # "gone", <<m, a>> \notin u.mixed, Writing(u, s, m, a)
                 PROVE  /\ u.desired[m][a] = u.req[s].val[a]
                        /\ \A t \in Requests : Writing(u, t, m, a) => t = s
      BY DEF WriteIsOwn
    <2>1. s # r /\ u.req[s] = w.req[s]
      BY <1>14, FreeIsFree DEF Writing
    <2>2. <<m, a>> \notin w.mixed /\ w.status[m] # "gone" /\ Writing(w, s, m, a)
      BY <1>8, <1>14, <2>1 DEF Writing
    <2>3. /\ w.desired[m][a] = w.req[s].val[a]
          /\ \A t \in Requests : Writing(w, t, m, a) => t = s
      BY <2>2 DEF Inv, WriteIsOwn
    <2>4. ~(m = n /\ a \in q.asked)
      <3>1. ~Writing(w, r, m, a)
        BY <2>1, <2>3
      <3>2. w.req[r].st # "free"
        OBVIOUS
      <3>3. QED
        BY <1>1, <3>1, <3>2 DEF Writing, q
    <2>5. v2.desired[m][a] = w.desired[m][a]
      <3>1. CASE w.status[n] = "gone"
        BY <1>8, <1>10, <1>14, <3>1
      <3>2. CASE w.status[n] # "gone"
        BY <1>9, <2>4, <3>2
      <3>3. QED
        BY <3>1, <3>2
    <2>6. \A t \in Requests : Writing(u, t, m, a) => Writing(w, t, m, a)
      BY <1>14, FreeIsFree DEF Writing
    <2>7. QED
      BY <1>14, <2>1, <2>3, <2>5, <2>6
  <1>19. Inv(u)
    BY <1>14, <1>15, <1>16, <1>17, <1>18 DEF Inv
  <1>20. QED
    BY <1>3, <1>13, <1>19 DEF AfterResponse, u, q, lost

-----------------------------------------------------------------------------
(* The steps *)

\* An action whose new state is a record with the invariant keeps it.
LEMMA BecomeKeeps ==
  ASSUME NEW w, Inv(w), Become(w)
  PROVE  IInv'
  <1>1. w \in WorldType
    BY DEF Inv
  <1>2. /\ status' = w.status /\ prev' = w.prev /\ db' = w.db /\ desired' = w.desired
        /\ reported' = w.reported /\ req' = w.req /\ writes' = w.writes /\ open' = w.open
        /\ confirmed' = w.confirmed /\ mixed' = w.mixed
    BY DEF Become
  <1>3. World' = w
    BY <1>1, <1>2 DEF World, WorldType
  <1>4. QED
    BY <1>3 DEF IInv

\* What a stale store node may turn out to be, are paths.
LEMMA WildPaths == Wild \subseteq SUBSET Paths
  BY DEF Wild

\* The removal of a node, with its requests still under way.
LEMMA NodeRemovedKeeps ==
  ASSUME IInv, NEW n \in Nodes, NodeRemoved(n)
  PROVE  IInv'
  <1> DEFINE s == [status EXCEPT ![n] = "gone"]
             p == [prev EXCEPT ![n] = "none"]
             u == [World EXCEPT !.status = s, !.prev = p]
  <1>1. /\ World \in WorldType /\ World.status = status /\ World.desired = desired
        /\ World.reported = reported /\ World.req = req /\ World.prev = prev
        /\ World.open = open /\ World.confirmed = confirmed /\ World.mixed = mixed
    BY DEF IInv, Inv, World
  <1>2. status \in [Nodes -> Status] /\ prev \in [Nodes -> Saved] /\ "gone" \in Status /\ "none" \in Saved
    BY <1>1 DEF WorldType, Status, Saved
  <1>3. /\ s \in [Nodes -> Status] /\ p \in [Nodes -> Saved]
        /\ \A m \in Nodes : s[m] # "gone" => status[m] # "gone"
    BY <1>2
  <1>4. Become(u)
    BY DEF NodeRemoved, World
  <1> HIDE DEF s, p
  <1>5. /\ u \in WorldType /\ u.status = s /\ u.desired = desired
        /\ u.reported = reported /\ u.req = req
        /\ u.open = open /\ u.confirmed = confirmed /\ u.mixed = mixed
    BY <1>1, <1>3 DEF WorldType, World
  <1> HIDE DEF u
  <1>6. RequestsOK(u)
    BY <1>1, <1>5 DEF IInv, Inv, RequestsOK
  <1>7. NoneHangs(u)
    BY <1>1, <1>3, <1>5 DEF IInv, Inv, NoneHangs, InFlight
  <1>8. AllConfirmed(u)
    BY <1>1, <1>3, <1>5 DEF IInv, Inv, AllConfirmed
  <1>9. WriteIsOwn(u)
    BY <1>1, <1>3, <1>5 DEF IInv, Inv, WriteIsOwn, Writing
  <1>10. QED
    BY <1>4, <1>5, <1>6, <1>7, <1>8, <1>9, BecomeKeeps DEF Inv

\* A restart, which loses the requests: their writes are the ones left open.
LEMMA RestartKeeps ==
  ASSUME IInv, Restart
  PROVE  IInv'
  <1> DEFINE q == [r \in Requests |-> FreeRequest]
             p == open \cup {z \in Paths : InFlight(World, z[1], z[2])}
             u == [World EXCEPT !.req = q, !.open = p]
  <1>1. /\ World \in WorldType /\ World.status = status /\ World.desired = desired
        /\ World.reported = reported /\ World.open = open
        /\ World.confirmed = confirmed /\ World.mixed = mixed
    BY DEF IInv, Inv, World
  <1>2. p \in SUBSET Paths
    BY <1>1 DEF WorldType
  <1>3. \A n \in Nodes, a \in Attrs : InFlight(World, n, a) \/ <<n, a>> \in open => <<n, a>> \in p
    BY DEF Paths
  <1>4. q \in [Requests -> Request] /\ \A r \in Requests : q[r] = FreeRequest
    BY WriteAssumption DEF FreeRequest, Request
  <1>5. Become(u)
    BY DEF Restart, World
  <1> HIDE DEF q, p
  <1>6. /\ u \in WorldType /\ u.status = status /\ u.desired = desired
        /\ u.reported = reported /\ u.req = q
        /\ u.open = p /\ u.confirmed = confirmed /\ u.mixed = mixed
    BY <1>1, <1>2, <1>4 DEF WorldType, World
  <1> HIDE DEF u
  <1>7. RequestsOK(u)
    BY <1>4, <1>6, FreeIsFree DEF RequestsOK
  <1>8. NoneHangs(u)
    BY <1>1, <1>3, <1>6 DEF IInv, Inv, NoneHangs
  <1>9. AllConfirmed(u)
    BY <1>1, <1>6 DEF IInv, Inv, AllConfirmed
  <1>10. WriteIsOwn(u)
    BY <1>4, <1>6, FreeIsFree DEF WriteIsOwn, Writing
  <1>11. QED
    BY <1>5, <1>6, <1>7, <1>8, <1>9, <1>10, BecomeKeeps DEF Inv

\* The write callback, with a session at hand or still to be established.
LEMMA WriteKeeps ==
  ASSUME IInv, NEW n \in Nodes, NEW S \in SUBSET Attrs, NEW v \in [Attrs -> Values], NEW r \in Requests,
         \/ Write(n, S, v, r)
         \/ \E garbage \in BOOLEAN, error \in Error \cup {"none"} : WriteNow(n, S, v, r, garbage, error)
  PROVE  IInv'
  <1> DEFINE u == Written(n, S, v, r)
  <1>1. status[n] # "gone" /\ req[r].st = "free" /\ writes < MaxWrites
    BY DEF Write, WriteNow
  <1>2. Inv(u) /\ u.req[r].st # "free" /\ u.req[r].paths = S
    BY <1>1, WrittenKeepsInv
  <1>3. CASE Write(n, S, v, r)
    <2>1. {n} \X S \in SUBSET Paths
      BY DEF Paths
    <2>2. Become([u EXCEPT !.mixed = @ \cup ({n} \X S)])
      BY <1>3 DEF Write
    <2> HIDE DEF u
    <2>3. Inv([u EXCEPT !.mixed = @ \cup ({n} \X S)])
      BY <1>2, <2>1, MixedKeepsInv
    <2>4. QED
      BY <2>2, <2>3, BecomeKeeps
  <1>4. ASSUME NEW garbage \in BOOLEAN, NEW error, WriteNow(n, S, v, r, garbage, error)
        PROVE  IInv'
    <2>1. Become(Send(u, r, S, garbage, error, {}))
      BY <1>4 DEF WriteNow
    <2> HIDE DEF u
    <2>2. Inv(Send(u, r, S, garbage, error, {}))
      BY <1>2, SendKeepsInv
    <2>3. QED
      BY <2>1, <2>2, BecomeKeeps
  <1>5. QED
    BY <1>3, <1>4

\* The callbacks of a request: session, no session, answer, error.
LEMMA RequestKeeps ==
  ASSUME IInv, NEW r \in Requests, NEW wild \in Wild,
         \/ \E puts \in SUBSET Attrs, garbage \in BOOLEAN, error \in Error \cup {"none"} :
              Connected(r, puts, garbage, error, wild)
         \/ ConnectionFails(r, wild)
         \/ \E ok \in SUBSET Attrs : OnResponse(r, ok, wild)
         \/ \E error \in Error : OnError(r, error, wild)
  PROVE  IInv'
  <1>1. wild \in SUBSET Paths /\ World.req = req /\ Inv(World)
    BY WildPaths DEF World, IInv
  <1>2. ASSUME NEW puts, NEW garbage \in BOOLEAN, NEW error, Connected(r, puts, garbage, error, wild)
        PROVE  IInv'
    <2>1. /\ World.req[r].st # "free" /\ puts \in SUBSET World.req[r].paths
          /\ Become(Send(World, r, puts, garbage, error, wild))
      BY <1>1, <1>2 DEF Connected
    <2>2. Inv(Send(World, r, puts, garbage, error, wild))
      BY <1>1, <2>1, SendKeepsInv
    <2>3. QED
      BY <2>1, <2>2, BecomeKeeps
  <1>3. ASSUME NEW error, req[r].st # "free", Become(Forget(invokeFailureCallback(World, r, error, wild), r))
        PROVE  IInv'
    <2>1. Inv(Forget(invokeFailureCallback(World, r, error, wild), r))
      BY <1>1, <1>3, CallbackSettles
    <2>2. QED
      BY <1>3, <2>1, BecomeKeeps
  <1>4. ASSUME NEW ok, OnResponse(r, ok, wild)
        PROVE  IInv'
    <2>1. World.req[r].st = "sent" /\ ok \in SUBSET World.req[r].asked
      BY <1>1, <1>4 DEF OnResponse
    <2>2. Inv(AfterResponse(World, r, ok, wild))
      BY <1>1, <2>1, ResponseKeepsInv
    <2>3. Become(AfterResponse(World, r, ok, wild))
      BY <1>1, <1>4 DEF OnResponse, AfterResponse
    <2>4. QED
      BY <2>2, <2>3, BecomeKeeps
  <1>5. QED
    BY <1>2, <1>3, <1>4 DEF ConnectionFails, OnError

\* The first state has the invariant.
LEMMA InitIInv == Init => IInv
  <1> SUFFICES ASSUME Init PROVE IInv
    OBVIOUS
  <1>1. FreeRequest \in Request
    BY WriteAssumption DEF FreeRequest, Request
  <1>2. World \in WorldType
    BY <1>1, WriteAssumption DEF Init, World, WorldType, Status, Saved, Online
  <1>3. /\ World.req = [r \in Requests |-> FreeRequest] /\ World.desired = World.reported
        /\ World.reported = World.confirmed
    BY DEF Init, World
  <1>4. RequestsOK(World)
    BY <1>3, FreeIsFree DEF RequestsOK
  <1>5. NoneHangs(World)
    BY <1>3 DEF NoneHangs
  <1>6. AllConfirmed(World)
    BY <1>3 DEF AllConfirmed
  <1>7. WriteIsOwn(World)
    BY <1>3, FreeIsFree DEF WriteIsOwn, Writing
  <1>8. QED
    BY <1>2, <1>4, <1>5, <1>6, <1>7 DEF IInv, Inv

\* Every step keeps it.
LEMMA StepKeeps == IInv /\ [Next]_vars => IInv'
  <1> SUFFICES ASSUME IInv, [Next]_vars PROVE IInv'
    OBVIOUS
  <1>1. ASSUME NEW n \in Nodes, NEW S \in SUBSET Attrs, NEW x \in Values, NEW r \in Requests,
               LET v == [a \in Attrs |-> x]
               IN  \/ Write(n, S, v, r)
                   \/ \E garbage \in BOOLEAN, error \in Error \cup {"none"} : WriteNow(n, S, v, r, garbage, error)
        PROVE  IInv'
    <2>1. [a \in Attrs |-> x] \in [Attrs -> Values]
      OBVIOUS
    <2>2. QED
      BY <1>1, <2>1, WriteKeeps
  <1>2. ASSUME NEW n \in Nodes, OtherMessage(n)
        PROVE  IInv'
    <2>1. World \in WorldType /\ Become(mpc_failing_node_recovery(World, n))
      BY <1>2 DEF IInv, Inv, OtherMessage
    <2>2. Inv(mpc_failing_node_recovery(World, n))
      BY <2>1, RecoveryOnlyStatus, StatusKeepsInv DEF IInv
    <2>3. QED
      BY <2>1, <2>2, BecomeKeeps
  <1>3. CASE UNCHANGED vars
    <2>1. World' = World
      BY <1>3 DEF vars, World
    <2>2. QED
      BY <2>1 DEF IInv
  <1>4. QED
    BY <1>1, <1>2, <1>3, RequestKeeps, NodeRemovedKeeps, RestartKeeps DEF Next

\* So it always holds.
LEMMA Inductive == Spec => []IInv
  BY InitIInv, StepKeeps, PTL DEF Spec

\* Every callback of a write keeps the type of the state, and what a request was sent
\* with is part of what it was made for.
THEOREM TypeCorrect == Spec => []TypeOK
  <1>1. IInv => TypeOK
    BY DEF IInv, Inv, World, WorldType, RequestsOK, TypeOK
  <1>2. QED
    BY Inductive, <1>1, PTL

\* Whatever fails, and although a callback may reach the wrong attribute, a write that
\* is not in flight has been settled (invokeFailureCallback, myWriteCallbackFunction).
THEOREM WritesSettle == Spec => []Settled
  <1>1. IInv => Settled
    BY DEF IInv, Inv, World, NoneHangs, Settled
  <1>2. QED
    BY Inductive, <1>1, PTL

\* Where writes do not overlap and no freed buffer or uninitialized handle is involved,
\* the reported value is the last one the device accepted
\* (attribute_store_set_reported_as_desired in myWriteCallbackFunction).
THEOREM OnlyConfirmedIsReported == Spec => []ReportedIsConfirmed
  <1>1. IInv => ReportedIsConfirmed
    BY DEF IInv, Inv, World, AllConfirmed, ReportedIsConfirmed
  <1>2. QED
    BY Inductive, <1>1, PTL
=============================================================================
