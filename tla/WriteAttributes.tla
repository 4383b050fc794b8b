-------------------------- MODULE WriteAttributes --------------------------
(***************************************************************************)
(* Writes of OnOff attributes that come in by MQTT: the generated callback *)
(* in dotdot_mqtt_to_matter.cpp, the WriteRequest it sends, and            *)
(* myWriteCallbackFunction, which settles desired and reported values.     *)
(*                                                                         *)
(* The writable attributes are not subscribed to, so nothing but the       *)
(* answers to writes ever changes their reported values.                   *)
(*                                                                         *)
(* The request keeps a reader into a packet buffer that is freed when the  *)
(* MQTT callback returns.  It is good only if the SDK has a session and    *)
(* calls back at once; otherwise what is encoded is undefined.             *)
(* myWriteCallbackFunction leaves its handle uninitialized when the node   *)
(* is gone; it may then settle any attribute, or none.                     *)
(***************************************************************************)
EXTENDS FailingNode, FiniteSets, FiniteSetsExt

CONSTANTS
  Nodes,      \* the devices, one endpoint each
  Attrs,      \* its writable attributes; the order of the numbers is that of the code
  Values,     \* what can be written
  Initial,    \* what is reported at first
  Requests,   \* addresses of WriteRequest objects in use (bound)
  MaxWrites   \* bound on the writes that come in

ASSUME WriteAssumption == Attrs \subseteq Nat /\ IsFiniteSet(Attrs) /\ Initial \in Values /\ MaxWrites \in Nat

VARIABLES
  status, prev, db,   \* as in FailingNode
  desired, reported,  \* values of the attribute store
  req,                \* the requests in flight
  writes,             \* how many writes have come in (bound)
  open,               \* history: attributes whose write the program has forgotten
  confirmed,          \* history: the value of the last write the device accepted
  mixed               \* history: attributes with overlapping or undefined writes

vars == <<status, prev, db, desired, reported, req, writes, open, confirmed, mixed>>

Request == [st : {"free", "connecting", "sent"}, node : Nodes \cup {None}, paths : SUBSET Attrs,
            val : [Attrs -> Values], asked : SUBSET Attrs]
FreeRequest == [st |-> "free", node |-> None, paths |-> {}, val |-> [a \in Attrs |-> Initial], asked |-> {}]

World == [status |-> status, prev |-> prev, db |-> db, desired |-> desired, reported |-> reported,
          req |-> req, writes |-> writes, open |-> open, confirmed |-> confirmed, mixed |-> mixed]

Become(w) ==
  /\ status' = w.status /\ prev' = w.prev /\ db' = w.db
  /\ desired' = w.desired /\ reported' = w.reported /\ req' = w.req /\ writes' = w.writes
  /\ open' = w.open /\ confirmed' = w.confirmed /\ mixed' = w.mixed

Paths == Nodes \X Attrs

-----------------------------------------------------------------------------
(* myWriteCallbackFunction *)

\* Attributes the callback for attribute set as of node n may reach.
Reached(w, n, as, wild) == IF w.status[n] = "gone" THEN wild ELSE {n} \X as

\* attribute_store_set_desired_as_reported()
Failure(w, n, as, wild) ==
  LET hit == Reached(w, n, as, wild)
  IN  [w EXCEPT !.desired = [m \in Nodes |-> [a \in Attrs |->
                  IF <<m, a>> \in hit THEN w.reported[m][a] ELSE @[m][a]]],
                !.open = @ \ hit,
                !.mixed = IF w.status[n] = "gone" THEN @ \cup wild ELSE @]

\* attribute_store_set_reported_as_desired()
Success(w, n, as, wild) ==
  LET hit == Reached(w, n, as, wild)
  IN  [w EXCEPT !.reported = [m \in Nodes |-> [a \in Attrs |->
                  IF <<m, a>> \in hit THEN w.desired[m][a] ELSE @[m][a]]],
                !.open = @ \ hit,
                !.mixed = IF w.status[n] = "gone" THEN @ \cup wild ELSE @]

\* check_and_mark_failing_node() once for each path; the third time is like the second.
Mark(w, n, error, times) ==
  LET once == check_and_mark_failing_node(w, n, error, 0)
  IN  CASE times = 0 -> w
        [] times = 1 -> once
        [] OTHER -> check_and_mark_failing_node(once, n, error, 0)

-----------------------------------------------------------------------------
(* WriteRequest *)

\* invokeFailureCallback(): the callback for every path.
invokeFailureCallback(w, r, error, wild) ==
  LET q == w.req[r]
  IN  Failure(Mark(w, q.node, error, Cardinality(q.paths)), q.node, q.paths, wild)

\* The object is deleted, or never will be: nobody refers to it any more.
Forget(w, r) == [w EXCEPT !.req[r] = FreeRequest]

\* Mutant: only the last error counts, but no callback is made for it.
Send_Silent(w, r, puts, garbage, error, wild) ==
  LET q == w.req[r]
      failed == IF q.paths = {} THEN garbage ELSE Max(q.paths) \notin puts
  IN  CASE failed -> Forget(w, r)
        [] ~failed /\ error # "none" ->
             Forget(invokeFailureCallback(check_and_mark_failing_node(w, q.node, error, 0), r, error, wild), r)
        [] OTHER -> [w EXCEPT !.req[r].st = "sent", !.req[r].asked = puts]

\* Mutant: all attributes of the cluster are sent.
Send_All(w, r, puts, garbage, error, wild) ==
  LET q == w.req[r]
      failed == IF q.paths = {} THEN garbage ELSE Max(q.paths) \notin puts
  IN  CASE failed -> Forget(invokeFailureCallback(w, r, "other", wild), r)
        [] ~failed /\ error # "none" ->
             Forget(invokeFailureCallback(check_and_mark_failing_node(w, q.node, error, 0), r, error, wild), r)
        [] OTHER -> [w EXCEPT !.req[r].st = "sent", !.req[r].asked = Attrs]

\* Send(), called by on_device_connected_common(): puts are the paths for which
\* PutPreencodedAttribute() succeeds, of which only the last one's result is looked
\* at, and garbage the uninitialized result when there is none; error is that of
\* SendWriteRequest().
Send(w, r, puts, garbage, error, wild) ==
  LET q == w.req[r]
      failed == IF q.paths = {} THEN garbage ELSE Max(q.paths) \notin puts
  IN  CASE failed -> Forget(invokeFailureCallback(w, r, "other", wild), r)
        [] ~failed /\ error # "none" ->
             Forget(invokeFailureCallback(check_and_mark_failing_node(w, q.node, error, 0), r, error, wild), r)
        [] OTHER -> [w EXCEPT !.req[r].st = "sent", !.req[r].asked = puts]

InFlight(w, n, a) == \E r \in Requests : w.req[r].st # "free" /\ w.req[r].node = n /\ a \in w.req[r].paths

\* mpc_on_off_cluster_write_attributes_callback() for attributes S, after the library
\* has set their desired values.
Written(n, S, v, r) ==
  [World EXCEPT
     !.desired[n] = [a \in Attrs |-> IF a \in S THEN v[a] ELSE @[a]],
     !.mixed = @ \cup {n} \X {a \in S : InFlight(World, n, a)},
     !.open = @ \ ({n} \X S),
     !.writes = @ + 1,
     !.req[r] = [st |-> "connecting", node |-> n, paths |-> S, asked |-> {},
                 val |-> [a \in Attrs |-> IF a \in S THEN v[a] ELSE Initial]]]

-----------------------------------------------------------------------------
(* Actions *)

\* What an uninitialized handle may be: any attribute in the store, or none.
Wild == {{}} \cup {{p} : p \in {q \in Paths : /\ \E n \in Nodes : status[n] = "gone"
                                            /\ status[q[1]] # "gone"}}

\* A write without a session: SendCommand() returns and the buffer is freed.
Write(n, S, v, r) ==
  /\ status[n] # "gone" /\ req[r].st = "free" /\ writes < MaxWrites
  /\ LET w == Written(n, S, v, r)
     IN  Become([w EXCEPT !.mixed = @ \cup ({n} \X S)])

\* A write with a session: Send() is called inside SendCommand().
WriteNow(n, S, v, r, garbage, error) ==
  /\ status[n] # "gone" /\ req[r].st = "free" /\ writes < MaxWrites
  /\ Become(Send(Written(n, S, v, r), r, S, garbage, error, {}))

\* The session is established later: the reader's data is whatever is there now.
Connected(r, puts, garbage, error, wild) ==
  /\ req[r].st = "connecting" /\ puts \subseteq req[r].paths
  /\ Become(Send(World, r, puts, garbage, error, wild))

\* on_device_connection_failure_common()
ConnectionFails(r, wild) ==
  /\ req[r].st = "connecting"
  /\ Become(Forget(invokeFailureCallback(World, r, "closed", wild), r))

\* Mutant: the answer is for the whole request.
Answered_AllOk(w, r, ok, wild) == Success(w, w.req[r].node, w.req[r].paths, wild)

\* OnResponse() for every path that was sent; ok are the accepted ones.
Answered(w, r, ok, wild) ==
  LET q == w.req[r] IN Failure(Success(w, q.node, ok, wild), q.node, q.asked \ ok, wild)

\* The device answers: OnResponse() for each path sent, then OnDone().  A path that was
\* not sent is never heard of again.
OnResponse(r, ok, wild) ==
  /\ req[r].st = "sent" /\ ok \subseteq req[r].asked
  /\ LET q == req[r]
         w == Answered(World, r, ok, wild)
     IN  Become(Forget([w EXCEPT
           !.open = @ \cup ({q.node} \X (q.paths \ q.asked)),
           !.confirmed[q.node] = [a \in Attrs |-> IF a \in ok THEN q.val[a] ELSE @[a]]], r))

\* OnError(), then OnDone(): no answer, or one that cannot be read.
OnError(r, error, wild) ==
  /\ req[r].st = "sent"
  /\ Become(Forget(invokeFailureCallback(World, r, error, wild), r))

\* Any other answer of the node.
OtherMessage(n) ==
  /\ status[n] = "offline"
  /\ Become(mpc_failing_node_recovery(World, n))

NodeRemoved(n) ==
  /\ status[n] \in Online
  /\ Become([World EXCEPT !.status[n] = "gone", !.prev[n] = "none"])

\* Requests are lost, desired and reported values persist.
Restart ==
  Become([World EXCEPT !.req = [r \in Requests |-> FreeRequest],
                       !.open = @ \cup {p \in Paths : InFlight(World, p[1], p[2])}])

-----------------------------------------------------------------------------
Init ==
  /\ status = [n \in Nodes |-> "functional"] /\ prev = [n \in Nodes |-> "none"]
  /\ db = [n \in Nodes |-> None]
  /\ desired = [n \in Nodes |-> [a \in Attrs |-> Initial]]
  /\ reported = desired /\ confirmed = desired
  /\ req = [r \in Requests |-> FreeRequest]
  /\ writes = 0 /\ open = {} /\ mixed = {}

Next ==
  \/ \E n \in Nodes, S \in SUBSET Attrs, x \in Values, r \in Requests :
       LET v == [a \in Attrs |-> x]
       IN  \/ Write(n, S, v, r)
           \/ \E garbage \in BOOLEAN, error \in Error \cup {"none"} : WriteNow(n, S, v, r, garbage, error)
  \/ \E r \in Requests, wild \in Wild :
       \/ \E puts \in SUBSET Attrs, garbage \in BOOLEAN, error \in Error \cup {"none"} :
            Connected(r, puts, garbage, error, wild)
       \/ ConnectionFails(r, wild)
       \/ \E ok \in SUBSET Attrs : OnResponse(r, ok, wild)
       \/ \E error \in Error : OnError(r, error, wild)
  \/ \E n \in Nodes : OtherMessage(n) \/ NodeRemoved(n)
  \/ Restart

Spec == Init /\ [][Next]_vars

-----------------------------------------------------------------------------
(* Properties *)

TypeOK ==
  /\ status \in [Nodes -> Status] /\ prev \in [Nodes -> Saved] /\ db \in [Nodes -> {None, 0}]
  /\ desired \in [Nodes -> [Attrs -> Values]] /\ reported \in [Nodes -> [Attrs -> Values]]
  /\ confirmed \in [Nodes -> [Attrs -> Values]]
  /\ req \in [Requests -> Request] /\ writes \in 0..MaxWrites /\ open \subseteq Paths /\ mixed \subseteq Paths
  /\ \A r \in Requests : req[r].asked \subseteq req[r].paths

\* No write is left hanging: an attribute of a known node whose desired and reported values differ has
\* a write in flight.  Whatever fails - session, encoding, sending, device, answer -
\* and although a callback may hit the wrong attribute, the write is settled one way
\* or the other.  The exceptions are a path whose encoding failed before the last one,
\* and a restart (open).
Settled ==
  \A n \in Nodes, a \in Attrs :
    status[n] # "gone" /\ desired[n][a] # reported[n][a] => InFlight(World, n, a) \/ <<n, a>> \in open

\* What is reported is what the device last confirmed, unless two writes of the
\* attribute were in flight together, one was sent from the freed buffer, or a
\* callback for a removed node hit it (mixed): a refused, failed or lost write never
\* shows.
ReportedIsConfirmed ==
  \A n \in Nodes, a \in Attrs :
    status[n] # "gone" /\ <<n, a>> \notin mixed => reported[n][a] = confirmed[n][a]
=============================================================================
