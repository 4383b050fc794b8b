--------------------------- MODULE NodeInterview ---------------------------
(***************************************************************************)
(* The interview of one device: the attribute resolver's read requests,    *)
(* the parsers that add to the attribute tree what a list names, and the   *)
(* completion that publishes the result (mpc_attribute_resolver_*.cpp,     *)
(* mpc_attribute_cluster_parser.cpp, mpc_attribute_parser_fwk.cpp).        *)
(*                                                                         *)
(* An attribute of an endpoint is absent, to be read, being read, reported *)
(* or given up.  The resolver itself is external: it reads an attribute    *)
(* that has a rule and no value up to GetRetryCount times, and calls the   *)
(* completion listener each time nothing is left to read.  An answer and   *)
(* an error of a request are one action each, on the Matter thread.        *)
(***************************************************************************)
EXTENDS FailingNode, FiniteSets

CONSTANTS
  Device,         \* the store node
  Endpoints,      \* of the device, in the order of its parts list from 1; 0 is the root
  OnOffServers,   \* endpoints whose server list names the OnOff cluster
  Listed,         \* for each endpoint, what its OnOff attribute list names
  GetRetryCount,  \* get_retry_count
  MaxRestarts     \* bound on the restarts of the program

ASSUME InterviewAssumption ==
  /\ Endpoints \subseteq Nat /\ 0 \in Endpoints /\ OnOffServers \subseteq Endpoints
  /\ GetRetryCount \in Nat \ {0} /\ MaxRestarts \in Nat

\* Attributes on which nothing else depends are left out (ClientList, DeviceTypeList,
\* PartsList of an endpoint without parts, FeatureMap, ClusterRevision and the two
\* command lists of OnOff): OnOff stands for them too.  EventList stands for an
\* attribute the device lists and the MPC has no rule for.
DescriptorLists(e) == IF e = 0 THEN {"ServerList", "PartsList"} ELSE {"ServerList"}
Volatile == {"OnOff"}          \* mpc_volatilte_attr_list
Rules == {"ServerList", "PartsList", "AttributeList", "OnOff"}
Attributes == Rules \cup {"EventList"}

ASSUME ListedAssumption == Listed \in [Endpoints -> SUBSET Attributes]

VARIABLES
  status, prev, db,   \* as in FailingNode
  attr,      \* state of each attribute of each endpoint
  tries,     \* reads sent since the last boot
  setup,     \* reportables_setup_list: the volatile attributes to subscribe to
  subs,      \* the subscriptions of the node that are being made or open
  lost,      \* history: a subscription has ended, or was not made, and nothing replaced it
  settled,   \* the resolver has called the listener and has found nothing since
  restarts

vars == <<status, prev, db, attr, tries, setup, subs, lost, settled, restarts>>

World == [status |-> status, prev |-> prev, db |-> db, attr |-> attr, setup |-> setup]

Become(w) ==
  /\ status' = w.status /\ prev' = w.prev /\ db' = w.db
  /\ attr' = w.attr /\ setup' = w.setup

Paths == Endpoints \X Rules

-----------------------------------------------------------------------------
(* Growth of the tree *)

\* emplace_node() of attributes as below endpoint e; creating a volatile one calls
\* mpc_on_volatile_attribute_discovery().
Emplace(w, e, as) ==
  LET new == {a \in as : w.attr[e][a] = "absent"}
  IN  [w EXCEPT !.attr[e] = [a \in Attributes |-> IF a \in new THEN "todo" ELSE @[a]],
                !.setup = @ \cup ({e} \X (new \cap Volatile))]

\* add_node(ATTRIBUTE_ENDPOINT_ID) for each part, each with mpc_on_ep_change_cb().
AddEndpoints(w, es) ==
  [w EXCEPT !.attr = [e \in Endpoints |->
     [a \in Attributes |-> IF e \in es /\ a \in DescriptorLists(e) /\ @[e][a] = "absent" THEN "todo" ELSE @[e][a]]]]

\* Mutant: the global attributes are not added.
Parsed_NoGlobals(w, e, a) ==
  LET reported == [w EXCEPT !.attr[e][a] = "reported"]
  IN  CASE a = "PartsList" /\ e = 0 -> AddEndpoints(reported, Endpoints \ {0})
        [] a = "AttributeList" -> Emplace(reported, e, Listed[e])
        [] OTHER -> reported

\* mpc_attribute_parser_invoke(): what a list names is added, then the value is
\* reported.  Only the root has parts.
Parsed(w, e, a) ==
  LET reported == [w EXCEPT !.attr[e][a] = "reported"]
  IN  CASE a = "ServerList" /\ e \in OnOffServers -> Emplace(reported, e, {"AttributeList"})
        [] a = "PartsList" /\ e = 0 -> AddEndpoints(reported, Endpoints \ {0})
        [] a = "AttributeList" -> Emplace(reported, e, Listed[e])
        [] OTHER -> reported

-----------------------------------------------------------------------------
(* Requests of the resolver *)

\* mpc_resolver_get_rule() and mpc_attribute_resolver_send().
Send(e, a) ==
  /\ attr[e][a] = "todo"
  /\ attr' = [attr EXCEPT ![e][a] = "reading"]
  /\ tries' = [tries EXCEPT ![e][a] = @ + 1]
  /\ settled' = FALSE
  /\ UNCHANGED <<status, prev, db, setup, subs, lost, restarts>>

\* Mutant: one retry too many.
Unanswered_OffByOne(w, e, a) ==
  [w EXCEPT !.attr[e][a] = IF tries[e][a] <= GetRetryCount THEN "todo" ELSE "gaveup"]

\* on_resolver_send_data_complete() without a value for the attribute: the resolver
\* tries again until its retries are used up.
Unanswered(w, e, a) ==
  [w EXCEPT !.attr[e][a] = IF tries[e][a] < GetRetryCount THEN "todo" ELSE "gaveup"]

Rest == <<tries, subs, lost, settled, restarts>>

\* OnAttributeData() with a value.
OnAttributeData(e, a) ==
  /\ attr[e][a] = "reading"
  /\ Become(mpc_failing_node_recovery(Parsed(World, e, a), Device))
  /\ UNCHANGED Rest

\* OnAttributeData() with an error status, or with a value that cannot be parsed.
OnAttributeDataFails(e, a) ==
  /\ attr[e][a] = "reading"
  /\ Become(mpc_failing_node_recovery(Unanswered(World, e, a), Device))
  /\ UNCHANGED Rest

\* Mutant: the resolver is not told.
OnError_NotTold(e, a, error) ==
  /\ attr[e][a] = "reading"
  /\ Become(check_and_mark_failing_node(World, Device, error, 0))
  /\ UNCHANGED Rest

\* OnError() of the ReadClient, or after a failure to connect.
OnError(e, a, error) ==
  /\ attr[e][a] = "reading"
  /\ Become(Unanswered(check_and_mark_failing_node(World, Device, error, 0), e, a))
  /\ UNCHANGED Rest

\* AttributeReadRequest::Send() fails: it calls OnError() and so does its caller.
SendFails(e, a, error) ==
  /\ attr[e][a] = "reading"
  /\ LET failed == check_and_mark_failing_node(World, Device, error, 0)
     IN  Become(Unanswered(check_and_mark_failing_node(failed, Device, error, 0), e, a))
  /\ UNCHANGED Rest

-----------------------------------------------------------------------------
(* Completion *)

Added(e) == attr[e]["ServerList"] # "absent"

\* reported<string>() of a list without a value throws.
Throws(e) ==
  \/ attr[e]["ServerList"] # "reported"
  \/ e \in OnOffServers /\ attr[e]["AttributeList"] # "reported"

\* Mutant of Resolved: one resolved attribute is enough.
Resolved_Any(e) == e \in OnOffServers /\ \E a \in Listed[e] : attr[e][a] = "reported"

\* All attributes of the one supported cluster of e have a value.
Resolved(e) == e \in OnOffServers /\ \A a \in Listed[e] : attr[e][a] = "reported"

\* mpc_attribute_resolver_check_app_cluster_resolution() for the endpoints in order;
\* an exception ends the search.
CompletionStatus ==
  IF \E e \in Endpoints : Added(e) /\ Resolved(e) /\ \A f \in Endpoints : f <= e /\ Added(f) => ~Throws(f)
  THEN "functional" ELSE "nonfunctional"

ToRead == {p \in Paths : attr[p[1]][p[2]] \in {"todo", "reading"}}

\* An MPCNodeReportables: object 1 is made by the completion, 2 and 3 ask again
\* (mReSubscribe) after a timeout of object 1.
Subscription == [object : 1 .. 3, st : {"connecting", "open"}, paths : SUBSET (Endpoints \X Volatile)]

\* mpc_node_monitor_initiate_monitoring(), where New() has memory for the objects made:
\* a node without a set-up list gets no subscription.
mpc_node_monitor_initiate_monitoring(made) ==
  {[object |-> i, st |-> "connecting", paths |-> setup] : i \in IF setup = {} THEN {} ELSE made}

\* Mutant: the path list is not what was discovered.
ResolutionCompletion_RootOnly ==
  /\ ToRead = {} /\ ~settled /\ settled' = TRUE
  /\ IF status[Device] = "offline"
     THEN UNCHANGED <<status, subs, lost>>
     ELSE /\ status' = [status EXCEPT ![Device] = CompletionStatus]
          /\ \E made \in SUBSET {1} :
               /\ subs' = subs \cup {[s EXCEPT !.paths = {p \in setup : p[1] = 0}] :
                                       s \in mpc_node_monitor_initiate_monitoring(made)}
               /\ lost' = (lost \/ made = {})
  /\ UNCHANGED <<prev, db, attr, tries, setup, restarts>>

\* Mutant: the test for a failing node is the wrong way round.
ResolutionCompletion_Negated ==
  /\ ToRead = {} /\ ~settled /\ settled' = TRUE
  /\ IF status[Device] # "offline"
     THEN UNCHANGED <<status, subs, lost>>
     ELSE /\ status' = [status EXCEPT ![Device] = CompletionStatus]
          /\ \E made \in SUBSET {1} :
               /\ subs' = subs \cup mpc_node_monitor_initiate_monitoring(made)
               /\ lost' = (lost \/ made = {})
  /\ UNCHANGED <<prev, db, attr, tries, setup, restarts>>

\* mpc_attribute_resolver_resolution_completion()
ResolutionCompletion ==
  /\ ToRead = {} /\ ~settled /\ settled' = TRUE
  /\ IF status[Device] = "offline"
     THEN UNCHANGED <<status, subs, lost>>
     ELSE /\ status' = [status EXCEPT ![Device] = CompletionStatus]
          /\ \E made \in SUBSET {1} :
               /\ subs' = subs \cup mpc_node_monitor_initiate_monitoring(made)
               /\ lost' = (lost \/ made = {})
  /\ UNCHANGED <<prev, db, attr, tries, setup, restarts>>

-----------------------------------------------------------------------------
(* Subscriptions that fail *)

\* on_device_connected_common: the subscribe request is sent.
SubscribeSent(s) ==
  /\ s.st = "connecting"
  /\ subs' = (subs \ {s}) \cup {[s EXCEPT !.st = "open"]}
  /\ UNCHANGED <<status, prev, db, attr, tries, setup, lost, settled, restarts>>

\* Whether OnError of the subscription s makes another one.
Resubscribes(s, error) == s.object = 1 /\ error = "timeout"

\* MPCNodeReportablesDelegate::OnError: what it does to the node.
MarkedBy(s, error, w) ==
  CASE s.object # 1 -> check_and_mark_failing_node(w, Device, error, 0)
    [] s.object = 1 /\ error = "timeout" -> w
    [] OTHER -> mpc_mark_device_as_failing(w, Device, 0)

\* The subscription s ends; each call of OnError makes one of the objects again, as
\* memory allows.
Ends(s, error, again) ==
  /\ \E made \in SUBSET again :
       /\ subs' = (subs \ {s}) \cup IF Resubscribes(s, error) THEN mpc_node_monitor_initiate_monitoring(made) ELSE {}
       /\ lost' = (lost \/ ~Resubscribes(s, error) \/ made = {})
  /\ UNCHANGED <<tries, settled, restarts>>

\* on_device_connection_failure_common
ConnectionFails(s) ==
  /\ s.st = "connecting"
  /\ Become(MarkedBy(s, "closed", World)) /\ Ends(s, "closed", {2})

\* SubscribeRequest::Send fails: it calls OnError and so does its caller.
SubscribeSendFails(s, error) ==
  /\ s.st = "connecting"
  /\ Become(MarkedBy(s, error, MarkedBy(s, error, World))) /\ Ends(s, error, {2, 3})

\* The ReadClient gives up.
SubscriptionFails(s, error) ==
  /\ s.st = "open"
  /\ Become(MarkedBy(s, error, World)) /\ Ends(s, error, {2})

-----------------------------------------------------------------------------
(* Other traffic with the device, and restarts *)

\* A command is answered or a report comes in.
OtherMessage ==
  /\ status[Device] = "offline"
  /\ Become(mpc_failing_node_recovery(World, Device))
  /\ UNCHANGED Rest

OtherFailure(error) ==
  /\ Become(check_and_mark_failing_node(World, Device, error, 0))
  /\ UNCHANGED Rest

\* The store survives; mpc_nw_monitor_init() sets the listener for every node, and
\* the resolver begins again with what has no value.
Restart ==
  /\ restarts < MaxRestarts /\ restarts' = restarts + 1
  /\ attr' = [e \in Endpoints |-> [a \in Attributes |->
       IF attr[e][a] \in {"reading", "gaveup"} THEN "todo" ELSE attr[e][a]]]
  /\ tries' = [e \in Endpoints |-> [a \in Attributes |-> 0]]
  /\ setup' = {} /\ subs' = {} /\ lost' = FALSE /\ settled' = FALSE
  /\ UNCHANGED <<status, prev, db>>

-----------------------------------------------------------------------------
\* As mpc_start_next_pending_interview() and mpc_on_ep_change_cb() leave the node.
Init ==
  /\ status = [n \in {Device} |-> "interviewing"]
  /\ prev = [n \in {Device} |-> "none"] /\ db = [n \in {Device} |-> None]
  /\ attr = [e \in Endpoints |-> [a \in Attributes |->
       IF e = 0 /\ a \in DescriptorLists(e) THEN "todo" ELSE "absent"]]
  /\ tries = [e \in Endpoints |-> [a \in Attributes |-> 0]]
  /\ setup = {} /\ subs = {} /\ lost = FALSE /\ settled = FALSE /\ restarts = 0

Answer(e, a) ==
  \/ OnAttributeData(e, a) \/ OnAttributeDataFails(e, a)
  \/ \E error \in Error : OnError(e, a, error) \/ SendFails(e, a, error)

Next ==
  \/ \E p \in Paths : Send(p[1], p[2]) \/ Answer(p[1], p[2])
  \/ ResolutionCompletion
  \/ \E s \in subs : \/ SubscribeSent(s) \/ ConnectionFails(s)
                     \/ \E error \in Error : SubscribeSendFails(s, error) \/ SubscriptionFails(s, error)
  \/ OtherMessage
  \/ \E error \in Error : OtherFailure(error)
  \/ Restart

Spec == Init /\ [][Next]_vars

\* The Contiki loop keeps serving the resolver, and the SDK answers its requests, with
\* data or a timeout.
FairSpec ==
  /\ Spec
  /\ WF_vars(\E p \in Paths : Send(p[1], p[2]))
  /\ WF_vars(\E p \in Paths : Answer(p[1], p[2]))
  /\ WF_vars(ResolutionCompletion)

-----------------------------------------------------------------------------
(* Properties *)

TypeOK ==
  /\ status \in [{Device} -> Status] /\ prev \in [{Device} -> Saved]
  /\ db \in [{Device} -> {None, 0}]
  /\ attr \in [Endpoints -> [Attributes -> {"absent", "todo", "reading", "reported", "gaveup"}]]
  /\ tries \in [Endpoints -> [Attributes -> 0 .. GetRetryCount]]
  /\ setup \subseteq Endpoints \X Volatile
  /\ subs \subseteq Subscription /\ \A s \in subs : s.paths \subseteq setup
  /\ lost \in BOOLEAN
  /\ settled \in BOOLEAN /\ restarts \in 0 .. MaxRestarts

\* A node published as functional can be used: some endpoint has the OnOff cluster
\* with everything its attribute list names, through failures, recoveries and
\* restarts of the program.
FunctionalIsUsable ==
  "functional" \in {status[Device], prev[Device]}
    => \E e \in OnOffServers : \A a \in Listed[e] : attr[e][a] = "reported"

Monitored == UNION {s.paths : s \in subs}

\* In the life of the program that discovered them, every volatile attribute in the
\* tree of a node published as functional is subscribed to, as long as each failure of
\* a subscription was the timeout of the first one, whatever has taken the node offline
\* and brought it back in between.  Other failures, and a lack of memory, end the
\* monitoring for good: the recovery of the node does not begin it again.
FunctionalIsMonitored ==
  status[Device] = "functional" /\ restarts = 0 /\ ~lost
    => \A e \in Endpoints : \A a \in Volatile : attr[e][a] # "absent" => <<e, a>> \in Monitored

\* Nothing is missing from the tree that the lists read so far name: no list entry is
\* lost on the way, through failed reads, retries and restarts, so that there is nothing
\* the resolver could have overlooked when it reports completion.
TreeComplete ==
  \A e \in Endpoints :
    /\ e = 0 \/ attr[0]["PartsList"] = "reported" => Added(e)
    /\ e \in OnOffServers /\ attr[e]["ServerList"] = "reported" => attr[e]["AttributeList"] # "absent"
    /\ attr[e]["AttributeList"] = "reported" => \A a \in Listed[e] : attr[e][a] # "absent"

\* The reads of an interview come to an end, although each one may add others and
\* each failure repeats one.
ReadsEnd == ToRead # {} ~> ToRead = {}

\* An interview during which the node does not go offline has a result.
InterviewEnds ==
  [](status[Device] # "offline") => <>(status[Device] \in {"functional", "nonfunctional"})

\* What the comment at the early return of the completion says, "the auto recovery
\* is taking care of it": a node does not stay in its interview for ever.
NotInterviewingForEver == status[Device] = "interviewing" ~> status[Device] # "interviewing"
=============================================================================
