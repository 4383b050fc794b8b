------------------------ MODULE NodeInterviewProofs ------------------------
(***************************************************************************)
(* Proofs about NodeInterview, for any endpoints, attribute lists, retry   *)
(* limits and numbers of restarts: the state keeps its type (no read more  *)
(* than the retries allow), the tree has what the lists name, a node       *)
(* published as functional is usable and monitored, and the reads run out. *)
(***************************************************************************)
EXTENDS NodeInterview, TLAPS

\* An attribute: not in the tree, to be read, being read, reported, given up.
AttrState == {"absent", "todo", "reading", "reported", "gaveup"}

\* The record of the state, typed.
WorldType ==
  [status : [{Device} -> Status], prev : [{Device} -> Saved], db : [{Device} -> {None, 0}],
   attr : [Endpoints -> [Attributes -> AttrState]], setup : SUBSET (Endpoints \X Volatile)]

\* An attribute that is still to be found was never asked for, and one to be read has
\* a read left: so no read exceeds the retries.
Budget(w) ==
  \A e \in Endpoints, a \in Attributes :
    /\ w.attr[e][a] = "absent" => tries[e][a] = 0
    /\ w.attr[e][a] = "todo" => tries[e][a] < GetRetryCount

\* TreeComplete, of the record.
Complete(w) ==
  \A e \in Endpoints :
    /\ e = 0 \/ w.attr[0]["PartsList"] = "reported" => w.attr[e]["ServerList"] # "absent"
    /\ e \in OnOffServers /\ w.attr[e]["ServerList"] = "reported" => w.attr[e]["AttributeList"] # "absent"
    /\ w.attr[e]["AttributeList"] = "reported" => \A a \in Listed[e] : w.attr[e][a] # "absent"

\* Before any restart the set-up list has every volatile attribute of the tree.
AllSetUp(w) ==
  restarts = 0 => \A e \in Endpoints : \A a \in Volatile : w.attr[e][a] # "absent" => <<e, a>> \in w.setup

\* What the tree has to satisfy at every step.
Tree(w) == Budget(w) /\ Complete(w) /\ AllSetUp(w)

\* The node is functional, or will be once it has recovered.
Functional(w) == "functional" \in {w.status[Device], w.prev[Device]}

\* Some subscription is for the whole of the set-up list, unless one was lost or there
\* is nothing to subscribe to.
Covered == lost \/ setup = {} \/ \E s \in subs : s.paths = setup

\* A functional node has nothing left to read, until a restart, and the subscription
\* it got then, or one that replaces it, is still for the whole of the set-up list.
NothingNew == restarts = 0 /\ Functional(World) => ToRead = {} /\ Covered

\* The part of the type that is about the subscriptions.
SubsOK == subs \subseteq Subscription /\ (\A s \in subs : s.paths \subseteq setup) /\ lost \in BOOLEAN

\* The inductive invariant.
IInv == TypeOK /\ Tree(World) /\ FunctionalIsUsable /\ NothingNew

\* w after a failure of the device or a message from it.
StatusOnly(w, v) ==
  /\ v \in WorldType /\ v.attr = w.attr /\ v.setup = w.setup
  /\ Functional(v) => Functional(w)

\* mpc_mark_device_as_failing leaves the tree alone and makes no node functional.
LEMMA MarkStatusOnly ==
  ASSUME NEW w \in WorldType
  PROVE  StatusOnly(w, mpc_mark_device_as_failing(w, Device, 0))
  <1> DEFINE n == Device
             marked == [w EXCEPT !.prev[n] = w.status[n], !.status[n] = "offline"]
             m == mpc_mark_device_as_failing(w, n, 0)
  <1>1. w.status \in [{n} -> Status] /\ w.prev \in [{n} -> Saved] /\ w.db \in [{n} -> {None, 0}]
    BY DEF WorldType
  <1>2. CASE w.status[n] = "gone"
    BY <1>2 DEF mpc_mark_device_as_failing, StatusOnly
  <1>3. CASE w.status[n] # "gone"
    <2>1. w.status[n] \in Saved /\ "offline" \in Status
      BY <1>1, <1>3 DEF Status, Saved, Online
    <2>2. [w.status EXCEPT ![n] = "offline"] \in [{n} -> Status]
          /\ [w.prev EXCEPT ![n] = w.status[n]] \in [{n} -> Saved]
      BY <1>1, <2>1
    <2>3. /\ marked \in WorldType /\ marked.db = w.db /\ marked.attr = w.attr /\ marked.setup = w.setup
          /\ marked.status = [w.status EXCEPT ![n] = "offline"]
          /\ marked.prev = [w.prev EXCEPT ![n] = w.status[n]]
      BY <2>2 DEF WorldType
    <2> HIDE DEF marked
    <2>4. marked.status[n] = "offline" /\ marked.prev[n] = w.status[n]
      BY <1>1, <2>3
    <2>5. StatusOnly(w, marked)
      BY <2>3, <2>4 DEF StatusOnly, Functional
    <2>6. StatusOnly(w, insert_failing_node(marked, n, 0))
      <3> DEFINE row == IF marked.db[n] = None THEN 0 ELSE marked.db[n]
                 d == [marked.db EXCEPT ![n] = row]
                 v == [marked EXCEPT !.db = d]
      <3>1. d \in [{n} -> {None, 0}]
        BY <1>1, <2>3
      <3>2. insert_failing_node(marked, n, 0) = v
        BY DEF insert_failing_node
      <3> HIDE DEF d
      <3>3. /\ v \in WorldType /\ v.attr = marked.attr /\ v.setup = marked.setup
            /\ v.status = marked.status /\ v.prev = marked.prev
        BY <2>3, <3>1 DEF WorldType
      <3> HIDE DEF v
      <3>4. QED
        BY <2>5, <3>2, <3>3 DEF StatusOnly, Functional
    <2>7. m = marked \/ m = insert_failing_node(marked, n, 0)
      BY <1>3 DEF mpc_mark_device_as_failing, marked
    <2>8. QED
      BY <2>5, <2>6, <2>7
  <1>4. QED
    BY <1>2, <1>3

\* So does check_and_mark_failing_node.
LEMMA CheckStatusOnly ==
  ASSUME NEW w \in WorldType, NEW error
  PROVE  StatusOnly(w, check_and_mark_failing_node(w, Device, error, 0))
  <1>1. StatusOnly(w, w)
    BY DEF StatusOnly
  <1>2. QED
    BY <1>1, MarkStatusOnly DEF check_and_mark_failing_node

\* So does mpc_failing_node_recovery: it brings back the state that was saved.
LEMMA RecoveryStatusOnly ==
  ASSUME NEW w \in WorldType
  PROVE  StatusOnly(w, mpc_failing_node_recovery(w, Device))
  <1> DEFINE n == Device
             v == mpc_failing_node_recovery(w, n)
  <1>1. CASE v = w
    BY <1>1 DEF StatusOnly
  <1>2. CASE v # w
    <2>1. /\ v = [w EXCEPT !.status = [w.status EXCEPT ![n] = w.prev[n]],
                           !.prev = [w.prev EXCEPT ![n] = "none"], !.db = [w.db EXCEPT ![n] = None]]
          /\ w.prev[n] # "none"
      BY <1>2 DEF mpc_failing_node_recovery
    <2>2. /\ w.status \in [{n} -> Status] /\ w.prev \in [{n} -> Saved]
          /\ w.db \in [{n} -> {None, 0}]
      BY DEF WorldType
    <2>3. w.prev[n] \in Status /\ "none" \in Saved
      BY <2>1, <2>2 DEF Status, Saved, Online
    <2>4. /\ [w.status EXCEPT ![n] = w.prev[n]] \in [{n} -> Status]
          /\ [w.prev EXCEPT ![n] = "none"] \in [{n} -> Saved]
          /\ [w.db EXCEPT ![n] = None] \in [{n} -> {None, 0}]
      BY <2>2, <2>3
    <2>5. /\ v \in WorldType /\ v.status = [w.status EXCEPT ![n] = w.prev[n]]
          /\ v.prev = [w.prev EXCEPT ![n] = "none"] /\ v.attr = w.attr /\ v.setup = w.setup
      BY <2>1, <2>4 DEF WorldType
    <2> HIDE DEF v
    <2>6. v.status[n] = w.prev[n] /\ v.prev[n] = "none"
      BY <2>2, <2>5
    <2>7. QED
      BY <2>5, <2>6 DEF StatusOnly, Functional, v
  <1>3. QED
    BY <1>1, <1>2

-----------------------------------------------------------------------------
(* The tree *)

\* v is w with the state of one attribute set.
AttributeSet(w, v, e, a, s) ==
  /\ v \in WorldType /\ v.status = w.status /\ v.prev = w.prev /\ v.setup = w.setup
  /\ v.attr[e][a] = s
  /\ \A f \in Endpoints, b \in Attributes : f # e \/ b # a => v.attr[f][b] = w.attr[f][b]

\* Setting one attribute sets that one.
LEMMA SetAttribute ==
  ASSUME NEW w \in WorldType, NEW e \in Endpoints, NEW a \in Attributes, NEW s \in AttrState
  PROVE  AttributeSet(w, [w EXCEPT !.attr[e][a] = s], e, a, s)
  <1> DEFINE row == [w.attr[e] EXCEPT ![a] = s]
             m == [w.attr EXCEPT ![e] = row]
             v == [w EXCEPT !.attr = m]
  <1>1. w.attr \in [Endpoints -> [Attributes -> AttrState]]
    BY DEF WorldType
  <1>2. row \in [Attributes -> AttrState] /\ row[a] = s /\ \A b \in Attributes : b # a => row[b] = w.attr[e][b]
    BY <1>1
  <1>3. v = [w EXCEPT !.attr[e][a] = s]
    OBVIOUS
  <1> HIDE DEF row
  <1>4. /\ m \in [Endpoints -> [Attributes -> AttrState]] /\ m[e] = row
        /\ \A f \in Endpoints : f # e => m[f] = w.attr[f]
    BY <1>1, <1>2
  <1> HIDE DEF m
  <1>5. /\ v \in WorldType /\ v.status = w.status /\ v.prev = w.prev /\ v.setup = w.setup /\ v.attr = m
    BY <1>4 DEF WorldType
  <1> HIDE DEF v
  <1>6. AttributeSet(w, v, e, a, s)
    BY <1>2, <1>4, <1>5 DEF AttributeSet
  <1>7. QED
    BY <1>3, <1>6

\* v is w with the attributes as of endpoint e in the tree, and set up if volatile.
Emplaced(w, v, e, as) ==
  /\ v \in WorldType /\ v.status = w.status /\ v.prev = w.prev
  /\ w.setup \subseteq v.setup
  /\ \A f \in Endpoints, b \in Attributes :
       IF f = e /\ b \in as /\ w.attr[f][b] = "absent"
       THEN v.attr[f][b] = "todo" /\ (b \in Volatile => <<f, b>> \in v.setup)
       ELSE v.attr[f][b] = w.attr[f][b]

\* Emplace adds the attributes that are not there, to the set-up list as well.
LEMMA EmplaceEmplaces ==
  ASSUME NEW w \in WorldType, NEW e \in Endpoints, NEW as \in SUBSET Attributes
  PROVE  Emplaced(w, Emplace(w, e, as), e, as)
  <1> DEFINE new == {a \in as : w.attr[e][a] = "absent"}
             row == [a \in Attributes |-> IF a \in new THEN "todo" ELSE w.attr[e][a]]
             m == [w.attr EXCEPT ![e] = row]
             s == w.setup \cup ({e} \X (new \cap Volatile))
             v == [w EXCEPT !.attr = m, !.setup = s]
  <1>1. w.attr \in [Endpoints -> [Attributes -> AttrState]] /\ w.setup \in SUBSET (Endpoints \X Volatile)
    BY DEF WorldType
  <1>2. Emplace(w, e, as) = v
    BY DEF Emplace
  <1>3. /\ row \in [Attributes -> AttrState]
        /\ \A b \in Attributes : IF b \in as /\ w.attr[e][b] = "absent" THEN row[b] = "todo" ELSE row[b] = w.attr[e][b]
    BY <1>1 DEF AttrState
  <1>4. /\ s \in SUBSET (Endpoints \X Volatile) /\ w.setup \subseteq s
        /\ \A b \in as \cap Volatile : w.attr[e][b] = "absent" => <<e, b>> \in s
    BY <1>1
  <1> HIDE DEF row, s
  <1>5. /\ m \in [Endpoints -> [Attributes -> AttrState]] /\ m[e] = row
        /\ \A f \in Endpoints : f # e => m[f] = w.attr[f]
    BY <1>1, <1>3
  <1> HIDE DEF m
  <1>6. v \in WorldType /\ v.status = w.status /\ v.prev = w.prev /\ v.setup = s /\ v.attr = m
    BY <1>4, <1>5 DEF WorldType
  <1> HIDE DEF v
  <1>7. Emplaced(w, v, e, as)
    BY <1>3, <1>4, <1>5, <1>6 DEF Emplaced
  <1>8. QED
    BY <1>2, <1>7

\* v is w with the descriptor lists of the endpoints es in the tree.
EndpointsAdded(w, v, es) ==
  /\ v \in WorldType /\ v.status = w.status /\ v.prev = w.prev /\ v.setup = w.setup
  /\ \A f \in Endpoints, b \in Attributes :
       IF f \in es /\ b \in DescriptorLists(f) /\ w.attr[f][b] = "absent"
       THEN v.attr[f][b] = "todo" ELSE v.attr[f][b] = w.attr[f][b]

\* AddEndpoints adds the descriptor lists of the endpoints.
LEMMA AddEndpointsAdds ==
  ASSUME NEW w \in WorldType, NEW es \in SUBSET Endpoints
  PROVE  EndpointsAdded(w, AddEndpoints(w, es), es)
  <1> DEFINE m == [e \in Endpoints |-> [a \in Attributes |->
                    IF e \in es /\ a \in DescriptorLists(e) /\ w.attr[e][a] = "absent" THEN "todo" ELSE w.attr[e][a]]]
             v == [w EXCEPT !.attr = m]
  <1>1. w.attr \in [Endpoints -> [Attributes -> AttrState]]
    BY DEF WorldType
  <1>2. AddEndpoints(w, es) = v
    BY DEF AddEndpoints
  <1>3. /\ m \in [Endpoints -> [Attributes -> AttrState]]
        /\ \A f \in Endpoints, b \in Attributes :
             IF f \in es /\ b \in DescriptorLists(f) /\ w.attr[f][b] = "absent"
             THEN m[f][b] = "todo" ELSE m[f][b] = w.attr[f][b]
    BY <1>1 DEF AttrState
  <1> HIDE DEF m
  <1>4. v \in WorldType /\ v.status = w.status /\ v.prev = w.prev /\ v.setup = w.setup /\ v.attr = m
    BY <1>3 DEF WorldType
  <1> HIDE DEF v
  <1>5. EndpointsAdded(w, v, es)
    BY <1>3, <1>4 DEF EndpointsAdded
  <1>6. QED
    BY <1>2, <1>5

\* w after the answer to a read: nothing that was reported or set up is lost.
Grown(w, v) ==
  /\ v \in WorldType /\ Tree(v) /\ w.setup \subseteq v.setup
  /\ Functional(v) => Functional(w)
  /\ \A f \in Endpoints, b \in Attributes : w.attr[f][b] = "reported" => v.attr[f][b] = "reported"

\* An attribute that was being read and has no value is read again or given up.
LEMMA UnansweredGrows ==
  ASSUME NEW w \in WorldType, Tree(w), NEW e \in Endpoints, NEW a \in Rules, w.attr[e][a] = "reading",
         tries \in [Endpoints -> [Attributes -> 0 .. GetRetryCount]]
  PROVE  Grown(w, Unanswered(w, e, a))
  <1> DEFINE s == IF tries[e][a] < GetRetryCount THEN "todo" ELSE "gaveup"
             v == Unanswered(w, e, a)
  <1>1. a \in Attributes
    BY DEF Attributes
  <1>2. s \in AttrState /\ s \in {"todo", "gaveup"} /\ (s = "todo" => tries[e][a] < GetRetryCount)
    BY DEF AttrState
  <1>3. v = [w EXCEPT !.attr[e][a] = s]
    BY DEF Unanswered
  <1> HIDE DEF s, v
  <1>4. AttributeSet(w, v, e, a, s)
    BY <1>1, <1>2, <1>3, SetAttribute
  <1>5. \A f \in Endpoints, b \in Attributes :
          /\ v.attr[f][b] = "absent" <=> w.attr[f][b] = "absent"
          /\ v.attr[f][b] = "reported" <=> w.attr[f][b] = "reported"
          /\ v.attr[f][b] = "todo" => w.attr[f][b] = "todo" \/ tries[f][b] < GetRetryCount
    BY <1>2, <1>4 DEF AttributeSet
  <1>6. Budget(v)
    BY <1>5 DEF Tree, Budget
  <1>7. Complete(v)
    BY <1>5, InterviewAssumption, ListedAssumption DEF Tree, Complete, Attributes, Rules
  <1>8. AllSetUp(v)
    BY <1>4, <1>5 DEF Tree, AllSetUp, AttributeSet, Attributes, Rules, Volatile
  <1>9. QED
    BY <1>4, <1>5, <1>6, <1>7, <1>8 DEF Grown, Tree, AttributeSet, Functional, v

\* w with a value for attribute a of endpoint e and some attributes new in the tree.
Extended(w, v, e, a) ==
  /\ v \in WorldType /\ v.status = w.status /\ v.prev = w.prev /\ w.setup \subseteq v.setup
  /\ v.attr[e][a] = "reported"
  /\ \A f \in Endpoints, b \in Attributes :
       f # e \/ b # a =>
         \/ v.attr[f][b] = w.attr[f][b]
         \/ /\ w.attr[f][b] = "absent" /\ v.attr[f][b] = "todo"
            /\ b \in Volatile => <<f, b>> \in v.setup

\* What the value of attribute a of endpoint e names is in the tree.
Named(v, e, a) ==
  /\ a = "ServerList" /\ e \in OnOffServers => v.attr[e]["AttributeList"] # "absent"
  /\ a = "PartsList" /\ e = 0 => \A f \in Endpoints : v.attr[f]["ServerList"] # "absent"
  /\ a = "AttributeList" => \A b \in Listed[e] : v.attr[e][b] # "absent"

\* A reported list followed by its emplaced attributes only extends the tree.
LEMMA EmplaceExtends ==
  ASSUME NEW w \in WorldType, NEW r, NEW v, NEW e \in Endpoints, NEW a \in Attributes, NEW as \in SUBSET Attributes,
         AttributeSet(w, r, e, a, "reported"), Emplaced(r, v, e, as)
  PROVE  Extended(w, v, e, a) /\ \A b \in as : v.attr[e][b] # "absent"
  <1>1. v.attr[e][a] = "reported"
    BY DEF AttributeSet, Emplaced
  <1>2. ASSUME NEW f \in Endpoints, NEW b \in Attributes, f # e \/ b # a
        PROVE  \/ v.attr[f][b] = w.attr[f][b]
               \/ /\ w.attr[f][b] = "absent" /\ v.attr[f][b] = "todo"
                  /\ b \in Volatile => <<f, b>> \in v.setup
    <2>1. r.attr[f][b] = w.attr[f][b]
      BY <1>2 DEF AttributeSet
    <2>2. CASE f = e /\ b \in as /\ r.attr[f][b] = "absent"
      BY <2>1, <2>2 DEF Emplaced
    <2>3. CASE ~(f = e /\ b \in as /\ r.attr[f][b] = "absent")
      BY <2>1, <2>3 DEF Emplaced
    <2>4. QED
      BY <2>2, <2>3
  <1>3. \A b \in as : v.attr[e][b] # "absent"
    BY DEF Emplaced
  <1>4. v \in WorldType /\ v.status = w.status /\ v.prev = w.prev /\ w.setup \subseteq v.setup
    BY DEF AttributeSet, Emplaced
  <1>5. QED
    BY <1>1, <1>2, <1>3, <1>4 DEF Extended

\* The parsers add what a list names.
LEMMA ParsedFinds ==
  ASSUME NEW w \in WorldType, Complete(w), NEW e \in Endpoints, NEW a \in Rules
  PROVE  Extended(w, Parsed(w, e, a), e, a) /\ Named(Parsed(w, e, a), e, a)
  <1> DEFINE r == [w EXCEPT !.attr[e][a] = "reported"]
             v == Parsed(w, e, a)
             Goal == Extended(w, v, e, a) /\ Named(v, e, a)
  <1>1. a \in Attributes /\ "reported" \in AttrState
    BY DEF Attributes, AttrState
  <1>2. AttributeSet(w, r, e, a, "reported")
    BY <1>1, SetAttribute
  <1>3. r \in WorldType
    BY <1>2 DEF AttributeSet
  <1>4. {"AttributeList"} \in SUBSET Attributes /\ Listed[e] \in SUBSET Attributes
    BY ListedAssumption DEF Attributes, Rules
  <1>5. \/ v = r /\ a # "AttributeList" /\ ~(a = "ServerList" /\ e \in OnOffServers) /\ ~(a = "PartsList" /\ e = 0)
        \/ v = Emplace(r, e, {"AttributeList"}) /\ a = "ServerList"
        \/ v = AddEndpoints(r, Endpoints \ {0}) /\ a = "PartsList" /\ e = 0
        \/ v = Emplace(r, e, Listed[e]) /\ a = "AttributeList"
    BY DEF Parsed
  <1> HIDE DEF r, v
  <1>6. ASSUME v = r, a # "AttributeList", ~(a = "ServerList" /\ e \in OnOffServers), ~(a = "PartsList" /\ e = 0)
        PROVE  Goal
    BY <1>2, <1>6 DEF Extended, Named, AttributeSet
  <1>7. ASSUME v = Emplace(r, e, {"AttributeList"}), a = "ServerList"
        PROVE  Goal
    <2>1. Emplaced(r, v, e, {"AttributeList"})
      BY <1>3, <1>4, <1>7, EmplaceEmplaces
    <2>2. Extended(w, v, e, a) /\ v.attr[e]["AttributeList"] # "absent"
      BY <1>1, <1>2, <1>4, <2>1, EmplaceExtends
    <2>3. QED
      BY <1>7, <2>2 DEF Named
  <1>8. ASSUME v = AddEndpoints(r, Endpoints \ {0}), a = "PartsList", e = 0
        PROVE  Goal
    <2>1. EndpointsAdded(r, v, Endpoints \ {0})
      BY <1>3, <1>8, AddEndpointsAdds
    <2>2. "ServerList" \in Attributes /\ \A f \in Endpoints : "ServerList" \in DescriptorLists(f)
      BY DEF Attributes, Rules, DescriptorLists
    <2>3. ASSUME NEW f \in Endpoints
          PROVE  v.attr[f]["ServerList"] # "absent"
      <3>1. CASE f = e
        <4>1. w.attr[e]["ServerList"] # "absent"
          BY <1>8 DEF Complete
        <4>2. v.attr[e]["ServerList"] = r.attr[e]["ServerList"]
          BY <1>8, <2>1, <2>2 DEF EndpointsAdded
        <4>3. r.attr[e]["ServerList"] = w.attr[e]["ServerList"]
          BY <1>2, <1>8, <2>2 DEF AttributeSet
        <4>4. QED
          BY <3>1, <4>1, <4>2, <4>3
      <3>2. CASE f # e
        <4>1. f \in Endpoints \ {0}
          BY <1>8, <3>2
        <4>2. QED
          BY <2>1, <2>2, <4>1 DEF EndpointsAdded
      <3>3. QED
        BY <3>1, <3>2
    <2>4. \A f \in Endpoints, b \in Volatile : b \notin DescriptorLists(f)
      BY DEF DescriptorLists, Volatile
    <2>5. ASSUME NEW f \in Endpoints, NEW b \in Attributes, f # e \/ b # a
          PROVE  \/ v.attr[f][b] = w.attr[f][b]
                 \/ /\ w.attr[f][b] = "absent" /\ v.attr[f][b] = "todo" /\ b \notin Volatile
      BY <1>2, <2>1, <2>4, <2>5 DEF AttributeSet, EndpointsAdded
    <2>6. v.attr[e][a] = "reported"
      BY <1>1, <1>2, <2>1 DEF AttributeSet, EndpointsAdded
    <2>7. v \in WorldType /\ v.status = w.status /\ v.prev = w.prev /\ w.setup \subseteq v.setup
      BY <1>2, <2>1 DEF AttributeSet, EndpointsAdded
    <2>8. Extended(w, v, e, a)
      BY <2>5, <2>6, <2>7 DEF Extended
    <2>9. QED
      BY <1>8, <2>3, <2>8 DEF Named
  <1>9. ASSUME v = Emplace(r, e, Listed[e]), a = "AttributeList"
        PROVE  Goal
    <2>1. Emplaced(r, v, e, Listed[e])
      BY <1>3, <1>4, <1>9, EmplaceEmplaces
    <2>2. Extended(w, v, e, a) /\ \A b \in Listed[e] : v.attr[e][b] # "absent"
      BY <1>1, <1>2, <1>4, <2>1, EmplaceExtends
    <2>3. QED
      BY <1>9, <2>2 DEF Named
  <1>10. QED
    BY <1>5, <1>6, <1>7, <1>8, <1>9 DEF v

\* So a value keeps the tree complete.
LEMMA ParsedGrows ==
  ASSUME NEW w \in WorldType, Tree(w), NEW e \in Endpoints, NEW a \in Rules, w.attr[e][a] = "reading"
  PROVE  Grown(w, Parsed(w, e, a))
  <1> DEFINE v == Parsed(w, e, a)
  <1>1. Extended(w, v, e, a) /\ Named(v, e, a)
    BY ParsedFinds DEF Tree
  <1> HIDE DEF v
  <1>2. \A f \in Endpoints, b \in Attributes :
          /\ v.attr[f][b] = "absent" => w.attr[f][b] = "absent"
          /\ v.attr[f][b] = "todo" => w.attr[f][b] \in {"absent", "todo"}
          /\ v.attr[f][b] = "reported" => w.attr[f][b] = "reported" \/ (f = e /\ b = a)
          /\ w.attr[f][b] = "reported" => v.attr[f][b] = "reported"
          /\ b \in Volatile /\ v.attr[f][b] # "absent" => w.attr[f][b] # "absent" \/ <<f, b>> \in v.setup \/ (f = e /\ b = a)
    BY <1>1 DEF Extended
  <1>3. Budget(v)
    <2>1. 0 < GetRetryCount
      BY InterviewAssumption
    <2>2. ASSUME NEW f \in Endpoints, NEW b \in Attributes
          PROVE  /\ v.attr[f][b] = "absent" => tries[f][b] = 0
                 /\ v.attr[f][b] = "todo" => tries[f][b] < GetRetryCount
      BY <1>2, <2>1 DEF Tree, Budget
    <2>3. QED
      BY <2>2 DEF Budget
  <1>4. Complete(v)
    <2> SUFFICES ASSUME NEW f \in Endpoints
                 PROVE  /\ f = 0 \/ v.attr[0]["PartsList"] = "reported" => v.attr[f]["ServerList"] # "absent"
                        /\ f \in OnOffServers /\ v.attr[f]["ServerList"] = "reported" => v.attr[f]["AttributeList"] # "absent"
                        /\ v.attr[f]["AttributeList"] = "reported" => \A b \in Listed[f] : v.attr[f][b] # "absent"
      BY DEF Complete
    <2>1. {"ServerList", "PartsList", "AttributeList"} \subseteq Attributes /\ 0 \in Endpoints /\ Listed[f] \subseteq Attributes
      BY InterviewAssumption, ListedAssumption DEF Attributes, Rules
    <2>2. ASSUME f = 0 \/ v.attr[0]["PartsList"] = "reported"
          PROVE  v.attr[f]["ServerList"] # "absent"
      <3>1. CASE f = 0 \/ w.attr[0]["PartsList"] = "reported"
        <4>1. w.attr[f]["ServerList"] # "absent"
          BY <3>1 DEF Tree, Complete
        <4>2. QED
          BY <1>2, <2>1, <4>1
      <3>2. CASE f # 0 /\ w.attr[0]["PartsList"] # "reported"
        <4>1. e = 0 /\ a = "PartsList"
          BY <1>2, <2>1, <2>2, <3>2
        <4>2. QED
          BY <1>1, <4>1 DEF Named
      <3>3. QED
        BY <3>1, <3>2
    <2>3. ASSUME f \in OnOffServers, v.attr[f]["ServerList"] = "reported"
          PROVE  v.attr[f]["AttributeList"] # "absent"
      <3>1. CASE w.attr[f]["ServerList"] = "reported"
        <4>1. w.attr[f]["AttributeList"] # "absent"
          BY <2>3, <3>1 DEF Tree, Complete
        <4>2. QED
          BY <1>2, <2>1, <4>1
      <3>2. CASE w.attr[f]["ServerList"] # "reported"
        <4>1. f = e /\ a = "ServerList"
          BY <1>2, <2>1, <2>3, <3>2
        <4>2. QED
          BY <1>1, <2>3, <4>1 DEF Named
      <3>3. QED
        BY <3>1, <3>2
    <2>4. ASSUME v.attr[f]["AttributeList"] = "reported", NEW b \in Listed[f]
          PROVE  v.attr[f][b] # "absent"
      <3>1. CASE w.attr[f]["AttributeList"] = "reported"
        <4>1. w.attr[f][b] # "absent"
          BY <2>4, <3>1 DEF Tree, Complete
        <4>2. QED
          BY <1>2, <2>1, <4>1
      <3>2. CASE w.attr[f]["AttributeList"] # "reported"
        <4>1. f = e /\ a = "AttributeList"
          BY <1>2, <2>1, <2>4, <3>2
        <4>2. QED
          BY <1>1, <2>4, <4>1 DEF Named
      <3>3. QED
        BY <3>1, <3>2
    <2>5. QED
      BY <2>2, <2>3, <2>4
  <1>5. AllSetUp(v)
    <2> SUFFICES ASSUME restarts = 0, NEW f \in Endpoints, NEW b \in Volatile, v.attr[f][b] # "absent"
                 PROVE  <<f, b>> \in v.setup
      BY DEF AllSetUp
    <2>1. b \in Attributes
      BY DEF Attributes, Rules, Volatile
    <2>2. w.attr[f][b] # "absent" \/ <<f, b>> \in v.setup
      BY <1>2, <2>1
    <2>3. w.attr[f][b] # "absent" => <<f, b>> \in w.setup
      BY DEF Tree, AllSetUp
    <2>4. QED
      BY <1>1, <2>2, <2>3 DEF Extended
  <1>6. QED
    BY <1>1, <1>2, <1>3, <1>4, <1>5 DEF Grown, Tree, Extended, Functional, v

-----------------------------------------------------------------------------
(* The steps *)

\* The record of the state has its fields and its type.
LEMMA WorldFields ==
  /\ World.status = status /\ World.prev = prev /\ World.db = db
  /\ World.attr = attr /\ World.setup = setup
  /\ TypeOK => World \in WorldType
  BY DEF World, WorldType, TypeOK, AttrState

\* A record becomes the state.
LEMMA BecomeWorld ==
  ASSUME NEW v \in WorldType, Become(v)
  PROVE  World' = v /\ attr' = v.attr /\ setup' = v.setup /\ status' = v.status /\ prev' = v.prev
  <1>1. /\ status' = v.status /\ prev' = v.prev /\ db' = v.db /\ attr' = v.attr /\ setup' = v.setup
    BY DEF Become
  <1>2. QED
    BY <1>1 DEF World, WorldType

\* Subscriptions that are left alone keep their type.
LEMMA SubsStay ==
  ASSUME TypeOK, setup \subseteq setup', UNCHANGED <<subs, lost>>
  PROVE  SubsOK'
  <1>1. SubsOK
    BY DEF TypeOK, SubsOK
  <1>2. subs' = subs /\ (lost' <=> lost)
    OBVIOUS
  <1>3. lost' \in BOOLEAN
    BY <1>1 DEF SubsOK
  <1>4. \A s \in subs' : s.paths \subseteq setup'
    BY <1>1, <1>2 DEF SubsOK
  <1>5. QED
    BY <1>1, <1>2, <1>3, <1>4 DEF SubsOK

\* The type of the state after a callback.
LEMMA BecomeType ==
  ASSUME TypeOK, NEW v \in WorldType, Become(v), UNCHANGED <<tries, settled, restarts>>, SubsOK'
  PROVE  TypeOK'
  <1>1. /\ status' = v.status /\ prev' = v.prev /\ db' = v.db /\ attr' = v.attr /\ setup' = v.setup
    BY DEF Become
  <1>2. /\ v.status \in [{Device} -> Status] /\ v.prev \in [{Device} -> Saved] /\ v.db \in [{Device} -> {None, 0}]
        /\ v.attr \in [Endpoints -> [Attributes -> AttrState]] /\ v.setup \in SUBSET (Endpoints \X Volatile)
    BY DEF WorldType
  <1>3. tries' = tries /\ settled' = settled /\ restarts' = restarts
    OBVIOUS
  <1>4. QED
    BY <1>1, <1>2, <1>3 DEF TypeOK, AttrState, SubsOK

\* Usability does not get lost: what is reported stays reported.
LEMMA UsableStays ==
  ASSUME FunctionalIsUsable, Functional(World)' => Functional(World),
         \A f \in Endpoints, b \in Attributes : attr[f][b] = "reported" => attr'[f][b] = "reported"
  PROVE  FunctionalIsUsable'
  <1> SUFFICES ASSUME Functional(World)'
               PROVE  \E e \in OnOffServers : \A a \in Listed[e] : attr'[e][a] = "reported"
    BY DEF FunctionalIsUsable, Functional, World
  <1>1. PICK e \in OnOffServers : \A a \in Listed[e] : attr[e][a] = "reported"
    BY DEF FunctionalIsUsable, Functional, World
  <1>2. e \in Endpoints /\ Listed[e] \subseteq Attributes
    BY InterviewAssumption, ListedAssumption
  <1>3. QED
    BY <1>1, <1>2

\* A failure of the device or a message from it, which may end a subscription.
LEMMA StatusStep ==
  ASSUME IInv, NEW v, StatusOnly(World, v), Become(v), UNCHANGED <<tries, settled, restarts>>,
         SubsOK', Covered => Covered'
  PROVE  IInv'
  <1>1. v \in WorldType /\ v.attr = attr /\ v.setup = setup /\ (Functional(v) => Functional(World))
    BY WorldFields DEF StatusOnly
  <1>2. World' = v /\ attr' = attr /\ setup' = setup
    BY <1>1, BecomeWorld
  <1>3. tries' = tries /\ settled' = settled /\ restarts' = restarts
    OBVIOUS
  <1>4. TypeOK'
    BY <1>1, BecomeType DEF IInv
  <1>5. Functional(World)' => Functional(World)
    BY <1>1, <1>2 DEF Functional
  <1>6. Tree(World)'
    BY <1>1, <1>2, <1>3, WorldFields DEF IInv, Tree, Budget, Complete, AllSetUp
  <1>7. FunctionalIsUsable'
    BY <1>2, <1>5, UsableStays DEF IInv
  <1>8. NothingNew'
    <2>1. ToRead' = ToRead
      BY <1>2 DEF ToRead
    <2>2. QED
      BY <1>3, <1>5, <2>1 DEF IInv, NothingNew
  <1>9. QED
    BY <1>4, <1>6, <1>7, <1>8 DEF IInv

\* One that leaves the subscriptions alone.
LEMMA MessageStep ==
  ASSUME IInv, NEW v, StatusOnly(World, v), Become(v), UNCHANGED Rest
  PROVE  IInv'
  <1>1. setup' = setup /\ UNCHANGED <<tries, subs, lost, settled, restarts>>
    BY WorldFields DEF StatusOnly, Become, Rest
  <1>2. SubsOK'
    BY <1>1, SubsStay DEF IInv
  <1>3. Covered => Covered'
    BY <1>1 DEF Covered
  <1>4. QED
    BY <1>1, <1>2, <1>3, StatusStep

\* An answer to a read, or its failure: a read was under way, so the node is not one
\* that has nothing left to read.
LEMMA AnswerStep ==
  ASSUME IInv, NEW e \in Endpoints, NEW a \in Rules, attr[e][a] = "reading",
         NEW v, Grown(World, v), Become(v), UNCHANGED Rest
  PROVE  IInv'
  <1>1. v \in WorldType /\ Tree(v) /\ setup \subseteq v.setup /\ (Functional(v) => Functional(World))
        /\ \A f \in Endpoints, b \in Attributes : attr[f][b] = "reported" => v.attr[f][b] = "reported"
    BY WorldFields DEF Grown
  <1>2. World' = v /\ attr' = v.attr /\ setup' = v.setup
    BY <1>1, BecomeWorld
  <1>3. UNCHANGED <<tries, subs, lost, settled, restarts>>
    BY DEF Rest
  <1>4. TypeOK'
    BY <1>1, <1>2, <1>3, BecomeType, SubsStay DEF IInv
  <1>5. Functional(World)' => Functional(World)
    BY <1>1, <1>2 DEF Functional
  <1>6. Tree(World)'
    BY <1>1, <1>2, <1>3 DEF Tree, Budget, Complete, AllSetUp
  <1>7. FunctionalIsUsable'
    BY <1>1, <1>2, <1>5, UsableStays DEF IInv
  <1>8. <<e, a>> \in ToRead
    BY DEF ToRead, Paths
  <1>9. NothingNew'
    BY <1>3, <1>5, <1>8 DEF IInv, NothingNew
  <1>10. QED
    BY <1>4, <1>6, <1>7, <1>9 DEF IInv

\* A failure or a message leaves the tree alone.
LEMMA StatusKeepsTree ==
  ASSUME NEW w, NEW v, StatusOnly(w, v), Tree(w)
  PROVE  Tree(v)
  BY DEF StatusOnly, Tree, Budget, Complete, AllSetUp

\* The answers, each with the recovery or the failure that goes with it.
LEMMA AnswerKeeps ==
  ASSUME IInv, NEW e \in Endpoints, NEW a \in Rules, Answer(e, a)
  PROVE  IInv'
  <1>1. /\ World \in WorldType /\ Tree(World) /\ World.attr = attr
        /\ tries \in [Endpoints -> [Attributes -> 0 .. GetRetryCount]]
    BY WorldFields DEF IInv, TypeOK
  <1>2. attr[e][a] = "reading" /\ UNCHANGED Rest
    BY DEF Answer, OnAttributeData, OnAttributeDataFails, OnError, SendFails
  <1>3. ASSUME NEW w, Grown(World, w), Become(mpc_failing_node_recovery(w, Device))
        PROVE  IInv'
    <2> DEFINE v == mpc_failing_node_recovery(w, Device)
    <2>1. StatusOnly(w, v)
      BY <1>3, RecoveryStatusOnly DEF Grown
    <2> HIDE DEF v
    <2>2. Tree(v)
      BY <1>3, <2>1, StatusKeepsTree DEF Grown
    <2>3. Grown(World, v)
      BY <1>3, <2>1, <2>2 DEF Grown, StatusOnly
    <2>4. QED
      BY <1>2, <1>3, <2>3, AnswerStep DEF v
  <1>4. ASSUME NEW w, StatusOnly(World, w), Become(Unanswered(w, e, a))
        PROVE  IInv'
    <2> DEFINE v == Unanswered(w, e, a)
    <2>1. w \in WorldType /\ w.attr[e][a] = "reading" /\ Tree(w)
      BY <1>1, <1>2, <1>4, StatusKeepsTree DEF StatusOnly
    <2>2. Grown(w, v)
      BY <1>1, <2>1, UnansweredGrows
    <2> HIDE DEF v
    <2>3. Grown(World, v)
      BY <1>4, <2>2 DEF Grown, StatusOnly
    <2>4. QED
      BY <1>2, <1>4, <2>3, AnswerStep DEF v
  <1>5. CASE OnAttributeData(e, a)
    <2>1. Grown(World, Parsed(World, e, a))
      BY <1>1, <1>2, ParsedGrows
    <2>2. QED
      BY <1>3, <1>5, <2>1 DEF OnAttributeData
  <1>6. CASE OnAttributeDataFails(e, a)
    <2>1. Grown(World, Unanswered(World, e, a))
      BY <1>1, <1>2, UnansweredGrows
    <2>2. QED
      BY <1>3, <1>6, <2>1 DEF OnAttributeDataFails
  <1>7. ASSUME NEW error \in Error, OnError(e, a, error)
        PROVE  IInv'
    <2>1. StatusOnly(World, check_and_mark_failing_node(World, Device, error, 0))
      BY <1>1, CheckStatusOnly
    <2>2. QED
      BY <1>4, <1>7, <2>1 DEF OnError
  <1>8. ASSUME NEW error \in Error, SendFails(e, a, error)
        PROVE  IInv'
    <2> DEFINE once == check_and_mark_failing_node(World, Device, error, 0)
               twice == check_and_mark_failing_node(once, Device, error, 0)
    <2>1. StatusOnly(World, once)
      BY <1>1, CheckStatusOnly
    <2>2. StatusOnly(once, twice)
      BY <2>1, CheckStatusOnly DEF StatusOnly
    <2>3. Become(Unanswered(twice, e, a))
      BY <1>8 DEF SendFails
    <2> HIDE DEF once, twice
    <2>4. StatusOnly(World, twice)
      BY <2>1, <2>2 DEF StatusOnly
    <2>5. QED
      BY <1>4, <2>3, <2>4
  <1>9. QED
    BY <1>5, <1>6, <1>7, <1>8 DEF Answer

\* A read is sent: there is one left, and the node was not one with nothing to read.
LEMMA SendKeeps ==
  ASSUME IInv, NEW e \in Endpoints, NEW a \in Rules, Send(e, a)
  PROVE  IInv'
  <1>1. /\ attr \in [Endpoints -> [Attributes -> AttrState]]
        /\ tries \in [Endpoints -> [Attributes -> 0 .. GetRetryCount]]
        /\ a \in Attributes /\ GetRetryCount \in Nat
    BY InterviewAssumption DEF IInv, TypeOK, AttrState, Attributes
  <1>2. /\ attr[e][a] = "todo" /\ attr' = [attr EXCEPT ![e] = [attr[e] EXCEPT ![a] = "reading"]]
        /\ tries' = [tries EXCEPT ![e] = [tries[e] EXCEPT ![a] = tries[e][a] + 1]] /\ settled' = FALSE
        /\ UNCHANGED <<status, prev, db, setup, subs, lost, restarts>>
    BY DEF Send
  <1>3. tries[e][a] < GetRetryCount
    BY <1>1, <1>2, WorldFields DEF IInv, Tree, Budget
  <1>4. \A f \in Endpoints, b \in Attributes :
          /\ attr'[f][b] = IF f = e /\ b = a THEN "reading" ELSE attr[f][b]
          /\ tries'[f][b] = IF f = e /\ b = a THEN tries[e][a] + 1 ELSE tries[f][b]
    BY <1>1, <1>2
  <1>5. attr' \in [Endpoints -> [Attributes -> AttrState]]
    <2>1. [attr[e] EXCEPT ![a] = "reading"] \in [Attributes -> AttrState]
      BY <1>1 DEF AttrState
    <2>2. QED
      BY <1>1, <1>2, <2>1
  <1>6. tries' \in [Endpoints -> [Attributes -> 0 .. GetRetryCount]]
    <2>1. tries[e][a] \in 0 .. GetRetryCount
      BY <1>1
    <2>2. tries[e][a] + 1 \in 0 .. GetRetryCount
      BY <1>1, <1>3, <2>1
    <2>3. [tries[e] EXCEPT ![a] = tries[e][a] + 1] \in [Attributes -> 0 .. GetRetryCount]
      BY <1>1, <2>2
    <2>4. QED
      BY <1>1, <1>2, <2>3
  <1>7. TypeOK'
    <2>1. SubsOK'
      BY <1>2, SubsStay DEF IInv
    <2>2. QED
      BY <1>2, <1>5, <1>6, <2>1 DEF IInv, TypeOK, AttrState, SubsOK
  <1>8. \A f \in Endpoints, b \in Attributes :
          /\ attr'[f][b] = "absent" <=> attr[f][b] = "absent"
          /\ attr'[f][b] = "reported" <=> attr[f][b] = "reported"
          /\ attr'[f][b] \in {"absent", "todo"} => attr'[f][b] = attr[f][b] /\ tries'[f][b] = tries[f][b]
    BY <1>2, <1>4
  <1>9. World'.attr = attr' /\ World'.setup = setup /\ World'.status = status /\ World'.prev = prev
    BY <1>2 DEF World
  <1>10. Budget(World)'
    BY <1>8, <1>9, WorldFields DEF IInv, Tree, Budget
  <1>11. Complete(World)'
    BY <1>8, <1>9, WorldFields, InterviewAssumption, ListedAssumption DEF IInv, Tree, Complete, Attributes, Rules
  <1>12. AllSetUp(World)'
    BY <1>2, <1>8, <1>9, WorldFields DEF IInv, Tree, AllSetUp, Attributes, Rules, Volatile
  <1>13. Functional(World)' => Functional(World)
    BY <1>9, WorldFields DEF Functional
  <1>14. FunctionalIsUsable'
    BY <1>8, <1>13, UsableStays DEF IInv
  <1>15. <<e, a>> \in ToRead
    BY <1>2 DEF ToRead, Paths
  <1>16. NothingNew'
    BY <1>2, <1>13, <1>15 DEF IInv, NothingNew
  <1>17. QED
    BY <1>7, <1>10, <1>11, <1>12, <1>14, <1>16 DEF IInv, Tree

\* A subscription made is for the whole of the set-up list.
LEMMA InitiateTyped ==
  ASSUME TypeOK, NEW made \in SUBSET (1 .. 3), NEW s \in mpc_node_monitor_initiate_monitoring(made)
  PROVE  s \in Subscription /\ s.paths = setup
  <1>1. PICK i \in 1 .. 3 : s = [object |-> i, st |-> "connecting", paths |-> setup]
    BY DEF mpc_node_monitor_initiate_monitoring
  <1>2. setup \in SUBSET (Endpoints \X Volatile)
    BY DEF TypeOK
  <1>3. QED
    BY <1>1, <1>2 DEF Subscription

\* If there is something to subscribe to and memory, one is made.
LEMMA InitiateCovers ==
  ASSUME NEW made, made # {}, setup # {}
  PROVE  \E s \in mpc_node_monitor_initiate_monitoring(made) : s.paths = setup
  <1>1. PICK i \in made : TRUE
    OBVIOUS
  <1> DEFINE s == [object |-> i, st |-> "connecting", paths |-> setup]
  <1>2. s \in mpc_node_monitor_initiate_monitoring(made) /\ s.paths = setup
    BY <1>1 DEF mpc_node_monitor_initiate_monitoring
  <1>3. QED
    BY <1>2

\* The completion publishes a node when nothing is left to read.
LEMMA CompletionKeeps ==
  ASSUME IInv, ResolutionCompletion
  PROVE  IInv'
  <1>1. ToRead = {} /\ settled' = TRUE /\ UNCHANGED <<prev, db, attr, tries, setup, restarts>>
    BY DEF ResolutionCompletion
  <1>2. \/ status' = status /\ UNCHANGED <<subs, lost>>
        \/ /\ status' = [status EXCEPT ![Device] = CompletionStatus]
           /\ \E made \in SUBSET {1} :
                /\ subs' = subs \cup mpc_node_monitor_initiate_monitoring(made)
                /\ lost' = (lost \/ made = {})
    BY DEF ResolutionCompletion
  <1>3. CompletionStatus \in Status
    BY DEF CompletionStatus, Status, Online
  <1>4. TypeOK'
    <2>1. SubsOK'
      <3>1. CASE UNCHANGED <<subs, lost>>
        BY <1>1, <3>1, SubsStay DEF IInv
      <3>2. ASSUME NEW made \in SUBSET {1}, subs' = subs \cup mpc_node_monitor_initiate_monitoring(made),
                   lost' = (lost \/ made = {})
            PROVE  SubsOK'
        <4>1. made \in SUBSET (1 .. 3)
          BY <3>2
        <4>2. \A s \in mpc_node_monitor_initiate_monitoring(made) : s \in Subscription /\ s.paths \subseteq setup
          BY <4>1, InitiateTyped DEF IInv
        <4>3. \A s \in subs' : s \in Subscription /\ s.paths \subseteq setup'
          BY <1>1, <3>2, <4>2 DEF IInv, TypeOK
        <4>4. lost' \in BOOLEAN
          BY <3>2
        <4>5. QED
          BY <4>3, <4>4 DEF SubsOK
      <3>3. QED
        BY <1>2, <3>1, <3>2
    <2>2. status' \in [{Device} -> Status]
      BY <1>2, <1>3 DEF IInv, TypeOK
    <2>3. settled' \in BOOLEAN
      BY <1>1
    <2>4. QED
      BY <1>1, <2>1, <2>2, <2>3 DEF IInv, TypeOK, SubsOK
  <1>5. World'.attr = attr /\ World'.setup = setup /\ ToRead' = ToRead
    BY <1>1 DEF World, ToRead
  <1>6. Tree(World)'
    BY <1>1, <1>5, WorldFields DEF IInv, Tree, Budget, Complete, AllSetUp
  <1>7. CASE status' = status /\ UNCHANGED <<subs, lost>>
    <2>1. World' = World
      BY <1>1, <1>7 DEF World
    <2>2. Covered => Covered'
      BY <1>1, <1>7 DEF Covered
    <2>3. FunctionalIsUsable' /\ NothingNew'
      BY <1>1, <1>5, <1>7, <2>1, <2>2 DEF IInv, FunctionalIsUsable, NothingNew
    <2>4. QED
      BY <1>4, <1>6, <2>3 DEF IInv
  <1>8. ASSUME status' = [status EXCEPT ![Device] = CompletionStatus],
               NEW made \in SUBSET {1}, subs' = subs \cup mpc_node_monitor_initiate_monitoring(made),
               lost' = (lost \/ made = {})
        PROVE  IInv'
    <2>1. NothingNew'
      <3>1. Covered'
        BY <1>1, <1>8, InitiateCovers DEF Covered
      <3>2. QED
        BY <1>1, <1>5, <3>1 DEF NothingNew
    <2>2. status'[Device] = CompletionStatus
      BY <1>8 DEF IInv, TypeOK
    <2>3. CASE CompletionStatus = "functional"
      <3>1. PICK e \in Endpoints : Resolved(e)
        BY <2>3 DEF CompletionStatus
      <3>2. QED
        BY <1>1, <1>4, <1>6, <2>1, <3>1 DEF IInv, FunctionalIsUsable, Resolved
    <2>4. CASE CompletionStatus # "functional"
      <3>1. FunctionalIsUsable'
        BY <1>1, <2>2, <2>4 DEF IInv, FunctionalIsUsable
      <3>2. QED
        BY <1>4, <1>6, <2>1, <3>1 DEF IInv
    <2>5. QED
      BY <2>3, <2>4
  <1>9. QED
    BY <1>2, <1>7, <1>8

\* A subscription is sent, fails, or is replaced by another one.
LEMMA SubscriptionKeeps ==
  ASSUME IInv, NEW s \in subs, NEW error \in Error,
         SubscribeSent(s) \/ ConnectionFails(s) \/ SubscribeSendFails(s, error) \/ SubscriptionFails(s, error)
  PROVE  IInv'
  <1>1. SubsOK /\ World \in WorldType
    BY WorldFields DEF IInv, TypeOK, SubsOK
  <1>2. CASE SubscribeSent(s)
    <2> DEFINE o == [s EXCEPT !.st = "open"]
    <2>1. subs' = (subs \ {s}) \cup {o} /\ UNCHANGED <<status, prev, db, attr, tries, setup, lost, settled, restarts>>
      BY <1>2 DEF SubscribeSent
    <2>2. o \in Subscription /\ o.paths = s.paths
      BY <1>1 DEF SubsOK, Subscription
    <2> HIDE DEF o
    <2>3. SubsOK'
      BY <1>1, <2>1, <2>2 DEF SubsOK
    <2>4. Covered => Covered'
      BY <2>1, <2>2 DEF Covered
    <2>5. StatusOnly(World, World) /\ Become(World)
      BY <1>1, <2>1, WorldFields DEF StatusOnly, Become
    <2>6. QED
      BY <2>1, <2>3, <2>4, <2>5, StatusStep
  <1>3. ASSUME NEW e, NEW again \in SUBSET (1 .. 3), Ends(s, e, again), setup' = setup
        PROVE  SubsOK' /\ Covered' /\ UNCHANGED <<tries, settled, restarts>>
    <2>1. PICK made \in SUBSET again :
            /\ subs' = (subs \ {s}) \cup IF Resubscribes(s, e) THEN mpc_node_monitor_initiate_monitoring(made) ELSE {}
            /\ lost' = (lost \/ ~Resubscribes(s, e) \/ made = {})
      BY <1>3 DEF Ends
    <2>2. \A t \in mpc_node_monitor_initiate_monitoring(made) : t \in Subscription /\ t.paths \subseteq setup
      BY InitiateTyped DEF IInv
    <2>3. SubsOK'
      <3>1. \A t \in subs' : t \in Subscription /\ t.paths \subseteq setup'
        BY <1>1, <1>3, <2>1, <2>2 DEF SubsOK
      <3>2. lost' \in BOOLEAN
        BY <2>1
      <3>3. QED
        BY <3>1, <3>2 DEF SubsOK
    <2>4. Covered'
      BY <1>3, <2>1, InitiateCovers DEF Covered
    <2>5. QED
      BY <1>3, <2>3, <2>4 DEF Ends
  <1>4. ASSUME NEW w \in WorldType, NEW e
        PROVE  StatusOnly(w, MarkedBy(s, e, w))
    <2>1. StatusOnly(w, w)
      BY DEF StatusOnly
    <2>2. QED
      BY <2>1, CheckStatusOnly, MarkStatusOnly DEF MarkedBy
  <1>5. ASSUME NEW v, StatusOnly(World, v), Become(v), NEW e, NEW again \in SUBSET (1 .. 3), Ends(s, e, again)
        PROVE  IInv'
    <2>1. setup' = setup
      BY <1>5, WorldFields DEF StatusOnly, Become
    <2>2. QED
      BY <1>3, <1>5, <2>1, StatusStep
  <1>6. CASE ConnectionFails(s)
    <2>1. StatusOnly(World, MarkedBy(s, "closed", World))
      BY <1>1, <1>4
    <2>2. QED
      BY <1>5, <1>6, <2>1 DEF ConnectionFails
  <1>7. CASE SubscriptionFails(s, error)
    <2>1. StatusOnly(World, MarkedBy(s, error, World))
      BY <1>1, <1>4
    <2>2. QED
      BY <1>5, <1>7, <2>1 DEF SubscriptionFails
  <1>8. CASE SubscribeSendFails(s, error)
    <2> DEFINE once == MarkedBy(s, error, World)
               twice == MarkedBy(s, error, once)
    <2>1. StatusOnly(World, once)
      BY <1>1, <1>4
    <2>2. StatusOnly(once, twice)
      BY <1>4, <2>1 DEF StatusOnly
    <2>3. Become(twice) /\ Ends(s, error, {2, 3})
      BY <1>8 DEF SubscribeSendFails
    <2> HIDE DEF once, twice
    <2>4. StatusOnly(World, twice)
      BY <2>1, <2>2 DEF StatusOnly
    <2>5. QED
      BY <1>5, <2>3, <2>4
  <1>9. QED
    BY <1>2, <1>6, <1>7, <1>8

\* A restart begins the reads again and forgets the set-up list and the subscription.
LEMMA RestartKeeps ==
  ASSUME IInv, Restart
  PROVE  IInv'
  <1>1. /\ attr \in [Endpoints -> [Attributes -> AttrState]] /\ restarts \in 0 .. MaxRestarts
        /\ GetRetryCount \in Nat \ {0} /\ MaxRestarts \in Nat
    BY InterviewAssumption DEF IInv, TypeOK, AttrState
  <1>2. /\ restarts < MaxRestarts /\ restarts' = restarts + 1
        /\ attr' = [e \in Endpoints |-> [a \in Attributes |->
             IF attr[e][a] \in {"reading", "gaveup"} THEN "todo" ELSE attr[e][a]]]
        /\ tries' = [e \in Endpoints |-> [a \in Attributes |-> 0]]
        /\ setup' = {} /\ subs' = {} /\ lost' = FALSE /\ settled' = FALSE
        /\ UNCHANGED <<status, prev, db>>
    BY DEF Restart
  <1>3. restarts' \in 0 .. MaxRestarts /\ restarts' # 0
    BY <1>1, <1>2
  <1>4. attr' \in [Endpoints -> [Attributes -> AttrState]]
    BY <1>1, <1>2 DEF AttrState
  <1>5. tries' \in [Endpoints -> [Attributes -> 0 .. GetRetryCount]]
    BY <1>1, <1>2
  <1>6. TypeOK'
    BY <1>2, <1>3, <1>4, <1>5 DEF IInv, TypeOK, AttrState
  <1>7. \A f \in Endpoints, b \in Attributes :
          /\ attr'[f][b] = "absent" <=> attr[f][b] = "absent"
          /\ attr'[f][b] = "reported" <=> attr[f][b] = "reported"
          /\ tries'[f][b] = 0
    BY <1>1, <1>2
  <1>8. World'.attr = attr' /\ World'.status = status /\ World'.prev = prev
    BY <1>2 DEF World
  <1>9. Budget(World)'
    <2>1. 0 < GetRetryCount
      BY <1>1
    <2>2. QED
      BY <1>7, <1>8, <2>1 DEF Budget
  <1>10. Complete(World)'
    BY <1>7, <1>8, WorldFields, InterviewAssumption, ListedAssumption DEF IInv, Tree, Complete, Attributes, Rules
  <1>11. AllSetUp(World)' /\ NothingNew'
    BY <1>3 DEF AllSetUp, NothingNew
  <1>12. Functional(World)' => Functional(World)
    BY <1>8, WorldFields DEF Functional
  <1>13. FunctionalIsUsable'
    BY <1>7, <1>12, UsableStays DEF IInv
  <1>14. QED
    BY <1>6, <1>9, <1>10, <1>11, <1>13 DEF IInv, Tree

\* The first state has the invariant.
LEMMA InitIInv == Init => IInv
  <1> SUFFICES ASSUME Init PROVE IInv
    OBVIOUS
  <1>1. GetRetryCount \in Nat \ {0} /\ MaxRestarts \in Nat /\ 0 \in Endpoints
    BY InterviewAssumption
  <1>2. /\ attr = [e \in Endpoints |-> [a \in Attributes |->
             IF e = 0 /\ a \in DescriptorLists(e) THEN "todo" ELSE "absent"]]
        /\ tries = [e \in Endpoints |-> [a \in Attributes |-> 0]]
        /\ status = [n \in {Device} |-> "interviewing"] /\ prev = [n \in {Device} |-> "none"]
    BY DEF Init
  <1>3. attr \in [Endpoints -> [Attributes -> AttrState]]
    BY <1>2 DEF AttrState
  <1>4. tries \in [Endpoints -> [Attributes -> 0 .. GetRetryCount]]
    BY <1>1, <1>2
  <1>5. TypeOK
    <2>1. /\ status \in [{Device} -> Status] /\ prev \in [{Device} -> Saved]
          /\ db \in [{Device} -> {None, 0}]
      BY DEF Init, Status, Saved, Online
    <2>2. setup = {} /\ subs = {} /\ lost \in BOOLEAN /\ restarts = 0 /\ settled \in BOOLEAN
      BY Zenon DEF Init
    <2>3. restarts \in 0 .. MaxRestarts
      BY <1>1, <2>2
    <2>4. QED
      BY <1>3, <1>4, <2>1, <2>2, <2>3 DEF TypeOK, AttrState
  <1>6. \A f \in Endpoints, b \in Attributes :
          /\ attr[f][b] # "reported" /\ tries[f][b] = 0
          /\ attr[f][b] # "absent" <=> f = 0 /\ b \in DescriptorLists(f)
    BY <1>2
  <1>7. Budget(World)
    <2>1. 0 < GetRetryCount
      BY <1>1
    <2>2. QED
      BY <1>6, <2>1, WorldFields DEF Budget
  <1>8. Complete(World)
    <2>1. {"ServerList", "PartsList", "AttributeList"} \subseteq Attributes /\ "ServerList" \in DescriptorLists(0)
      BY DEF Attributes, Rules, DescriptorLists
    <2>2. attr[0]["PartsList"] # "reported" /\ attr[0]["ServerList"] # "absent"
      BY <1>1, <1>6, <2>1
    <2>3. \A f \in Endpoints : attr[f]["ServerList"] # "reported" /\ attr[f]["AttributeList"] # "reported"
      BY <1>6, <2>1
    <2>4. QED
      BY <2>2, <2>3, WorldFields DEF Complete
  <1>9. AllSetUp(World)
    <2>1. ASSUME NEW f \in Endpoints, NEW b \in Volatile
          PROVE  attr[f][b] = "absent"
      <3>1. b \in Attributes /\ b \notin DescriptorLists(f)
        BY DEF Attributes, Rules, Volatile, DescriptorLists
      <3>2. QED
        BY <1>6, <3>1
    <2>2. QED
      BY <2>1, WorldFields DEF AllSetUp
  <1>10. ~Functional(World)
    BY <1>2, WorldFields DEF Functional
  <1>11. FunctionalIsUsable /\ NothingNew
    BY <1>10, WorldFields DEF FunctionalIsUsable, NothingNew, Functional
  <1>12. QED
    BY <1>5, <1>7, <1>8, <1>9, <1>11 DEF IInv, Tree

\* Every step keeps it.
LEMMA StepKeeps == IInv /\ [Next]_vars => IInv'
  <1> SUFFICES ASSUME IInv, [Next]_vars PROVE IInv'
    OBVIOUS
  <1>1. ASSUME NEW p \in Paths, Send(p[1], p[2]) \/ Answer(p[1], p[2])
        PROVE  IInv'
    <2>1. p[1] \in Endpoints /\ p[2] \in Rules
      BY DEF Paths
    <2>2. QED
      BY <1>1, <2>1, SendKeeps, AnswerKeeps
  <1>2. CASE OtherMessage
    <2>1. StatusOnly(World, mpc_failing_node_recovery(World, Device))
      BY WorldFields, RecoveryStatusOnly DEF IInv
    <2>2. QED
      BY <1>2, <2>1, MessageStep DEF OtherMessage
  <1>3. ASSUME NEW error \in Error, OtherFailure(error)
        PROVE  IInv'
    <2>1. StatusOnly(World, check_and_mark_failing_node(World, Device, error, 0))
      BY WorldFields, CheckStatusOnly DEF IInv
    <2>2. QED
      BY <1>3, <2>1, MessageStep DEF OtherFailure
  <1>4. CASE UNCHANGED vars
    <2>1. World' = World /\ ToRead' = ToRead
      BY <1>4 DEF vars, World, ToRead
    <2>2. TypeOK'
      BY <1>4 DEF vars, IInv, TypeOK
    <2>3. Tree(World)'
      BY <1>4, <2>1 DEF vars, IInv, Tree, Budget, Complete, AllSetUp
    <2>4. FunctionalIsUsable' /\ NothingNew'
      BY <1>4, <2>1 DEF vars, IInv, FunctionalIsUsable, NothingNew, Covered
    <2>5. QED
      BY <2>2, <2>3, <2>4 DEF IInv
  <1>5. ASSUME NEW s \in subs, NEW error \in Error,
               SubscribeSent(s) \/ ConnectionFails(s) \/ SubscribeSendFails(s, error) \/ SubscriptionFails(s, error)
        PROVE  IInv'
    BY <1>5, SubscriptionKeeps
  <1>6. Error # {}
    BY DEF Error
  <1>7. QED
    BY <1>1, <1>2, <1>3, <1>4, <1>5, <1>6, CompletionKeeps, RestartKeeps DEF Next

\* So it always holds.
LEMMA Inductive == Spec => []IInv
  BY InitIInv, StepKeeps, PTL DEF Spec

\* The state of an interview keeps its type; in particular the resolver reads no
\* attribute more often than its retries allow.
THEOREM TypeCorrect == Spec => []TypeOK
  <1>1. IInv => TypeOK
    BY DEF IInv
  <1>2. QED
    BY Inductive, <1>1, PTL

\* What the lists name is in the tree, however many reads fail and the program restarts
\* (the parsers of mpc_attribute_cluster_parser.cpp).
THEOREM TreeIsComplete == Spec => []TreeComplete
  <1>1. IInv => TreeComplete
    BY WorldFields DEF IInv, Tree, Complete, TreeComplete, Added
  <1>2. QED
    BY Inductive, <1>1, PTL

\* A node published as functional has a fully resolved OnOff cluster
\* (mpc_attribute_resolver_check_app_cluster_resolution).
THEOREM PublishedIsUsable == Spec => []FunctionalIsUsable
  <1>1. IInv => FunctionalIsUsable
    BY DEF IInv
  <1>2. QED
    BY Inductive, <1>1, PTL

\* Until a restart, and while no subscription has failed but the first one by a timeout,
\* every volatile attribute that was discovered of a functional node is subscribed to,
\* however often the node has been offline (mpc_node_monitor_initiate_monitoring and
\* MPCNodeReportablesDelegate::OnError).
THEOREM PublishedIsMonitored == Spec => []FunctionalIsMonitored
  <1>1. IInv => FunctionalIsMonitored
    <2> SUFFICES ASSUME IInv, status[Device] = "functional", restarts = 0, ~lost,
                        NEW e \in Endpoints, NEW a \in Volatile, attr[e][a] # "absent"
                 PROVE  <<e, a>> \in Monitored
      BY DEF FunctionalIsMonitored
    <2>1. <<e, a>> \in setup
      BY WorldFields DEF IInv, Tree, AllSetUp
    <2>2. PICK s \in subs : s.paths = setup
      BY <2>1, WorldFields DEF IInv, NothingNew, Functional, Covered
    <2>3. QED
      BY <2>1, <2>2 DEF Monitored
  <1>2. QED
    BY Inductive, <1>1, PTL

-----------------------------------------------------------------------------
(***************************************************************************)
(* The reads run out: what ReadsEnd needs besides fairness.                *)
(***************************************************************************)

\* What an attribute that was asked for n times and is in state s may still cost: two
\* steps for each read it has left, and one to be found or to be answered.
Left(n, s) == 2 * (GetRetryCount - n) + IF s \in {"absent", "reading"} THEN 1 ELSE 0

\* In one life of the program no step makes an attribute more expensive, and each
\* request and each answer makes the attribute it is about cheaper.
ReadsSpent ==
  restarts' = restarts =>
    /\ \A e \in Endpoints, a \in Attributes : Left(tries'[e][a], attr'[e][a]) <= Left(tries[e][a], attr[e][a])
    /\ \A e \in Endpoints, a \in Rules :
         Send(e, a) \/ Answer(e, a) => Left(tries'[e][a], attr'[e][a]) < Left(tries[e][a], attr[e][a])

\* w after an answer: the attribute is no longer being read, others may have been found.
Answered(w, v, e, a) ==
  /\ v.attr[e][a] \in {"todo", "reported", "gaveup"}
  /\ \A f \in Endpoints, b \in Attributes :
       f # e \/ b # a => \/ v.attr[f][b] = w.attr[f][b]
                         \/ w.attr[f][b] = "absent" /\ v.attr[f][b] = "todo"

\* An answer without a value.
LEMMA UnansweredAnswers ==
  ASSUME NEW w \in WorldType, NEW e \in Endpoints, NEW a \in Rules
  PROVE  Answered(w, Unanswered(w, e, a), e, a) /\ Unanswered(w, e, a) \in WorldType
  <1> DEFINE s == IF tries[e][a] < GetRetryCount THEN "todo" ELSE "gaveup"
             v == Unanswered(w, e, a)
  <1>1. a \in Attributes /\ s \in AttrState /\ s \in {"todo", "gaveup"}
    BY DEF Attributes, AttrState
  <1>2. v = [w EXCEPT !.attr[e][a] = s]
    BY DEF Unanswered
  <1> HIDE DEF s, v
  <1>3. AttributeSet(w, v, e, a, s)
    BY <1>1, <1>2, SetAttribute
  <1>4. QED
    BY <1>1, <1>3 DEF Answered, AttributeSet, v

\* Every answer of the device, and every failure, is one.
LEMMA AnswerAnswers ==
  ASSUME IInv, NEW e \in Endpoints, NEW a \in Rules, Answer(e, a)
  PROVE  /\ attr[e][a] = "reading" /\ tries' = tries /\ restarts' = restarts
         /\ \E v : attr' = v.attr /\ Answered(World, v, e, a)
  <1>1. World \in WorldType /\ Complete(World)
    BY WorldFields DEF IInv, Tree
  <1>2. attr[e][a] = "reading" /\ UNCHANGED Rest
    BY DEF Answer, OnAttributeData, OnAttributeDataFails, OnError, SendFails
  <1>3. tries' = tries /\ restarts' = restarts
    BY <1>2 DEF Rest
  <1>4. ASSUME NEW w \in WorldType, Answered(World, w, e, a), Become(mpc_failing_node_recovery(w, Device))
        PROVE  attr' = w.attr
    BY <1>4, RecoveryStatusOnly DEF StatusOnly, Become
  <1>5. ASSUME NEW w, StatusOnly(World, w), Become(Unanswered(w, e, a))
        PROVE  \E v : attr' = v.attr /\ Answered(World, v, e, a)
    <2> DEFINE v == Unanswered(w, e, a)
    <2>1. Answered(w, v, e, a)
      BY <1>5, UnansweredAnswers DEF StatusOnly
    <2>2. attr' = v.attr
      BY <1>5 DEF Become
    <2> HIDE DEF v
    <2>3. Answered(World, v, e, a)
      BY <1>5, <2>1 DEF Answered, StatusOnly
    <2>4. QED
      BY <2>2, <2>3
  <1>6. CASE OnAttributeData(e, a)
    <2> DEFINE v == Parsed(World, e, a)
    <2>1. Extended(World, v, e, a) /\ Become(mpc_failing_node_recovery(v, Device))
      BY <1>1, <1>6, ParsedFinds DEF OnAttributeData
    <2> HIDE DEF v
    <2>2. v \in WorldType /\ Answered(World, v, e, a)
      BY <2>1 DEF Extended, Answered
    <2>3. QED
      BY <1>2, <1>3, <1>4, <2>1, <2>2
  <1>7. CASE OnAttributeDataFails(e, a)
    <2> DEFINE v == Unanswered(World, e, a)
    <2>1. v \in WorldType /\ Answered(World, v, e, a) /\ Become(mpc_failing_node_recovery(v, Device))
      BY <1>1, <1>7, UnansweredAnswers DEF OnAttributeDataFails
    <2> HIDE DEF v
    <2>2. QED
      BY <1>2, <1>3, <1>4, <2>1
  <1>8. ASSUME NEW error \in Error, OnError(e, a, error)
        PROVE  \E v : attr' = v.attr /\ Answered(World, v, e, a)
    <2>1. StatusOnly(World, check_and_mark_failing_node(World, Device, error, 0))
      BY <1>1, CheckStatusOnly
    <2>2. QED
      BY <1>5, <1>8, <2>1 DEF OnError
  <1>9. ASSUME NEW error \in Error, SendFails(e, a, error)
        PROVE  \E v : attr' = v.attr /\ Answered(World, v, e, a)
    <2> DEFINE once == check_and_mark_failing_node(World, Device, error, 0)
               twice == check_and_mark_failing_node(once, Device, error, 0)
    <2>1. StatusOnly(World, once)
      BY <1>1, CheckStatusOnly
    <2>2. StatusOnly(once, twice)
      BY <2>1, CheckStatusOnly DEF StatusOnly
    <2>3. Become(Unanswered(twice, e, a))
      BY <1>9 DEF SendFails
    <2> HIDE DEF once, twice
    <2>4. StatusOnly(World, twice)
      BY <2>1, <2>2 DEF StatusOnly
    <2>5. QED
      BY <1>5, <2>3, <2>4
  <1>10. QED
    BY <1>2, <1>3, <1>6, <1>7, <1>8, <1>9 DEF Answer

\* A request and an answer cost something.
LEMMA RequestSpends ==
  ASSUME IInv, NEW e \in Endpoints, NEW a \in Rules, Send(e, a) \/ Answer(e, a)
  PROVE  /\ Left(tries'[e][a], attr'[e][a]) < Left(tries[e][a], attr[e][a])
         /\ \A f \in Endpoints, b \in Attributes : Left(tries'[f][b], attr'[f][b]) <= Left(tries[f][b], attr[f][b])
  <1>1. /\ attr \in [Endpoints -> [Attributes -> AttrState]]
        /\ tries \in [Endpoints -> [Attributes -> 0 .. GetRetryCount]]
        /\ a \in Attributes /\ GetRetryCount \in Nat
    BY InterviewAssumption DEF IInv, TypeOK, AttrState, Attributes
  <1>2. \A f \in Endpoints, b \in Attributes : tries[f][b] \in Nat
    BY <1>1
  <1>3. CASE Send(e, a)
    <2>1. /\ attr[e][a] = "todo" /\ attr' = [attr EXCEPT ![e] = [attr[e] EXCEPT ![a] = "reading"]]
          /\ tries' = [tries EXCEPT ![e] = [tries[e] EXCEPT ![a] = tries[e][a] + 1]]
      BY <1>3 DEF Send
    <2>2. \A f \in Endpoints, b \in Attributes :
            /\ attr'[f][b] = IF f = e /\ b = a THEN "reading" ELSE attr[f][b]
            /\ tries'[f][b] = IF f = e /\ b = a THEN tries[e][a] + 1 ELSE tries[f][b]
      BY <1>1, <2>1
    <2>3. Left(tries'[e][a], attr'[e][a]) < Left(tries[e][a], attr[e][a])
      <3>1. attr'[e][a] = "reading" /\ tries'[e][a] = tries[e][a] + 1
        BY <1>1, <2>2
      <3>2. QED
        BY <1>1, <1>2, <2>1, <3>1 DEF Left
    <2>4. ASSUME NEW f \in Endpoints, NEW b \in Attributes
          PROVE  Left(tries'[f][b], attr'[f][b]) <= Left(tries[f][b], attr[f][b])
      <3>1. CASE f = e /\ b = a
        BY <1>1, <1>2, <2>1, <2>2, <3>1 DEF Left
      <3>2. CASE ~(f = e /\ b = a)
        BY <1>1, <1>2, <2>2, <3>2 DEF Left
      <3>3. QED
        BY <3>1, <3>2
    <2>5. QED
      BY <2>3, <2>4
  <1>4. CASE Answer(e, a)
    <2>1. /\ attr[e][a] = "reading" /\ tries' = tries
          /\ \E v : attr' = v.attr /\ Answered(World, v, e, a)
      BY <1>4, AnswerAnswers
    <2>2. /\ attr'[e][a] \in {"todo", "reported", "gaveup"}
          /\ \A f \in Endpoints, b \in Attributes :
               f # e \/ b # a => \/ attr'[f][b] = attr[f][b]
                                 \/ attr[f][b] = "absent" /\ attr'[f][b] = "todo"
      BY <2>1, WorldFields DEF Answered
    <2>3. Left(tries'[e][a], attr'[e][a]) < Left(tries[e][a], attr[e][a])
      BY <1>1, <1>2, <2>1, <2>2 DEF Left
    <2>4. ASSUME NEW f \in Endpoints, NEW b \in Attributes, f # e \/ b # a
          PROVE  Left(tries'[f][b], attr'[f][b]) <= Left(tries[f][b], attr[f][b])
      BY <1>1, <1>2, <2>1, <2>2, <2>4 DEF Left
    <2>5. Left(tries'[e][a], attr'[e][a]) <= Left(tries[e][a], attr[e][a])
      BY <1>1, <1>2, <2>1, <2>2 DEF Left
    <2>6. QED
      BY <2>3, <2>4, <2>5
  <1>5. QED
    BY <1>3, <1>4

\* The reads of one life of the program run out, for any endpoints, lists and retries:
\* although an answer may add attributes to read and an error repeats a read, there is a
\* natural number for each attribute that only goes down, and goes down with each
\* request and each answer (mpc_attribute_resolver_send and its callbacks).
THEOREM ReadsRunOut ==
  Spec => /\ [](\A e \in Endpoints, a \in Attributes : Left(tries[e][a], attr[e][a]) \in Nat)
          /\ [][ReadsSpent]_vars
  <1> DEFINE Bounded == \A e \in Endpoints, a \in Attributes : Left(tries[e][a], attr[e][a]) \in Nat
  <1>1. IInv => Bounded
    <2> SUFFICES ASSUME IInv, NEW e \in Endpoints, NEW a \in Attributes PROVE Left(tries[e][a], attr[e][a]) \in Nat
      OBVIOUS
    <2>1. tries[e][a] \in 0 .. GetRetryCount /\ GetRetryCount \in Nat
      BY InterviewAssumption DEF IInv, TypeOK
    <2>2. QED
      BY <2>1 DEF Left
  <1>2. IInv /\ [Next]_vars => [ReadsSpent]_vars
    <2> SUFFICES ASSUME IInv, Next, restarts' = restarts PROVE ReadsSpent
      BY DEF ReadsSpent
    <2>1. CASE \E e \in Endpoints, a \in Rules : Send(e, a) \/ Answer(e, a)
      BY <2>1, RequestSpends DEF ReadsSpent
    <2>2. CASE ~\E e \in Endpoints, a \in Rules : Send(e, a) \/ Answer(e, a)
      <3>1. tries' = tries /\ attr' = attr
        <4>1. CASE OtherMessage
          <5>1. StatusOnly(World, mpc_failing_node_recovery(World, Device))
            BY WorldFields, RecoveryStatusOnly DEF IInv
          <5>2. QED
            BY <4>1, <5>1, WorldFields DEF OtherMessage, StatusOnly, Become, Rest
        <4>2. ASSUME NEW error \in Error, OtherFailure(error) PROVE tries' = tries /\ attr' = attr
          <5>1. StatusOnly(World, check_and_mark_failing_node(World, Device, error, 0))
            BY WorldFields, CheckStatusOnly DEF IInv
          <5>2. QED
            BY <4>2, <5>1, WorldFields DEF OtherFailure, StatusOnly, Become, Rest
        <4>3. ASSUME NEW s \in subs, NEW error,
                     SubscribeSent(s) \/ ConnectionFails(s) \/ SubscribeSendFails(s, error) \/ SubscriptionFails(s, error)
              PROVE  tries' = tries /\ attr' = attr
          <5>1. SubscribeSent(s) \/ attr' = attr
            <6>1. ASSUME NEW w \in WorldType, NEW x PROVE StatusOnly(w, MarkedBy(s, x, w))
              <7>1. StatusOnly(w, w)
                BY DEF StatusOnly
              <7>2. QED
                BY <7>1, CheckStatusOnly, MarkStatusOnly DEF MarkedBy
            <6>2. World \in WorldType
              BY WorldFields DEF IInv
            <6>3. QED
              BY <4>3, <6>1, <6>2, WorldFields DEF ConnectionFails, SubscribeSendFails, SubscriptionFails, Become, StatusOnly
          <5>2. QED
            BY <4>3, <5>1 DEF SubscribeSent, ConnectionFails, SubscribeSendFails, SubscriptionFails, Ends
        <4>4. ~Restart
          <5>1. restarts \in Nat
            BY InterviewAssumption DEF IInv, TypeOK
          <5>2. QED
            BY <5>1 DEF Restart
        <4>5. Error # {}
          BY DEF Error
        <4>6. QED
          BY <2>2, <4>1, <4>2, <4>3, <4>4, <4>5 DEF Next, Paths, ResolutionCompletion
      <3>2. \A e \in Endpoints, a \in Attributes : Left(tries[e][a], attr[e][a]) <= Left(tries[e][a], attr[e][a])
        <4>1. \A e \in Endpoints, a \in Attributes : Left(tries[e][a], attr[e][a]) \in Nat
          BY <1>1
        <4>2. QED
          BY <4>1
      <3>3. QED
        BY <2>2, <3>1, <3>2 DEF ReadsSpent
    <2>3. QED
      BY <2>1, <2>2
  <1>3. QED
    BY Inductive, <1>1, <1>2, PTL DEF Spec
=============================================================================
