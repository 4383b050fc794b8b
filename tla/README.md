# Verification of the Unify Matter Protocol Controller

The Unify Matter Protocol Controller (MPC, also UMPC) translates between a Matter
fabric and the MQTT topics of Unify. It is a Matter node and controller itself: it
is commissioned into fabrics, discovers the other nodes by mDNS, interviews them,
subscribes to their volatile attributes, forwards commands and attribute writes
from MQTT, and keeps what it knows in a persistent attribute store.

This directory holds TLA+ modules for the parts of it that carry state, TLC
configurations that check them on small instances, and TLAPS proofs. `PROJECT.json`
lists the runs, the source lines behind every definition, the hazards and the
findings. Paths below are relative to the repository root.

## 1. Inventory

Two threads exist. The Matter thread runs the Matter SDK's event loop; the *unify*
thread only polls the Contiki side and schedules `call_unify_event_queue` on the
Matter thread (`matter_pc_main.cpp`). All application code therefore runs on the
Matter thread, in one of two settings: a Matter callback (mDNS record, fabric
table, session, answer), or a Contiki handler inside `uic_main_loop_run()`. A
callback that ends with `mpc_schedule_contiki()` runs the Contiki loop before it
returns.

| Component | State | Operations | Hard about it |
|---|---|---|---|
| network monitor (`mpc_nw_monitor.cpp`) | nodes in the attribute store, `pending_interviews`, `interview_trigger_timer`, the fabric table (SDK) | mDNS record, goodbye, fabric added / removed, commissioning complete, start-up, interview timer | records repeat and come in any order; the interview queue is in memory, the store is not; the MPC's own node is found by guessing; a timer whose interval is computed in an unsigned type |
| node monitor (`mpc_node_monitor.cpp`, `MPCNodeReportables.cpp`) | `reportables_setup_list`, `ongoing_reportables`, heap objects | volatile attribute found, initiate / cancel monitoring, `OnError`, `OnDone`, reports | objects that delete themselves; callbacks that call one another, some twice; a map that keeps old pointers |
| failing nodes (`mpc_failing_node.cpp`, `failing_nodes_datastore.cpp`) | status and saved status of a node, a table in SQLite, the recovery process | mark as failing, recover, recovery after boot in batches | failures and answers of several requests to one node in any order; restarts |
| command sender (`mpc_sendable_command.hpp`) | one heap object per command, retry counter | send, connected, connection failure, answer | two kinds of failure share a counter; who frees the object; answers after the node or fabric is gone |
| requests (`mpc_command_sender.cpp/.hpp`) | one heap object per read, subscribe, write | connect, send, answer | error paths that call back once, twice or never; a buffer freed by the caller |
| attribute resolver and parsers (`mpc_attribute_resolver_*.cpp`, `mpc_attribute_cluster_parser.cpp`) | resolution rules, attribute tree | read attribute, parse answer, completion | every answer may add reads, every error repeats one; completion while the node is offline |
| attribute store helpers | none of their own | look up by UNID, endpoint or Matter node id | lookup after the fabric is gone |
| MQTT handlers (generated) | desired and reported values | command, write | two writes of one attribute in flight |
| main loop (`matter_pc_main.cpp`) | a mutex, two threads | schedule, run, stop | non-recursive mutex taken by nested calls, shutdown |
| code generation (`zap-common/`, `linux/templates/`, `linux/zap-generated/data-models/`) | name tables, one of them filled on first use; two data models | helpers called by five templates | duplicate keys, types matched by position, generated and hand-written code that must agree |
| configuration, CLI, datastore set-up, application monitoring, packaging | - | start-up and build time | little; listed with their reason in `PROJECT.json` |

Interactions. Discovery writes a node in state *Online Interviewing* and queues it;
the interview timer creates endpoint 0, whose creation callback adds the descriptor
lists; the resolver reads them, and every list read adds more attributes to read; a
volatile attribute found on the way enters the node into the set-up list; the
resolver's completion sets the final status and starts monitoring. Any failed
request marks the node *Offline* and saves its status; any answer restores it. A
goodbye or the removal of a fabric deletes the node from under all of these.

What makes each component correct:

* network monitor: one store node per peer; the scans never meet a list they cannot
  read; a waiting node is always woken up and finally interviewed; leaving the last
  fabric resets the store; a change of the fabric table touches the MPC's node only;
* node monitor and failing nodes: a node comes back to the status it had; the table
  holds nodes that are down, in the order they failed; a removed node has no
  subscription; re-subscribing ends; no object is leaked; recovery after boot ends;
* command sender: attempts are bounded; the caller is told once; the object is
  freed; nothing it uses has gone away;
* interview: it ends; nothing a list names is missed; a node published as functional
  can be used and is monitored;
* writes: every write is settled, and only what the device confirmed is reported;
* main loop: no deadlock, no event left lying, an orderly end;
* code generation: the checked-in files are what would be generated, they name only
  what exists, and they fit the hand-written code around them.

## 2. Modules and how they correspond to the code

**`NwMonitor`** - `mpc_nw_monitor.cpp`, with the status changes other components
make to a node. `live`, `attrs` are the `ATTRIBUTE_NODE_ID` nodes of the attribute
store; a node keeps whether its network list exists and has a value, the parsed
entries `<<fabric index, node id>>`, its status and saved status, how far endpoint 0
has come, and whether the resolver has a listener for it. `pending`, `timer` and
`queue` are `pending_interviews`, the etimer and the Contiki events to the process.
`mode` says whose turn it is: `"matter"`, `"contiki"` (inside `uic_main_loop_run`),
or `"aborted"` after an exception nobody catches. Every handler is one action:

| Action | Code |
|---|---|
| `AddNode`, `Goodbye` | `OperationalDiscover::OnNodeDiscovered`, with `mpc_queue_node_for_interview`, `mpc_node_removal_handle` |
| `OnFabricUpdated`, `FabricWillBeRemoved`, `CommissioningComplete` | the fabric delegate and `EventHandler` |
| `mpc_nw_monitor_init` | end or crash of the process, and the next start over the persistent store |
| `TimerExpires`, `TimerSet`, `mpc_start_next_pending_interview`, `MainLoopReturns` | the Contiki process |
| `ResolutionCompletion`, `MarkFailing`, `Recovery` | what resolver and failing-node code do to the status |

A list is the set of its entries, except where its *text* matters: `find` in
`find_mpc_and_update_networklist` matches by substring, so `MpcLike` holds the node
ids whose decimal text begins with that of the MPC. Times are relative to now; the
subtraction in `mpc_start_next_pending_interview` is done modulo `ClockModulus`,
as `clock_time_t` is unsigned. `process_post` drops an event when the queue is full.

A read or a subscription knows the node it is about; there is none for a node that
still waits for its interview. A command or a write knows only the peer, and looks the
node up when its answer arrives (`PeerNode`), which may be after the peer has said
goodbye and was discovered again. `Reached` has both, so that `MarkFailing` and
`Recovery` also happen to a node that waits. The null pointer of that look-up, when the
fabric is gone, is in `CommandSender`.

**`FailingNode`** - how `mpc_failing_node.cpp` takes a node offline and back, as
operators on a record with a node's status, saved status and table row. The modules
below that send requests to a node extend it: any failed request can mark the node,
any answer can bring it back.

**`NodeMonitor`** - `mpc_node_monitor.cpp`, `MPCNodeReportables.cpp`, the recovery
after boot, `failing_nodes_datastore.cpp` and the request callbacks that lead to
them. The code's functions are operators on a record of the state (`World`), because
`SubscribeRequest::Send` and its caller both call `OnError`, which cancels and
starts monitoring in turn; an action composes them. `obj` are the heap objects with
what can still call them (`connecting`, `open`, or `idle`: nobody). `before` is a
history variable: the last online status.

**`NodeLifecycle`** - the abstract specification: the published state of a node, as
`doc/readme_overview.md` describes it, without any machinery. `NodeMonitor` instances
it with `state <- status`, `last <- before`; `ImplementsLifecycle` is the refinement.

**`NodeInterview`** - the interview of one device: `Send` (rule and read request),
the reader's callbacks `OnAttributeData`, `OnAttributeDataFails`, `OnError`,
`SendFails`, the parsers (`Parsed`, `Emplace`, `AddEndpoints`), and
`ResolutionCompletion`. `attr` is the state of each attribute of each endpoint.
Attributes on which nothing depends are represented by `OnOff`; `Listed` says what an
endpoint's attribute list names, which may include one the MPC has no rule for.
The resolver library is external: it reads what has a rule and no value, up to
`GetRetryCount` times, and calls the listener whenever nothing is left. `subs` are the
subscriptions of the device. A completion makes object 1; the timeout of object 1 makes
a second attempt (2, or 2 and 3, as a failed send calls `OnError` twice); any other
failure ends the subscription and nothing makes another. `lost` is a history variable:
some subscription ended, or could not be allocated, without a replacement.

**`WriteAttributes`** - the MQTT write callback, `WriteRequest` and
`myWriteCallbackFunction`. `desired` and `reported` are the store's two values,
`req` the requests in flight. Two kinds of undefined behaviour are choices: what a
`TLVReader` into a freed buffer encodes (`puts`, and the history variable `mixed`), and
which attribute the uninitialized handle of the callback for a removed node hits
(`wild`). `open` and `confirmed` are history variables: writes the program has
forgotten, and the last value the device accepted.

**`MainLoop`** - the two threads of `matter_pc_main.cpp` statement by statement
around `unify_mutex`, Matter's work queue, and the shutdown.

**`SupportModel`** - the two data models of the generator as tables: an enumeration
is its number of items (the helpers select an item by position only), a bitmap its
set of masks, a cluster its code. Long tables are written in parts and joined with
the module's own `++`, whose definition the provers can expand.

**`CodeGen`** - `unify_matter_mapping.js`, `mpc_support.js`, `mpc-helpers.js`, and
for each of the five templates the set of things it generates for a cluster
(commands, parser cases, converter items). A step renders one template for one
cluster. The constants `HandlersFile`, `ParserFile`, `ConverterFile`, ... are what
the checked-in files contain, `ResolverRules` and `RegisteredParsers` the
hand-written side.

**`CommandSender`** - `SendableCommand`. A command waits for its session or its
answer; the SDK calls back once for each request. `WithUnid` is the lookup in
`mpc_attribute_store_get_unid_from_matter_peer_nodeid`, which goes through a null
pointer when the fabric is gone (`mode = "crashed"`).

`MC*` modules add model values and symmetry sets. The proofs are in
`NwMonitorProofs` and, on top of it, `NwPeersProofs`; `NodeMonitorProofs`;
`CommandSenderProofs`; `NodeInterviewProofs`; `WriteAttributesProofs`;
`MainLoopProofs`; `CodeGenProofs`. Operators whose comment says *Mutant* are
plausible bugs in the code; each property has one that violates it.

External parts, modelled from how the code uses them: the attribute store's handles
and deletion, the etimer, the event queue, the SDK's sessions and
`ShutdownSubscriptions`, the clock, the service manager.

## 3. Runs

Passing runs:

| Run | Shows |
|---|---|
| `nw_core` | one fabric, three devices, every order of discovery, goodbye, interview, failure, decommissioning, restart: no lost wake-up, readable lists, one node per peer, waiting nodes never published as interviewed, even by the answers to requests older than they are, every interview reads the descriptor, decommissioning resets, fabric updates touch the MPC only |
| `nw_two_fabrics` | the lists stay readable with two fabrics, goodbyes of the MPC's own record, and a device id that begins with the MPC's; the head of the interview queue is served once its wake-up is near |
| `node_monitor` | two nodes, two heap objects, batches of one: table, saved status and status in step; the nodes' published life is that of `NodeLifecycle`; goodbye unsubscribes; re-subscribing ends; the recovery after boot gets through the table |
| `command` | three commands: bounded attempts, retries end, no caller is told twice or before the end, none is left untold by the deletion of its command |
| `interview` | two endpoints, one listing an attribute without a rule, with errors, retries, other traffic, failing subscriptions and a restart: reads end, an undisturbed interview has a result, the tree has at every step what the lists read so far name, functional nodes are usable, and monitored until a restart or the loss of a subscription |
| `write` | two nodes, two attributes, three writes: every write the program has not forgotten (`open`) is settled; only confirmed values are reported, where writes do not overlap and nothing undefined was sent or hit (`mixed`) |
| `main_loop` | both threads: mutual exclusion, no deadlock, events are handled, shutdown ends |
| `codegen` | five templates in every order: the checked-in files are up to date, compile as far as names go, fit the resolver; the tables' only shortfalls; look-ups are stable and invertible |

Runs that find a disagreement between the code and its documents or comments (the
quotes are in `PROJECT.json` under `findings`):

| Run | What happens |
|---|---|
| `nw_underflow` | two nodes discovered at different times: the interval to the second interview underflows, the second node waits for ever |
| `node_double_failure` | a second failure overwrites the saved status with *offline* |
| `command_untold` | a command whose last attempt fails synchronously is over without its caller having been told, and its object is not freed |
| `interview_skipped` | a node that is offline when its interview completes comes back as *interviewing* and stays so: it is not in the failing table, and the completion is not called again |

Met while modelling, in the models, but without a run of their own:

* `mpc_nw_monitor.cpp:358`: "only one node under root" need not be the MPC's once a
  goodbye of the MPC's own record has been seen;
* `:292`: without fabric index 1 an interview reads nothing;
* `:391`: a device whose id begins with the MPC's is taken for the MPC;
* `failing_nodes_datastore.cpp:58`: recovery is in the order of ids, not of failures
  (`doc/readme_overview.md:88`);
* `mpc_failing_node.cpp:49`: a second failure enters a node into auto recovery that
  failed while interviewing (`doc/readme_overview.md:84`);
* `mpc_node_monitor.cpp:63`, `:130` (TODO): after a reboot recovery finds no set-up list and
  subscribes to nothing (`doc/readme_overview.md:89`);
* `mpc_node_monitor.cpp:113`: an object whose session failed is dropped and never
  deleted;
* `mpc_nw_monitor.cpp:241`: a restart while a node waits for its interview loses the
  queue, and rediscovery skips the node, because `needs_update` is asked about the
  list attribute, which has no status (`doc/readme_user.md:186`);
* `:489`: decommissioning leaves deleted nodes in `pending_interviews`, and the timer
  then works on one; `:475`: removing one fabric deletes the nodes of all of them
  (`doc/readme_overview.md:103`);
* `MPCNodeReportables.cpp:66`: a subscription that fails other than by a first timeout
  is cancelled, and neither the recovery of the node nor anything else subscribes again,
  so that a functional node is not monitored; a second attempt that fails with another
  error than a timeout does not even take the node offline (`:70`), although
  `doc/readme_overview.md:80` says "If we can't reconnect, we mark it as failing";
* `mpc_attribute_store.cpp:166` and `dotdot_mqtt_to_matter.cpp:87`: an answer after
  the fabric is gone dereferences null;
* `dotdot_mqtt_to_matter.cpp:141`: of two writes in flight the first answer reports
  the second's value (`mixed`); `:96`: for a removed node the handle is uninitialized;
* `mpc_command_sender.cpp:118`: the reader points into a buffer that is freed when
  the MQTT callback returns; `:97`: only the last encoding's result is looked at, and
  with no attribute at all an uninitialized one;
* `mpc_attribute_resolver_callbacks.cpp:168`: "if any on cluster has atleast one
  supported app cluster resolved mark functional", but an endpoint whose list was
  never read throws and ends the search;
* `mpc_attribute_cluster_parser.cpp:69`: `pop_back()` of the string of an empty list;
  `:116`: parts are added, not emplaced, so a part named twice is there twice;
* `matter_pc_main.cpp:73`: `ScheduleWork` outside the mutex, although the comment at
  `:88` says that calls are protected by it; `:91`: it may be called after the loop
  has stopped;
* `unify_matter_mapping.js:176` repeats the key `TriggerEffectEffectIdentifier` of
  `:144` and so undoes the cluster-qualified name the comment at `:142` announces;
  two Matter names (`LightSensorType`, `DoorLockEventSource`) have two Unify
  counterparts of which the later wins; `matter_enum_name` tests the entry of a
  function's name and therefore returns "" for a type without counterpart;
  `unknownEnumValue` (`mpc_support.js:82`) does not try the qualified name. None of
  it shows in the two clusters that are generated today (`UpToDate`, `Compiles`);
* `mpc_sendable_command.hpp:94`: the answer of a command reads its peer through a
  reference that is no longer valid (not modelled).

Some properties of `NwMonitor` need conditions, which the list above explains:
one fabric with index 1 (`OneFabric`), no device id that begins with the MPC's
(`DistinctText`), no goodbye of the MPC's own record (`NoOwnGoodbye`). `nw_core` has
all three; the theorems of section 4 take as hypotheses what each property needs:

| Property | `OneFabric` | `DistinctText` | `NoOwnGoodbye` |
|---|---|---|---|
| `ListsReadable`, `NoLostWakeup`, `DecommissionedIsReset` | - | - | - |
| `OneNodePerPeer` | needed | needed | - |
| `InterviewReadsDescriptor` | needed | - | needed |
| `PendingUnpublished`, `FabricUpdateTouchesMpcOnly` | needed | needed | needed |

*Needed* means that TLC finds a counterexample when `nw_core` is changed in that one
respect (a second fabric index, a device in `MpcLike`, the MPC in `GoodbyeIds`).

`write` leaves out by its history variables what the list above says goes wrong:
`ReportedIsConfirmed` says nothing of an attribute that had two writes in flight or was
reached by a freed buffer or by the stray handle (`mixed`), `Settled` nothing of a write
whose encoding failed before that of a later path, or that was under way at a restart
(`open`). The properties show that nothing else goes wrong.

### Bounds

* `MaxHandle`: store nodes created in one life of the process. `nw_core` has 4: the MPC
  and three devices, or two and one that comes back; `nw_two_fabrics` has room for the
  MPC and a device in both fabrics; a restart resumes numbering from the largest handle,
  so behaviours go on through it.
* `Delay` 2 or 3 ticks: two discoveries can be one tick apart, which is what the
  underflow needs; `ClockModulus` 16 only has to exceed `Delay + Horizon`, the
  condition of `NwAssumption`. An interval beyond `Horizon` never ends, as 2^64 ms
  does not.
* `NumEvents` 2 or 3 (the real queue is larger): small, so that it overflows.
* `node_monitor`: two nodes, since a row of one must survive what happens to the other
  and a batch may hold either; two `Objects`, a subscription and its replacement, or one
  for each node; without a free object allocation fails, which the code handles. Both
  second attempts of a failed send at once are in `interview`, and in the proofs, which
  have any number of objects.
* `MaxClock`, `RecoveryTime` 1: rows in time and rows that are too old both occur.
* `MaxBatch` 1: the table is empty, as long as, and longer than a batch.
* The run's `VIEW Relevant` leaves out `ongoing`, what idle objects hold, and which
  address an object has. No guard and no assignment to another variable reads the first
  two, nothing tells one address from another (an allocation takes any free one), and
  neither the temporal properties nor the fairness condition mentions an address by
  itself, so states the view identifies have the same future, for the liveness property
  too. `TypeOK` sees one value of `ongoing` per class of states;
  `NodeMonitorProofs!TypeCorrect` has them all.
* `MaxRetry` 1 for the code's constant; the proof has any value. `attempts`
  stops counting at `MaxRetry + 2`, one above what would be an error.

* `NodeInterview`: two endpoints (the root and one part) are enough for an endpoint
  whose reads end before the other's begin; `GetRetryCount` 2 for the code's 6, so
  that a retry succeeds, fails, and is not made; one restart.
* `WriteAttributes`: two attributes, because only the last one's encoding is looked
  at; two requests, so that writes overlap; a second node, so that the callback for a
  removed one has something to hit; `MaxWrites` 3, a write before, with and after
  another.
* `MainLoop`: `MaxQueue` 3 work items; the Unify thread waits while so many are
  queued. The real queue has no limit.
* `CodeGen` has no bounds: the data models and tables are complete.

Symmetry is over devices in `nw_core`, over nodes and requests in `write`; neither
has a liveness property.

### Fairness

* `NwMonitor!FairSpec`: the unify thread keeps scheduling the Contiki loop
  (`matter_pc_main.cpp:82-96`), the loop serves its events, time goes on, and an
  aborted process is started again (`Restart=on-failure` in
  `scripts/create_package.py`).
* `NodeMonitor!FairSpec`: the Contiki loop serves the recovery process; the program
  is not restarted for ever, since each restart reads the table anew.
* `CommandSender!FairSpec`: the SDK answers every request it accepted, as sessions
  and exchanges time out. Each command's answers are fair on their own.
* `NodeInterview!FairSpec`: the Contiki loop serves the resolver, the SDK answers
  reads with data or a timeout, and the resolver calls its listener. Nothing is
  assumed about other traffic; restarts are bounded.
* `MainLoop!FairSpec`: both threads run, `uic_main_wait_for_file_descriptors` returns
  (it has a timeout), neither thread is kept from the mutex for ever, and the event
  loop comes round to its work queue although callbacks keep coming. Signals, input
  and an early end of the loop are not assumed to happen.
* `CodeGen!Spec`: rendering goes on; no property needs it.

## 4. Proofs

For every value of the constants allowed by the assumptions (`NwAssumption`,
`RetryAssumption`, `MonitorAssumption`, `InterviewAssumption`, `ListedAssumption`,
`WriteAssumption`, `MainLoopAssumption`):

* `NwMonitorProofs!TypeCorrect`: `Spec => []TypeOK`. Inductive as it stands; it
  includes that no store handle is above `lastHandle`, which makes a new node's
  handle unused.
* `NwMonitorProofs!WakeupNeverLost`: `Spec => []NoLostWakeup`. Inductive relative to
  `TypeOK`. The argument is that `process_post` leaves the queue non-empty even
  when it drops the event, and that every handler which takes the head away, or
  consumes the timer event, posts while the list is not empty.
* `NwMonitorProofs!ListsAlwaysReadable`: `Spec => []ListsReadable`. Not inductive
  alone: an update that brings the first fabric must repair the MPC's list, which
  it only does if the MPC's is the only node left. The invariant is
  `ListInv == ListsReadable /\ AtMostOneOutside`, where the second part says that
  outside every fabric at most one node is in the store. `OneMpcNode` (the search
  yields at most one node, and the only one if there is one), `FindMpcKeeps` and
  `FindMpcReports` carry the proof. So the catch-all of `OnNodeDiscovered`, which
  would delete another node's attribute, is not entered because of a missing list.
* `NwPeersProofs!DecommissionResets`: `Spec => []DecommissionedIsReset`, without any
  hypothesis. The invariant `ResetInv` adds that a descriptor only exists where a
  listener is registered (so that a status other than *non-functional* has a
  completion behind it) and that a deleted node has no endpoint (the timer may still
  work on one after a decommissioning).
* `NwPeersProofs!PeersAreDistinct` (`OneNodePerPeer`, for `OneFabric` and
  `DistinctText`). Inductive relative to `TypeOK`, `ListsReadable` and
  `DecommissionedIsReset` after the step: a record only makes a node when the scan saw
  every list and none had the peer, and the list an update writes is the only one
  left, or already belongs to the MPC's node.
* `NwPeersProofs!InterviewsReadDescriptors` (`InterviewReadsDescriptor`, for
  `OneFabric` and `NoOwnGoodbye`). The property alone says nothing of the nodes whose
  interview has not started. `HomeInv` does: in the fabric some node has the MPC's
  entry, outside of it one node without entries is left, and no node has two entries.
  Then the timer always finds a second node beside the device, and
  `mpc_on_ep_change_cb` creates the lists.
* `NwPeersProofs!WaitingIsUnpublished` and `UpdatesTouchOwnNode` (`PendingUnpublished`,
  `FabricUpdateTouchesMpcOnly`, for all three). `PeerInv` has three parts: a handle not
  in use has the record of a fresh node (`DeadIsFresh`); the store is one node of the
  MPC, with its entry in the fabric and with none outside of it, and nodes of devices
  with one entry each (`Peers`); what waits is there once, has a handle of this process
  and is `Uninterviewed`: without an endpoint or a listener, and with no status or saved
  status but interviewing and offline (`Waiting`). The second part keeps an update away
  from a waiting node, the third a completion. A late failure takes a waiting node offline
  and a late answer brings it back, neither of which the third part minds.
  All of `NwPeersProofs` rests on the lemma `StoreStep`: whatever a step of `NwMonitor`
  is, it changes the store in one of seven ways (a node added, one removed, a fabric
  added, one removed, a restart, an interview started, at most statuses set). It is
  proved once; each invariant is then checked against the seven.
* `CommandSenderProofs!CommandsWellBehaved`:
  `Spec => [](TypeOK /\ AttemptsBounded /\ ToldWhenDeleted)`, for any number of
  commands and any retry limit. `ToldWhenDeleted` says that no caller is told twice or
  before the end, and that a command that is deleted has told its caller. It does not say
  that every caller is told: the last failed send abandons the command (`command_untold`).
  The strengthening `IInv` adds `Budget`: while a command waits for its session, its retry
  counter is within the limit and one behind the number of sessions it asked for.
  `CommandTypeCorrect` and `RetriesBounded` state its first two parts on their own.
* `NodeMonitorProofs!TypeCorrect`, `NoRowOfAnOnlineNode` (`Spec => []FailedAreOffline`)
  and `Refinement` (`Spec => Lifecycle!Spec`), for any set of nodes and objects. The
  invariant is `IInv == TypeOK /\ Consistent(World, before)`: an online node has the
  state `before` knows; the saved state of an offline one is that state, or spoilt
  (`offline` after a second failure, `none` after the recovery that followed); a row
  belongs to a node that is not online; an object in use has a node. The second part
  is what the refinement needs: a recovery can only restore `before[n]`, because a
  spoilt value either is `offline` again or is refused. The last part is needed by the
  second `OnError` of a failed send, which looks at the object after the first one.
  The lemmas are about the operators on `World`, alone and as the callbacks compose
  them; the theorem about a step has one lemma per action.
* `NodeMonitorProofs!GoodbyeIsClean` and `RetriedOnce`
  (`Spec => GoodbyeUnsubscribes`, `Spec => ResubscribesOnce`). A goodbye in the first
  interview does not shut subscriptions down, so there must be none: the invariant
  `Unknown` says that a node that was never published (interviewed, or offline since
  its interview) has no row, no place in the recovery after boot and no object, from
  which it follows that no recovery can start its monitoring early. For the second
  theorem every operator on `World` is shown to allocate an object only when the one it
  gives up was a first attempt.
* `NodeInterviewProofs!TypeCorrect`, `TreeIsComplete`, `PublishedIsUsable`,
  `PublishedIsMonitored` (`TypeOK`, `TreeComplete`, `FunctionalIsUsable`,
  `FunctionalIsMonitored`), for any endpoints, attribute lists and retry counts. The
  invariant `IInv` has, besides the first three: `Budget` (what is to be read has a
  retry left), `AllSetUp` (until a restart every volatile attribute in the tree is in the
  set-up list, since `Emplace` enters it there), and `NothingNew` (until a restart a node
  that is functional, or will be once it has recovered, has nothing left to read and is
  `Covered`: one subscription is for the whole set-up list, or one was `lost`). It holds
  because the resolver completes only when nothing is left to read, a node becomes
  functional in no other way, and the set-up list does not grow after that, so a second
  attempt is for the same list as the first.
* `WriteAttributesProofs!TypeCorrect`, `WritesSettle`, `OnlyConfirmedIsReported`
  (`TypeOK`, `Settled`, `ReportedIsConfirmed`), for any nodes, attributes, values and
  requests. `Settled` carries itself; `ReportedIsConfirmed` does not, because the code
  reports *the desired value* when an answer comes, not the one it sent. The invariant
  `WriteIsOwn` closes the gap: an attribute that is not `mixed` has at most one write
  under way, and its desired value is what that write carries.
* `MainLoopProofs!TypeCorrect` and `MutexWorks` (`Spec => []Exclusive`). The
  bound on the queue needs `Room`: when a thread is let in there is room for what it
  and the other one may still add.

* `CodeGenProofs!TypeCorrect`, `LookupsStable`, `GeneratedUpToDate`,
  `GeneratedCompiles`, `InterviewIsWired`, `RoundTrips` (`TypeOK`, `StableLookup`,
  `UpToDate`, `Compiles`, `InterviewWired`, `RoundTrip`). The invariant is
  `IInv == TypeOK /\ OrderIndependent`, where the second part (`OutputDetermined`) says
  that a file holds what its template generates for the clusters visited so far *from an
  empty table*: neither the other templates nor the moment at which the table is filled
  have a part in it. It holds because every look-up fills the table first. The other
  theorems then only look at one file at its end. `ReverseTakesLast` is about any object
  literal, repeated keys and shared values included: the reversed table gives a Matter
  name to the last key that has it. It is proved from the least element of a set of
  positions, which the library's well-foundedness of `<` gives without an induction over
  sequences. `RoundTrips` holds for a reason worth knowing: no enumeration of
  the Matter model is named like something on the Unify side of the tables, and a bitmap
  that is stands for itself.

The liveness properties need fairness and stay with TLC. What a proof can give is their
safety half: that the thing waited for is under way, and a natural number that every step
towards it lowers and no step raises. It holds for any value of the constants, where the
runs have two nodes or one retry:

* `NodeMonitorProofs!RecoveryGoesOn` and `RecoveryAdvances` (for `BootRecoveryDrains`):
  while rows wait the recovery process is armed; how many wait is the number.
* `MainLoopProofs!ShutdownNeverLost` and `DeadlockFree` (for `ShutdownEnds`): a shutdown
  that has begun is about to be queued, queued or served, wherever the two threads are,
  and one of the threads can always go on. `NoDeadlock` states the guards of the steps,
  since `ENABLED` is not available; it needs `ShutdownInv` for the join and the mutex
  invariant for the locks.
* `NodeInterviewProofs!ReadsRunOut` (for `ReadsEnd`): the number of an attribute counts
  an absent one as if all its reads were still to come, so that an answer that adds
  attributes does not raise it. A restart starts anew.
* `CommandSenderProofs!RetriesRunOut` (for `RetriesEnd`): at most limit + 2 answers from
  `Send()` on; the number follows from `Budget`.

Only model-checked: everything with fairness (`HeadServed`, `BootRecoveryDrains`,
`RetriesEnd`, `ReadsEnd`, `InterviewEnds`, `EventsRun`, `ShutdownEnds`), which is out of
the prover's reach, and `CodeGen!KnownShortfalls`, which lists the differences of the two
complete data models: it compares sets of bit masks, and the backends do not compute
powers of two. TLC's run evaluates it on the complete tables. Every other property of a
passing run is stated by a theorem. No module uses a RECURSIVE operator.

## 5. Assumptions and what is not modelled

* The MPC has the same node id in each of its fabrics.
* The fabric table hands out its lowest index first, later ones in any order.
* `clock_seconds()` does not go backwards.
* A session request is answered later, by a callback of its own; when the SDK has a
  session it answers inside the call, which gives the same states in another order.
* `attribute_store_refresh_node_and_children_callbacks` at start-up creates no
  attribute, so the set-up list stays empty (the TODO at `mpc_node_monitor.cpp:70`).
* A crash between the insertion of a failing node into the table
  (`mpc_failing_node.cpp:57`) and the write of its status (`:60`) is not modelled.
* The resolver may call a registered completion listener at any time inside the
  Contiki loop; a completion for a node that is offline does nothing.
* `NodeMonitor!Restart` assumes the MPC is in a fabric (otherwise the store is wiped).
* UNIDs are unique (`generateUNID`); errors of SQLite are not modelled; which
  attribute a report carries, and all formatting and logging, are left out.

* `NodeInterview` has one device, whose parts are all listed by the root; an attribute
  list names attributes the model has (`ListedAssumption`); values are left out; a node that is removed during its interview is `NwMonitor`'s subject.
* `WriteAttributes` leaves out the fabric removal (null pointer, above) and a failing
  `writer.Finalize`; only `OnOff` is subscribed to, so no report changes a writable
  attribute. Unify's part of a write sets the desired value before the callback.
* `MainLoop` takes each locked section and each statement outside as atomic;
  `matter_running` is a plain `bool` read by one thread and written by the other, and
  is taken to be read anew in each turn, since the call in the loop is opaque.
* `CodeGen` takes from ZAP which attributes, commands and enumerations a cluster has,
  as `matter_support_model.js` lists them, and leaves out `isWritable`, which is not
  in this repository.

Left out, with the reason in `PROJECT.json`: the command line, configuration, data
store set-up, application monitoring, packaging.

## 6. Plan

Done: all modules above with their runs, and the proofs of section 4. Left:

1. `NwMonitor` composed with `NodeInterview`: several interviews at the same time.
2. `MpcConfig`: discriminator, pin and interface settings (sequential, few cases).
