---------------------------- MODULE CommandSender ----------------------------
(***************************************************************************)
(* SendableCommand, linux/src/mpc_sendable_command.hpp: the life of the    *)
(* heap object that carries one Matter command to a node, from Send() to   *)
(* Platform::Delete, with its immediate retries.  The Matter SDK, which    *)
(* calls back, is external: a session request is answered by onConnected   *)
(* or onConnectFailure, a request that was sent by onSuccess or onFailure, *)
(* each once, in any order between commands.  All commands go to one node  *)
(* of fabric index 1, the only index the callers of Send use.              *)
(***************************************************************************)
EXTENDS Naturals

CONSTANTS
  Commands,   \* the calls of Send() one run of the program makes
  MaxRetry    \* MPC_MAX_COMMAND_RETRY

ASSUME RetryAssumption == MaxRetry \in Nat

VARIABLES
  cmd,      \* the SendableCommand objects
  fabric,   \* the fabric table has index 1
  node,     \* the attribute store has the destination: "absent", "online", "offline"
  mode      \* "up", or "crashed" after a null pointer is dereferenced

vars == <<cmd, fabric, node, mode>>

\* st: not sent, waiting for a session, request sent, deleted, or on the heap with
\* nobody left to call it.  wants: mSendDone has a value.  attempts (history) counts
\* the calls of FindOrEstablishSession, up to MaxRetry + 2 of them, calls (history) those
\* of mSendDone.
Command == [st       : {"unsent", "connecting", "sent", "deleted", "abandoned"},
            wants    : BOOLEAN,
            retries  : 0 .. MaxRetry + 1,
            attempts : 0 .. MaxRetry + 2,
            calls    : Nat]

Unsent == [st |-> "unsent", wants |-> FALSE, retries |-> 0, attempts |-> 0,
           calls |-> 0]

Error == {"timeout", "other"}   \* "timeout": any error that marks a node as failing

-----------------------------------------------------------------------------
\* caseSessProvider->FindOrEstablishSession()
FindOrEstablishSession(c) ==
  [c EXCEPT !.st = "connecting", !.attempts = IF @ <= MaxRetry + 1 THEN @ + 1 ELSE @]

\* mSendDone.Value()(error, peer), if there is one; what it is told is left out.
SendDone(c) == IF c.wants THEN [c EXCEPT !.calls = @ + 1] ELSE c

\* mpc_attribute_store_get_unid_from_matter_peer_nodeid() followed by update of the
\* node it finds.  Without the fabric it goes through a null FabricInfo pointer:
\* neither the update nor what follows, the deletion of the object, happens.
WithUnid(update, before, after, i) ==
  \/ /\ fabric
     /\ cmd' = [cmd EXCEPT ![i] = after]
     /\ node' = IF node = "absent" THEN node ELSE update
     /\ UNCHANGED mode
  \/ /\ ~fabric
     /\ cmd' = [cmd EXCEPT ![i] = before]
     /\ mode' = "crashed"
     /\ UNCHANGED node

check_and_mark_failing_node(error) == IF error = "timeout" THEN "offline" ELSE node

Deleted(c) == [c EXCEPT !.st = "deleted"]

-----------------------------------------------------------------------------
\* Send(): copies the command to the heap and asks for a session.
Send(i, wants) ==
  /\ mode = "up" /\ cmd[i].st = "unsent" /\ fabric /\ node # "absent"
  /\ cmd' = [cmd EXCEPT ![i] = FindOrEstablishSession([Unsent EXCEPT !.wants = wants])]
  /\ UNCHANGED <<fabric, node, mode>>

\* onConnected(), the request is sent.
OnConnected(i) ==
  /\ mode = "up" /\ cmd[i].st = "connecting"
  /\ cmd' = [cmd EXCEPT ![i].st = "sent"]
  /\ UNCHANGED <<fabric, node, mode>>

\* Mutant: one retry too many.
OnConnectedSendFails_OffByOne(i, error) ==
  LET c       == cmd[i]
      counted == [c EXCEPT !.retries = @ + 1]
      left    == [counted EXCEPT !.st = "abandoned"]
  IN  /\ mode = "up" /\ c.st = "connecting"
      /\ \/ /\ c.retries <= MaxRetry
            /\ cmd' = [cmd EXCEPT ![i] = FindOrEstablishSession(counted)]
            /\ UNCHANGED <<node, mode>>
         \/ /\ c.retries > MaxRetry
            /\ WithUnid(check_and_mark_failing_node(error), left, left, i)
      /\ UNCHANGED fabric

\* onConnected(), InvokeCommandRequest fails at once: retry, or mark the node.
OnConnectedSendFails(i, error) ==
  LET c       == cmd[i]
      counted == [c EXCEPT !.retries = @ + 1]
  IN  /\ mode = "up" /\ c.st = "connecting"
      /\ \/ /\ c.retries < MaxRetry
            /\ cmd' = [cmd EXCEPT ![i] = FindOrEstablishSession(counted)]
            /\ UNCHANGED <<node, mode>>
         \/ /\ c.retries >= MaxRetry
            /\ LET left == [counted EXCEPT !.st = "abandoned"]
               IN  WithUnid(check_and_mark_failing_node(error), left, left, i)
      /\ UNCHANGED fabric

\* Mutant: every failure is reported.
OnConnectFailure_TellsAlways(i) ==
  LET c       == cmd[i]
      told    == SendDone([c EXCEPT !.retries = @ + 1])
  IN  /\ mode = "up" /\ c.st = "connecting"
      /\ \/ /\ c.retries < MaxRetry
            /\ cmd' = [cmd EXCEPT ![i] = FindOrEstablishSession(told)]
            /\ UNCHANGED <<node, mode>>
         \/ /\ c.retries >= MaxRetry
            /\ WithUnid(check_and_mark_failing_node("timeout"), told, Deleted(told), i)
      /\ UNCHANGED fabric

\* onConnectFailure(): retry, or report, mark the node and delete the object.
OnConnectFailure(i) ==
  LET c       == cmd[i]
      counted == [c EXCEPT !.retries = @ + 1]
      told    == SendDone(counted)
  IN  /\ mode = "up" /\ c.st = "connecting"
      /\ \/ /\ c.retries < MaxRetry
            /\ cmd' = [cmd EXCEPT ![i] = FindOrEstablishSession(counted)]
            /\ UNCHANGED <<node, mode>>
         \/ /\ c.retries >= MaxRetry
            /\ WithUnid(check_and_mark_failing_node("timeout"), told, Deleted(told), i)
      /\ UNCHANGED fabric

\* The lambdas onSuccess and onFailure: report, update the node, delete the object.
OnSuccess(i) ==
  /\ mode = "up" /\ cmd[i].st = "sent"
  /\ LET told == SendDone(cmd[i])
     IN  WithUnid("online", told, Deleted(told), i)
  /\ UNCHANGED fabric

\* Mutant: a request that fails is sent again without being counted.
OnFailure_RetryNotCounted(i, error) ==
  /\ mode = "up" /\ cmd[i].st = "sent"
  /\ cmd' = [cmd EXCEPT ![i] = FindOrEstablishSession(@)]
  /\ UNCHANGED <<fabric, node, mode>>

OnFailure(i, error) ==
  /\ mode = "up" /\ cmd[i].st = "sent"
  /\ LET told == SendDone(cmd[i])
     IN  WithUnid(check_and_mark_failing_node(error), told, Deleted(told), i)
  /\ UNCHANGED fabric

-----------------------------------------------------------------------------
(* The surroundings *)

\* The device is decommissioned: mpc_node_removal_handle().
NodeRemoved ==
  /\ mode = "up" /\ node # "absent"
  /\ node' = "absent"
  /\ UNCHANGED <<cmd, fabric, mode>>

\* It is discovered again, in state Online Interviewing: OnNodeDiscovered().
NodeDiscovered ==
  /\ mode = "up" /\ fabric /\ node = "absent"
  /\ node' = "online"
  /\ UNCHANGED <<cmd, fabric, mode>>

\* The fabric is removed, and all its nodes: FabricWillBeRemoved().  The table does
\* not hand out index 1 again.
FabricRemoved ==
  /\ mode = "up" /\ fabric
  /\ fabric' = FALSE /\ node' = "absent"
  /\ UNCHANGED <<cmd, mode>>

\* The service manager starts the program again; its heap is empty.
Restart ==
  /\ cmd' = [i \in Commands |-> Unsent]
  /\ mode' = "up"
  /\ UNCHANGED <<fabric, node>>

-----------------------------------------------------------------------------
Init ==
  /\ cmd = [i \in Commands |-> Unsent]
  /\ fabric = TRUE /\ node = "online" /\ mode = "up"

\* The SDK's answers to command i.
Answer(i) ==
  \/ OnConnected(i) \/ OnConnectFailure(i) \/ OnSuccess(i)
  \/ \E error \in Error : OnConnectedSendFails(i, error) \/ OnFailure(i, error)

Next ==
  \/ \E i \in Commands : Answer(i) \/ \E wants \in BOOLEAN : Send(i, wants)
  \/ NodeRemoved \/ NodeDiscovered \/ FabricRemoved \/ Restart

Spec == Init /\ [][Next]_vars

\* The SDK answers every request it has accepted: session establishment and
\* exchanges time out.
FairSpec == Spec /\ \A i \in Commands : WF_vars(Answer(i))

-----------------------------------------------------------------------------
(* Properties *)

\* The type invariant: in particular mRetryCount stays within its limit plus one.
TypeOK ==
  /\ cmd \in [Commands -> Command]
  /\ fabric \in BOOLEAN
  /\ node \in {"absent", "online", "offline"}
  /\ mode \in {"up", "crashed"}

\* Connection failures and failed sends share one budget: a command asks for a
\* session at most 1 + MPC_MAX_COMMAND_RETRY times, in whatever order they come.
AttemptsBounded == \A i \in Commands : cmd[i].attempts <= MaxRetry + 1

\* Of those that asked to be told: nobody is told twice, nobody is told while the
\* command is still under way, retries included, and whoever's object is deleted has
\* been told.  It says nothing of an object that is left on the heap (ToldWhenOver).
ToldWhenDeleted ==
  mode = "up" => \A i \in Commands : cmd[i].wants =>
    /\ cmd[i].calls <= 1
    /\ cmd[i].st = "deleted" => cmd[i].calls = 1
    /\ cmd[i].st \notin {"deleted", "abandoned"} => cmd[i].calls = 0

\* What the header says of the callback, "called when the send operation is compleeted":
\* when nothing more is going to happen to a command, whoever asked has been told.
ToldWhenOver ==
  mode = "up" => \A i \in Commands :
    cmd[i].wants /\ cmd[i].st \in {"deleted", "abandoned"} => cmd[i].calls = 1

\* No command waits for ever: retrying comes to an end.
Busy(i) == mode = "up" /\ cmd[i].st \in {"connecting", "sent"}
RetriesEnd == \A i \in Commands : Busy(i) ~> ~Busy(i)

=============================================================================
