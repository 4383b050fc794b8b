------------------------- MODULE CommandSenderProofs -------------------------
(***************************************************************************)
(* Proofs about CommandSender, for any number of commands and any retry    *)
(* limit.                                                                  *)
(***************************************************************************)
EXTENDS CommandSender, Integers, TLAPS

\* While a command waits for a session its retry counter is within the limit and
\* one behind the number of sessions asked for.
Budget(c) ==
  /\ c.st = "unsent" => c.attempts = 0
  /\ c.st = "connecting" => c.retries <= MaxRetry /\ c.attempts = c.retries + 1

\* ToldWhenDeleted, of one command.
Told(c) ==
  c.wants =>
    /\ c.calls <= 1
    /\ c.st = "deleted" => c.calls = 1
    /\ c.st \notin {"deleted", "abandoned"} => c.calls = 0

\* A crash may leave an object half-way; the bound holds even then.
IInv ==
  /\ TypeOK
  /\ AttemptsBounded
  /\ mode = "up" => \A i \in Commands : Budget(cmd[i]) /\ Told(cmd[i])

\* What FindOrEstablishSession does to each field.
LEMMA SessionFields ==
  ASSUME NEW c \in Command, c.attempts <= MaxRetry + 1
  PROVE  LET d == FindOrEstablishSession(c)
         IN  /\ d \in Command /\ d.st = "connecting" /\ d.attempts = c.attempts + 1
             /\ d.retries = c.retries /\ d.wants = c.wants /\ d.calls = c.calls
PROOF
<1> DEFINE e == [c EXCEPT !.st = "connecting"]
<1>1. /\ e \in Command /\ e.st = "connecting" /\ e.attempts = c.attempts
      /\ e.retries = c.retries /\ e.wants = c.wants /\ e.calls = c.calls
  BY DEF Command
<1> DEFINE d == [e EXCEPT !.attempts = c.attempts + 1]
<1>2. FindOrEstablishSession(c) = d
  BY DEF FindOrEstablishSession
<1> HIDE DEF e
<1>3. /\ d \in Command /\ d.st = "connecting" /\ d.attempts = c.attempts + 1
      /\ d.retries = c.retries /\ d.wants = c.wants /\ d.calls = c.calls
  BY <1>1, RetryAssumption DEF Command
<1> QED
  BY <1>2, <1>3

\* What SendDone does to each field.
LEMMA SendDoneFields ==
  ASSUME NEW c \in Command
  PROVE  LET d == SendDone(c)
         IN  /\ d \in Command /\ d.st = c.st /\ d.attempts = c.attempts
             /\ d.retries = c.retries /\ d.wants = c.wants
             /\ d.calls = IF c.wants THEN c.calls + 1 ELSE c.calls
PROOF
<1>1. CASE ~c.wants
  BY <1>1 DEF SendDone
<1>2. CASE c.wants
  <2> DEFINE e == [c EXCEPT !.calls = @ + 1]
  <2>1. /\ e \in Command /\ e.st = c.st /\ e.attempts = c.attempts
        /\ e.retries = c.retries /\ e.wants = c.wants /\ e.calls = c.calls + 1
    BY DEF Command
  <2>2. SendDone(c) = e
    BY <1>2 DEF SendDone
  <2> QED
    BY <1>2, <2>1, <2>2
<1> QED
  BY <1>1, <1>2

\* A counted retry.
LEMMA RetryFields ==
  ASSUME NEW c \in Command, c.retries <= MaxRetry
  PROVE  LET d == [c EXCEPT !.retries = @ + 1]
         IN  /\ d \in Command /\ d.st = c.st /\ d.attempts = c.attempts
             /\ d.retries = c.retries + 1 /\ d.wants = c.wants /\ d.calls = c.calls
BY RetryAssumption DEF Command

\* A new state of an object.
LEMMA StateFields ==
  ASSUME NEW c \in Command, NEW st \in {"sent", "deleted", "abandoned"}
  PROVE  LET d == [c EXCEPT !.st = st]
         IN  /\ d \in Command /\ d.st = st /\ d.attempts = c.attempts
             /\ d.retries = c.retries /\ d.wants = c.wants /\ d.calls = c.calls
BY DEF Command

\* A step that changes one object into one that satisfies the invariant.
LEMMA OneObject ==
  ASSUME IInv, mode = "up", NEW i \in Commands, NEW d \in Command,
         d.attempts <= MaxRetry + 1, mode' = "up" => Budget(d) /\ Told(d),
         cmd' = [cmd EXCEPT ![i] = d],
         fabric' \in BOOLEAN, node' \in {"absent", "online", "offline"},
         mode' \in {"up", "crashed"}
  PROVE  IInv'
PROOF
<1>1. cmd \in [Commands -> Command]
  BY DEF IInv, TypeOK
<1>2. cmd' \in [Commands -> Command]
  BY <1>1
<1>3. \A k \in Commands : cmd'[k] = IF k = i THEN d ELSE cmd[k]
  BY <1>1
<1>4. TypeOK'
  BY <1>2 DEF TypeOK
<1>5. AttemptsBounded'
  BY <1>3 DEF IInv, AttemptsBounded
<1>6. mode' = "up" => \A k \in Commands : Budget(cmd'[k]) /\ Told(cmd'[k])
  BY <1>3 DEF IInv
<1> QED
  BY <1>4, <1>5, <1>6 DEF IInv, Budget, Told

\* The two outcomes of a lookup that ends an object's life.
LEMMA LookupKeeps ==
  ASSUME IInv, mode = "up", NEW i \in Commands, NEW update \in {"online", "offline", node},
         NEW c \in Command, NEW d \in Command, c.attempts <= MaxRetry + 1,
         d.attempts <= MaxRetry + 1, Budget(d), Told(d),
         WithUnid(update, c, d, i), fabric' = fabric
  PROVE  IInv'
PROOF
<1>1. fabric \in BOOLEAN /\ node \in {"absent", "online", "offline"}
  BY DEF IInv, TypeOK
<1>2. CASE fabric
  <2>1. /\ cmd' = [cmd EXCEPT ![i] = d] /\ mode' = "up"
        /\ node' = IF node = "absent" THEN node ELSE update
    BY <1>2 DEF WithUnid
  <2> QED
    BY <1>1, <2>1, OneObject
<1>3. CASE ~fabric
  <2>1. cmd' = [cmd EXCEPT ![i] = c] /\ mode' = "crashed" /\ node' = node
    BY <1>3 DEF WithUnid
  <2> QED
    BY <1>1, <2>1, OneObject
<1> QED
  BY <1>2, <1>3

\* Reporting and deleting an object that has not reported.
LEMMA ReportAndDelete ==
  ASSUME NEW c \in Command,
         c.attempts <= MaxRetry + 1, c.wants => c.calls = 0
  PROVE  /\ SendDone(c) \in Command /\ SendDone(c).attempts <= MaxRetry + 1
         /\ Deleted(SendDone(c)) \in Command
         /\ Deleted(SendDone(c)).attempts <= MaxRetry + 1
         /\ Budget(Deleted(SendDone(c))) /\ Told(Deleted(SendDone(c)))
PROOF
<1> DEFINE d == SendDone(c)
<1>1. /\ d \in Command /\ d.st = c.st /\ d.attempts = c.attempts
      /\ d.retries = c.retries /\ d.wants = c.wants
      /\ d.calls = IF c.wants THEN c.calls + 1 ELSE c.calls
  BY SendDoneFields
<1> HIDE DEF d
<1>2. /\ Deleted(d) \in Command /\ Deleted(d).st = "deleted"
      /\ Deleted(d).attempts = d.attempts /\ Deleted(d).wants = d.wants
      /\ Deleted(d).calls = d.calls
  BY <1>1, StateFields DEF Deleted
<1>3. Budget(Deleted(d))
  BY <1>1, <1>2 DEF Budget
<1>4. Told(Deleted(d))
  BY <1>1, <1>2 DEF Told
<1> QED
  BY <1>1, <1>2, <1>3, <1>4 DEF d

-----------------------------------------------------------------------------
\* Every step preserves the invariant.
LEMMA IInvNext == IInv /\ [Next]_vars => IInv'
PROOF
<1> SUFFICES ASSUME IInv, [Next]_vars PROVE IInv'
  OBVIOUS
<1>0. /\ cmd \in [Commands -> Command] /\ fabric \in BOOLEAN
      /\ node \in {"absent", "online", "offline"} /\ mode \in {"up", "crashed"}
      /\ MaxRetry \in Nat
  BY RetryAssumption DEF IInv, TypeOK
<1>a. ASSUME NEW i \in Commands, mode = "up"
      PROVE  /\ cmd[i] \in Command /\ cmd[i].attempts <= MaxRetry + 1
             /\ Budget(cmd[i]) /\ Told(cmd[i])
  BY <1>a, <1>0 DEF IInv, AttemptsBounded
<1>b. ASSUME NEW i \in Commands, mode = "up", cmd[i].st = "connecting"
      PROVE  /\ cmd[i].retries \in Nat /\ cmd[i].attempts = cmd[i].retries + 1
             /\ cmd[i].retries <= MaxRetry
             /\ cmd[i].wants => cmd[i].calls = 0
  BY <1>a, <1>b DEF Budget, Told, Command
<1> DEFINE counted(i) == [cmd[i] EXCEPT !.retries = @ + 1]
<1>c. ASSUME NEW i \in Commands, mode = "up", cmd[i].st = "connecting"
      PROVE  /\ counted(i) \in Command /\ counted(i).attempts = cmd[i].attempts
             /\ counted(i).retries = cmd[i].retries + 1 /\ counted(i).st = "connecting"
             /\ counted(i).wants = cmd[i].wants /\ counted(i).calls = cmd[i].calls
  <2>1. cmd[i] \in Command /\ cmd[i].retries <= MaxRetry
    BY <1>a, <1>b, <1>c
  <2> QED
    BY <1>c, <2>1, RetryFields
<1> HIDE DEF counted
<1>d. ASSUME NEW i \in Commands, mode = "up", cmd[i].st = "connecting",
             cmd[i].retries < MaxRetry,
             cmd' = [cmd EXCEPT ![i] = FindOrEstablishSession(counted(i))],
             UNCHANGED <<node, mode, fabric>>
      PROVE  IInv'
  <2> DEFINE d == FindOrEstablishSession(counted(i))
  <2>1. /\ d \in Command /\ d.st = "connecting" /\ d.attempts = counted(i).attempts + 1
        /\ d.retries = counted(i).retries /\ d.wants = counted(i).wants
        /\ d.calls = counted(i).calls
    BY <1>a, <1>c, <1>d, SessionFields
  <2> HIDE DEF d
  <2>2. d.attempts <= MaxRetry + 1 /\ Budget(d) /\ Told(d)
    BY <1>0, <1>b, <1>c, <1>d, <2>1 DEF Budget, Told
  <2>3. cmd' = [cmd EXCEPT ![i] = d]
    BY <1>d DEF d
  <2> QED
    BY <1>0, <1>d, <2>1, <2>2, <2>3, OneObject
<1>1. ASSUME NEW i \in Commands, NEW wants \in BOOLEAN, Send(i, wants) PROVE IInv'
  <2> DEFINE e == [Unsent EXCEPT !.wants = wants]
  <2> DEFINE d == FindOrEstablishSession(e)
  <2>1. /\ e \in Command /\ e.attempts = 0 /\ e.retries = 0 /\ e.calls = 0
        /\ e.wants = wants
    BY <1>0 DEF Unsent, Command
  <2> HIDE DEF e
  <2>2. /\ d \in Command /\ d.st = "connecting" /\ d.attempts = e.attempts + 1
        /\ d.retries = e.retries /\ d.calls = e.calls
    BY <1>0, <2>1, SessionFields
  <2>3. cmd' = [cmd EXCEPT ![i] = d] /\ mode = "up" /\ UNCHANGED <<fabric, node, mode>>
    BY <1>1 DEF Send, e
  <2> HIDE DEF d
  <2>4. d.attempts <= MaxRetry + 1 /\ Budget(d) /\ Told(d)
    BY <1>0, <2>1, <2>2 DEF Budget, Told
  <2> QED
    BY <1>0, <2>2, <2>3, <2>4, OneObject
<1>2. ASSUME NEW i \in Commands, OnConnected(i) PROVE IInv'
  <2> DEFINE d == [cmd[i] EXCEPT !.st = "sent"]
  <2>1. /\ mode = "up" /\ cmd[i].st = "connecting" /\ UNCHANGED <<fabric, node, mode>>
        /\ cmd' = [cmd EXCEPT ![i] = d]
    BY <1>2 DEF OnConnected
  <2>2. /\ d \in Command /\ d.st = "sent" /\ d.attempts = cmd[i].attempts
        /\ d.wants = cmd[i].wants /\ d.calls = cmd[i].calls
    BY <2>1, <1>a, StateFields
  <2> HIDE DEF d
  <2>3. d.attempts <= MaxRetry + 1 /\ Budget(d) /\ Told(d)
    BY <1>a, <1>b, <2>1, <2>2 DEF Budget, Told
  <2> QED
    BY <1>0, <2>1, <2>2, <2>3, OneObject
<1>3. ASSUME NEW i \in Commands, NEW error \in Error, OnConnectedSendFails(i, error)
      PROVE  IInv'
  <2> DEFINE left == [counted(i) EXCEPT !.st = "abandoned"]
  <2>1. mode = "up" /\ cmd[i].st = "connecting" /\ fabric' = fabric
    BY <1>3 DEF OnConnectedSendFails
  <2>2. \/ /\ cmd[i].retries < MaxRetry /\ UNCHANGED <<node, mode>>
           /\ cmd' = [cmd EXCEPT ![i] = FindOrEstablishSession(counted(i))]
        \/ WithUnid(check_and_mark_failing_node(error), left, left, i)
    BY <1>3 DEF OnConnectedSendFails, counted
  <2>3. /\ left \in Command /\ left.st = "abandoned" /\ left.attempts = cmd[i].attempts
        /\ left.wants = cmd[i].wants /\ left.calls = cmd[i].calls
    <3>1. counted(i) \in Command
      BY <1>c, <2>1
    <3>2. /\ left \in Command /\ left.st = "abandoned" /\ left.attempts = counted(i).attempts
          /\ left.wants = counted(i).wants /\ left.calls = counted(i).calls
      BY <3>1, StateFields
    <3> HIDE DEF left
    <3> QED
      BY <1>c, <2>1, <3>2
  <2> HIDE DEF left
  <2>4. left.attempts <= MaxRetry + 1 /\ Budget(left) /\ Told(left)
    BY <1>a, <1>b, <2>1, <2>3 DEF Budget, Told
  <2>5. check_and_mark_failing_node(error) \in {"online", "offline", node}
    BY DEF check_and_mark_failing_node
  <2> QED
    BY <1>d, <2>1, <2>2, <2>3, <2>4, <2>5, LookupKeeps
<1>4. ASSUME NEW i \in Commands, OnConnectFailure(i) PROVE IInv'
  <2> DEFINE told == SendDone(counted(i))
  <2>1. mode = "up" /\ cmd[i].st = "connecting" /\ fabric' = fabric
    BY <1>4 DEF OnConnectFailure
  <2>2. \/ /\ cmd[i].retries < MaxRetry /\ UNCHANGED <<node, mode>>
           /\ cmd' = [cmd EXCEPT ![i] = FindOrEstablishSession(counted(i))]
        \/ WithUnid(check_and_mark_failing_node("timeout"), told, Deleted(told), i)
    BY <1>4 DEF OnConnectFailure, counted
  <2>3. /\ told \in Command /\ told.attempts <= MaxRetry + 1
        /\ Deleted(told) \in Command /\ Deleted(told).attempts <= MaxRetry + 1
        /\ Budget(Deleted(told)) /\ Told(Deleted(told))
    <3>1. /\ counted(i) \in Command /\ counted(i).attempts <= MaxRetry + 1
          /\ counted(i).wants => counted(i).calls = 0
      BY <1>a, <1>b, <1>c, <2>1
    <3> QED
      BY <3>1, ReportAndDelete
  <2> HIDE DEF told
  <2>4. check_and_mark_failing_node("timeout") \in {"online", "offline", node}
    BY DEF check_and_mark_failing_node
  <2> QED
    BY <1>d, <2>1, <2>2, <2>3, <2>4, LookupKeeps
<1>5. ASSUME NEW i \in Commands, NEW update \in {"online", "offline", node},
             mode = "up", cmd[i].st = "sent",
             WithUnid(update, SendDone(cmd[i]), Deleted(SendDone(cmd[i])), i),
             fabric' = fabric
      PROVE  IInv'
  <2>1. cmd[i].wants => cmd[i].calls = 0
    BY <1>a, <1>5 DEF Told
  <2> QED
    BY <1>a, <1>5, <2>1, ReportAndDelete, LookupKeeps
<1>6. ASSUME NEW i \in Commands, OnSuccess(i) PROVE IInv'
  BY <1>5, <1>6 DEF OnSuccess
<1>7. ASSUME NEW i \in Commands, NEW error \in Error, OnFailure(i, error) PROVE IInv'
  BY <1>5, <1>7 DEF OnFailure, check_and_mark_failing_node
<1>8. ASSUME UNCHANGED cmd, mode' = mode, fabric' \in BOOLEAN,
             node' \in {"absent", "online", "offline"}
      PROVE  IInv'
  BY <1>8, <1>0 DEF IInv, TypeOK, AttemptsBounded, Budget, Told
<1>9. CASE NodeRemoved \/ NodeDiscovered \/ FabricRemoved \/ UNCHANGED vars
  BY <1>0, <1>8, <1>9 DEF NodeRemoved, NodeDiscovered, FabricRemoved, vars
<1>10. CASE Restart
  <2>1. /\ Unsent \in Command /\ Unsent.attempts = 0 /\ Unsent.st = "unsent"
        /\ Unsent.wants = FALSE
    BY <1>0 DEF Unsent, Command
  <2>2. \A i \in Commands : cmd'[i] = Unsent
    BY <1>10 DEF Restart
  <2>3. TypeOK'
    BY <1>0, <1>10, <2>1 DEF TypeOK, Restart
  <2>4. AttemptsBounded'
    BY <1>0, <2>1, <2>2 DEF AttemptsBounded
  <2>5. \A i \in Commands : Budget(cmd'[i]) /\ Told(cmd'[i])
    BY <2>1, <2>2 DEF Budget, Told
  <2> QED
    BY <2>3, <2>4, <2>5 DEF IInv, Budget, Told
<1> QED
  BY <1>1, <1>2, <1>3, <1>4, <1>6, <1>7, <1>9, <1>10 DEF Next, Answer

LEMMA InitIInv == Init => IInv
<1>1. /\ Unsent \in Command /\ Unsent.attempts = 0 /\ Unsent.st = "unsent"
      /\ Unsent.wants = FALSE
  BY RetryAssumption DEF Unsent, Command
<1> QED
  BY <1>1, RetryAssumption DEF Init, IInv, TypeOK, AttemptsBounded, Budget, Told

\* For every retry limit and any number of commands: a command asks for a session at most
\* 1 + MPC_MAX_COMMAND_RETRY times; its caller is never told twice, nor while it is under
\* way, and has been told when it is deleted.  The last failed send, which neither tells
\* nor deletes (onConnected), is not excluded.
THEOREM CommandsWellBehaved == Spec => [](TypeOK /\ AttemptsBounded /\ ToldWhenDeleted)
PROOF
<1>1. IInv => TypeOK /\ AttemptsBounded /\ ToldWhenDeleted
  BY DEF IInv, ToldWhenDeleted, Told
<1> QED
  BY <1>1, InitIInv, IInvNext, PTL DEF Spec

\* The state of every command keeps its type.
THEOREM CommandTypeCorrect == Spec => []TypeOK
  BY CommandsWellBehaved, PTL

\* Connection failures and failed sends share one retry counter (mpc_sendable_command):
\* in whatever order they come, a command asks for a session at most once more than the
\* limit.
THEOREM RetriesBounded == Spec => []AttemptsBounded
  BY CommandsWellBehaved, PTL

-----------------------------------------------------------------------------
(* Retrying comes to an end *)

\* How many more answers command i can wait for.
Remaining(i) ==
  IF ~Busy(i) THEN 0 ELSE IF cmd[i].st = "connecting" THEN MaxRetry - cmd[i].retries + 2 ELSE 1

\* Once a command is on its way no step gives it more, and each answer takes one.
AnswersSpent ==
  \A i \in Commands :
    /\ cmd[i].st # "unsent" => Remaining(i)' <= Remaining(i)
    /\ Answer(i) => Remaining(i)' < Remaining(i)

LEMMA RemainingType ==
  ASSUME IInv, NEW i \in Commands
  PROVE  Remaining(i) \in 0 .. MaxRetry + 2
<1>1. MaxRetry \in Nat /\ cmd[i] \in Command
  BY RetryAssumption DEF IInv, TypeOK
<1>2. Busy(i) /\ cmd[i].st = "connecting" => cmd[i].retries \in Nat /\ cmd[i].retries <= MaxRetry
  BY <1>1 DEF IInv, Busy, Budget, Command
<1> QED
  BY <1>1, <1>2 DEF Remaining

\* An answer to a command: it is over, or sent, or waits once more with a retry less.
LEMMA AnswerProgress ==
  ASSUME IInv, NEW i \in Commands, Answer(i)
  PROVE  /\ Busy(i) /\ \A k \in Commands : k # i => cmd'[k] = cmd[k]
         /\ \/ ~Busy(i)'
            \/ cmd[i].st = "connecting" /\ cmd'[i].st = "sent"
            \/ /\ cmd[i].st = "connecting" /\ cmd'[i].st = "connecting"
               /\ cmd'[i].retries = cmd[i].retries + 1
<1>1. cmd \in [Commands -> Command] /\ MaxRetry \in Nat
  BY RetryAssumption DEF IInv, TypeOK
<1>2. mode = "up" /\ cmd[i].st \in {"connecting", "sent"}
  BY DEF Answer, OnConnected, OnConnectFailure, OnSuccess, OnConnectedSendFails, OnFailure
<1>3. cmd[i] \in Command /\ cmd[i].attempts <= MaxRetry + 1 /\ Budget(cmd[i])
  BY <1>1, <1>2 DEF IInv, AttemptsBounded
<1> DEFINE counted == [cmd[i] EXCEPT !.retries = @ + 1]
<1>4. ASSUME cmd[i].st = "connecting"
      PROVE  /\ counted \in Command /\ counted.st = "connecting" /\ counted.attempts = cmd[i].attempts
             /\ counted.retries = cmd[i].retries + 1
  <2>1. cmd[i].retries <= MaxRetry
    BY <1>3, <1>4 DEF Budget
  <2> QED
    BY <1>3, <1>4, <2>1, RetryFields
<1> HIDE DEF counted
<1>5. ASSUME NEW d, cmd' = [cmd EXCEPT ![i] = d]
      PROVE  cmd'[i] = d /\ \A k \in Commands : k # i => cmd'[k] = cmd[k]
  BY <1>1, <1>5
<1>6. ASSUME NEW update, NEW c, NEW d, d.st \in {"deleted", "abandoned"}, WithUnid(update, c, d, i)
      PROVE  ~Busy(i)' /\ \A k \in Commands : k # i => cmd'[k] = cmd[k]
  <2>1. CASE fabric
    BY <1>5, <1>6, <2>1 DEF WithUnid, Busy
  <2>2. CASE ~fabric
    BY <1>5, <1>6, <2>2 DEF WithUnid, Busy
  <2> QED
    BY <2>1, <2>2
<1>7. ASSUME cmd[i].st = "connecting", cmd' = [cmd EXCEPT ![i] = FindOrEstablishSession(counted)]
      PROVE  /\ cmd'[i].st = "connecting" /\ cmd'[i].retries = cmd[i].retries + 1
             /\ \A k \in Commands : k # i => cmd'[k] = cmd[k]
  <2>1. /\ FindOrEstablishSession(counted).st = "connecting"
        /\ FindOrEstablishSession(counted).retries = cmd[i].retries + 1
    BY <1>3, <1>4, <1>7, SessionFields
  <2> QED
    BY <1>5, <1>7, <2>1
<1>8. ASSUME NEW c \in Command PROVE Deleted(SendDone(c)).st = "deleted"
  <2>1. SendDone(c) \in Command
    BY SendDoneFields
  <2> QED
    BY <2>1, StateFields DEF Deleted
<1>9. CASE OnConnected(i)
  <2> DEFINE d == [cmd[i] EXCEPT !.st = "sent"]
  <2>1. cmd[i].st = "connecting" /\ cmd' = [cmd EXCEPT ![i] = d]
    BY <1>9 DEF OnConnected
  <2>2. d.st = "sent"
    BY <1>3, StateFields
  <2> HIDE DEF d
  <2> QED
    BY <1>2, <1>5, <2>1, <2>2 DEF Busy
<1>10. CASE OnConnectFailure(i)
  <2>1. cmd[i].st = "connecting"
    BY <1>10 DEF OnConnectFailure
  <2>2. \/ cmd' = [cmd EXCEPT ![i] = FindOrEstablishSession(counted)]
        \/ WithUnid(check_and_mark_failing_node("timeout"), SendDone(counted), Deleted(SendDone(counted)), i)
    BY <1>10 DEF OnConnectFailure, counted
  <2>3. Deleted(SendDone(counted)).st = "deleted"
    BY <1>4, <1>8, <2>1
  <2> QED
    BY <1>2, <1>6, <1>7, <2>1, <2>2, <2>3 DEF Busy
<1>11. ASSUME NEW error \in Error, OnConnectedSendFails(i, error)
       PROVE  /\ \A k \in Commands : k # i => cmd'[k] = cmd[k]
              /\ \/ ~Busy(i)'
                 \/ /\ cmd[i].st = "connecting" /\ cmd'[i].st = "connecting"
                    /\ cmd'[i].retries = cmd[i].retries + 1
  <2> DEFINE left == [counted EXCEPT !.st = "abandoned"]
  <2>1. cmd[i].st = "connecting"
    BY <1>11 DEF OnConnectedSendFails
  <2>2. \/ cmd' = [cmd EXCEPT ![i] = FindOrEstablishSession(counted)]
        \/ WithUnid(check_and_mark_failing_node(error), left, left, i)
    BY <1>11 DEF OnConnectedSendFails, counted
  <2>3. left.st = "abandoned"
    BY <1>4, <2>1, StateFields
  <2> HIDE DEF left
  <2> QED
    BY <1>6, <1>7, <2>1, <2>2, <2>3
<1>12. ASSUME NEW update, WithUnid(update, SendDone(cmd[i]), Deleted(SendDone(cmd[i])), i)
       PROVE  ~Busy(i)' /\ \A k \in Commands : k # i => cmd'[k] = cmd[k]
  BY <1>3, <1>6, <1>8, <1>12
<1>13. CASE OnSuccess(i)
  BY <1>2, <1>12, <1>13 DEF OnSuccess, Busy
<1>14. ASSUME NEW error \in Error, OnFailure(i, error)
       PROVE  ~Busy(i)' /\ \A k \in Commands : k # i => cmd'[k] = cmd[k]
  BY <1>12, <1>14 DEF OnFailure
<1> QED
  BY <1>2, <1>9, <1>10, <1>11, <1>13, <1>14 DEF Answer, Busy

\* Each step of the program keeps what is said of the answers that remain.
LEMMA AnswersSpentNext ==
  ASSUME IInv, IInv', [Next]_vars
  PROVE  AnswersSpent
<1> SUFFICES ASSUME NEW i \in Commands
             PROVE  /\ cmd[i].st # "unsent" => Remaining(i)' <= Remaining(i)
                    /\ Answer(i) => Remaining(i)' < Remaining(i)
  BY DEF AnswersSpent
<1>1. cmd \in [Commands -> Command] /\ cmd[i] \in Command /\ cmd'[i] \in Command
  BY DEF IInv, TypeOK
<1>2. cmd[i].retries \in Int /\ cmd'[i].retries \in Int
  BY <1>1, RetryAssumption DEF Command
<1>3. Remaining(i) \in Nat /\ Remaining(i)' \in Nat /\ MaxRetry \in Nat
  <2>1. Remaining(i) \in 0 .. MaxRetry + 2 /\ MaxRetry \in Nat
    BY RemainingType, RetryAssumption
  <2>2. Busy(i)' /\ cmd'[i].st = "connecting" => cmd'[i].retries <= MaxRetry
    BY DEF IInv, Busy, Budget
  <2>3. Remaining(i)' \in Nat
    BY <1>2, <2>1, <2>2 DEF Remaining
  <2> QED
    BY <2>1, <2>3
<1>4. ASSUME Answer(i) PROVE Remaining(i)' < Remaining(i)
  <2>1. /\ Busy(i)
        /\ \/ ~Busy(i)'
           \/ cmd[i].st = "connecting" /\ cmd'[i].st = "sent"
           \/ /\ cmd[i].st = "connecting" /\ cmd'[i].st = "connecting"
              /\ cmd'[i].retries = cmd[i].retries + 1
    BY <1>4, AnswerProgress
  <2>2. Remaining(i) >= 1
    BY <1>3, <2>1, <1>2 DEF Remaining, IInv, Busy, Budget
  <2>3. CASE ~Busy(i)'
    BY <1>3, <2>2, <2>3 DEF Remaining
  <2>4. CASE Busy(i)' /\ cmd[i].st = "connecting" /\ cmd'[i].st = "sent"
    <3>1. cmd[i].retries <= MaxRetry
      BY <2>1, <2>4 DEF IInv, Busy, Budget
    <3> QED
      BY <1>3, <1>2, <2>1, <2>4, <3>1 DEF Remaining
  <2>5. CASE /\ Busy(i)' /\ cmd[i].st = "connecting" /\ cmd'[i].st = "connecting"
             /\ cmd'[i].retries = cmd[i].retries + 1
    BY <1>3, <1>2, <2>1, <2>5 DEF Remaining
  <2> QED
    BY <2>1, <2>3, <2>4, <2>5
<1>5. ASSUME cmd'[i] = cmd[i], Busy(i)' => Busy(i) PROVE Remaining(i)' <= Remaining(i)
  BY <1>3, <1>2, <1>5 DEF Remaining
<1>6. ASSUME cmd[i].st # "unsent" PROVE Remaining(i)' <= Remaining(i)
  <2>1. ASSUME NEW k \in Commands, Answer(k) PROVE Remaining(i)' <= Remaining(i)
    <3>1. CASE k = i
      BY <1>3, <1>4, <2>1, <3>1
    <3>2. CASE k # i
      <4>1. cmd'[i] = cmd[i] /\ mode = "up"
        BY <2>1, <3>2, AnswerProgress DEF Busy
      <4> QED
        BY <1>5, <4>1 DEF Busy
    <3> QED
      BY <3>1, <3>2
  <2>2. ASSUME NEW k \in Commands, NEW wants \in BOOLEAN, Send(k, wants) PROVE Remaining(i)' <= Remaining(i)
    <3>1. cmd'[i] = cmd[i] /\ mode' = mode
      BY <1>1, <1>6, <2>2 DEF Send
    <3> QED
      BY <1>5, <3>1 DEF Busy
  <2>3. CASE NodeRemoved \/ NodeDiscovered \/ FabricRemoved \/ UNCHANGED vars
    BY <1>5, <2>3 DEF NodeRemoved, NodeDiscovered, FabricRemoved, vars, Busy
  <2>4. CASE Restart
    <3>1. cmd'[i].st = "unsent"
      BY <2>4 DEF Restart, Unsent
    <3> QED
      BY <1>3, <3>1 DEF Remaining, Busy
  <2> QED
    BY <2>1, <2>2, <2>3, <2>4 DEF Next
<1> QED
  BY <1>4, <1>6

\* The retries of a command run out, for any retry limit and any number of commands:
\* from Send() on there is a natural number, at most MPC_MAX_COMMAND_RETRY + 2, that no
\* step raises and that every answer of the SDK (onConnected, onConnectFailure, the two
\* lambdas) lowers; at 0 the command is no longer busy.
THEOREM RetriesRunOut ==
  Spec => /\ [](\A i \in Commands : Remaining(i) \in 0 .. MaxRetry + 2)
          /\ [][AnswersSpent]_vars
<1> DEFINE Bounded == \A i \in Commands : Remaining(i) \in 0 .. MaxRetry + 2
<1>1. IInv => Bounded
  BY RemainingType
<1>2. IInv /\ IInv' /\ [Next]_vars => AnswersSpent
  BY AnswersSpentNext
<1> HIDE DEF Bounded
<1>3. Spec => []Bounded /\ [][AnswersSpent]_vars
  BY <1>1, <1>2, InitIInv, IInvNext, PTL DEF Spec
<1> QED
  BY <1>3 DEF Bounded

=============================================================================
