---------------------------- MODULE CommandRelease ----------------------------
(***************************************************************************)
(* The control plane: the request handlers of api-gateway (create, approve,*)
(* reject, delete) and of queue-service (release, replay, publish), which  *)
(* run concurrently over the Postgres tables and the Kafka topics.         *)
(*                                                                         *)
(* One action is one awaited call of a handler: handlers interleave at     *)
(* every await, as the tasks of the tokio runtime and the replicas of the  *)
(* two deployments do.  A handler may be dropped at any of them (client    *)
(* gone, process killed); nothing it holds in memory is shared.            *)
(*                                                                         *)
(* The producer sends a message again when no answer comes in time, and    *)
(* nothing tells the topic that it is the same message: what has been sent *)
(* may be appended once for every time it was sent, at once or long after. *)
(***************************************************************************)
EXTENDS PlatformStore, Functions

CONSTANTS
  Handlers,     \* requests served during a behaviour, one handler each
  Keys,         \* idempotency keys
  Ops,          \* the operations the deployment at hand serves
  MayFail,      \* whether calls to Postgres and Kafka may fail
  MayDrop,      \* whether a request may be dropped before it is answered
  MaxSends,     \* how often the producer sends one message
  NoCommand, NoEnvelope

GatewayOps == {"create", "approve", "reject", "delete"}
ReleaseOps == {"release", "replay"}
PublishOps == {"publishCommand", "publishTask"}

ASSUME OpsAssumption == Ops \subseteq GatewayOps \cup ReleaseOps \cup PublishOps
ASSUME MayFailAssumption == MayFail \in BOOLEAN /\ MayDrop \in BOOLEAN
ASSUME MaxSendsAssumption == MaxSends \in Nat \ {0}
ASSUME NoCommandAssumption == NoCommand \notin Commands

\* A CommandEnvelope; what authorize_command made of it is approvalRequired.
Envelope == [key : Keys, targets : TargetLists, approvalRequired : BOOLEAN]

ASSUME NoEnvelopeAssumption == NoEnvelope \notin Envelope

VARIABLES
  envelope,       \* the envelope minted for a command id, wherever it is held
  commands,       \* table commands: the status column, "absent" for no row
  approvals,      \* table approvals: the status column
  tasks,          \* table tasks
  commandsTopic,  \* the commands on topic platform.commands
  tasksTopic,     \* the log of topic platform.tasks
  wire,           \* of a handler and a task: the times that message may yet be appended
  op, cmd, pc,    \* of each handler: its operation, command and next call
  todo,           \* of each handler: the tasks left to store or to publish
  everApproved    \* history: commands whose approval row once read "approved"

tables == <<commands, approvals, tasks>>
topics == <<commandsTopic, tasksTopic, wire>>
request == <<op, cmd>>
vars == <<envelope, tables, topics, request, pc, todo, everApproved>>

Labels == {"idle", "recordCommand", "storeTasks", "createApproval", "getApproval",
           "decide", "decideStatus", "reread", "deleteApproval", "load",
           "publishCommand", "publishTasks", "setStatus", "done", "dropped"}
Ended == {"idle", "done", "dropped"}

TypeOK ==
  /\ envelope \in [Commands -> Envelope \cup {NoEnvelope}]
  /\ commands \in [Commands -> CommandStatuses]
  /\ approvals \in [Commands -> ApprovalStatuses]
  /\ tasks \in [Task -> TaskRow]
  /\ commandsTopic \subseteq Commands
  /\ tasksTopic \in Seq(Task)
  /\ wire \in [Handlers \X Task -> 0..MaxSends]
  /\ op \in [Handlers -> Ops \cup {"none"}]
  /\ cmd \in [Handlers -> Commands \cup {NoCommand}]
  /\ pc \in [Handlers -> Labels]
  /\ todo \in [Handlers -> Seq(Task)]
  /\ everApproved \subseteq Commands

Init ==
  /\ envelope = [c \in Commands |-> NoEnvelope]
  /\ commands = [c \in Commands |-> "absent"]
  /\ approvals = [c \in Commands |-> "absent"]
  /\ tasks = [t \in Task |-> NoTaskRow]
  /\ commandsTopic = {}
  /\ tasksTopic = <<>>
  /\ wire = [p \in Handlers \X Task |-> 0]
  /\ op = [h \in Handlers |-> "none"]
  /\ cmd = [h \in Handlers |-> NoCommand]
  /\ pc = [h \in Handlers |-> "idle"]
  /\ todo = [h \in Handlers |-> <<>>]
  /\ everApproved = {}

-----------------------------------------------------------------------------
(* How a call to Postgres or Kafka ends: applied and acknowledged, never    *)
(* applied, or applied although the caller is told of an error (a           *)
(* connection lost after the statement ran).  When, and how often, a        *)
(* message arrives matters on the topic that is counted, platform.tasks.    *)

Replies == {"ok"} \cup (IF MayFail THEN {"lost", "unacked"} ELSE {})

Applied(r) == r # "lost"

\* `?`: on an error the handler returns.
LabelAfter(r, label) == IF r = "ok" THEN label ELSE "done"

Goto(h, label) == pc' = [pc EXCEPT ![h] = label]

\* The commands a caller can name: create_command has returned the id, or the
\* list of approvals or the commands topic shows it.
Known(c) ==
  \/ approvals[c] # "absent"
  \/ c \in commandsTopic
  \/ \E h \in Handlers : op[h] = "create" /\ cmd[h] = c /\ pc[h] = "done"

-----------------------------------------------------------------------------
(* create_command.  Errors of the store are logged and passed over.         *)

Create(h) ==
  /\ pc[h] = "idle"
  /\ "create" \in Ops
  /\ \E c \in Commands, e \in Envelope :
       /\ envelope[c] = NoEnvelope
       /\ envelope' = [envelope EXCEPT ![c] = e]
       /\ cmd' = [cmd EXCEPT ![h] = c]
       /\ todo' = [todo EXCEPT ![h] = PlanTasks(c, e.targets)]
  /\ op' = [op EXCEPT ![h] = "create"]
  /\ Goto(h, "recordCommand")
  /\ UNCHANGED <<tables, topics, everApproved>>

RecordCommand(h) ==
  /\ pc[h] = "recordCommand"
  /\ \E r \in Replies :
       commands' = IF Applied(r) THEN InsertCommand(commands, envelope, cmd[h])
                                 ELSE commands
  /\ Goto(h, "storeTasks")
  /\ UNCHANGED <<envelope, approvals, tasks, topics, request, todo, everApproved>>

\* One turn of the loop of store_planned_tasks, which the first error ends. A
\* task whose command has no row violates the foreign key.
StoreTask(h) ==
  /\ pc[h] = "storeTasks"
  /\ todo[h] # <<>>
  /\ LET c == cmd[h] IN
     \E r \in (IF commands[c] = "absent" THEN {"lost"} ELSE Replies) :
       /\ tasks' = IF Applied(r)
                   THEN InsertTask(tasks, envelope[c].targets, Head(todo[h]))
                   ELSE tasks
       /\ todo' = [todo EXCEPT ![h] = IF r = "ok" THEN Tail(@) ELSE <<>>]
  /\ UNCHANGED <<envelope, commands, approvals, topics, request, pc, everApproved>>

\* Mutant of AfterStore: the test of approval_required is gone.
ReleaseAtOnce(e) == "publishCommand"

AfterStore(e) == IF e.approvalRequired THEN "createApproval" ELSE "publishCommand"

\* The loop is over: an approval is asked for, or the planned tasks released.
FinishStore(h) ==
  /\ pc[h] = "storeTasks"
  /\ todo[h] = <<>>
  /\ LET e == envelope[cmd[h]] IN
       /\ Goto(h, AfterStore(e))
       /\ todo' = [todo EXCEPT ![h] = PlanTasks(cmd[h], e.targets)]
  /\ UNCHANGED <<envelope, tables, topics, request, everApproved>>

CreateApproval(h) ==
  /\ pc[h] = "createApproval"
  /\ LET c == cmd[h] IN
     \E r \in (IF commands[c] = "absent" THEN {"lost"} ELSE Replies) :
       approvals' = IF Applied(r) THEN UpsertApproval(approvals, c) ELSE approvals
  /\ Goto(h, "done")
  /\ UNCHANGED <<envelope, commands, tasks, topics, request, todo, everApproved>>

-----------------------------------------------------------------------------
(* approve_approval, reject_approval, delete_approval and the entry of the  *)
(* queue-service handlers.  A caller who is not authorized changes nothing  *)
(* and is left out.                                                         *)

FirstLabel(o) == IF o \in ReleaseOps THEN "load" ELSE "getApproval"

Serve(h) ==
  /\ pc[h] = "idle"
  /\ \E o \in Ops \ (PublishOps \cup {"create"}), c \in Commands :
       /\ Known(c)
       /\ op' = [op EXCEPT ![h] = o]
       /\ cmd' = [cmd EXCEPT ![h] = c]
       /\ Goto(h, FirstLabel(o))
  /\ UNCHANGED <<envelope, tables, topics, todo, everApproved>>

GetApproval(h) ==
  /\ pc[h] = "getApproval"
  /\ \E r \in Replies :
       Goto(h, IF approvals[cmd[h]] = "absent" THEN "done"
               ELSE LabelAfter(r, IF op[h] = "delete" THEN "deleteApproval" ELSE "decide"))
  /\ UNCHANGED <<envelope, tables, topics, request, todo, everApproved>>

\* The first statement of approve_command and reject_command. It does not look
\* at the status it overwrites.
Decide(h) ==
  /\ pc[h] = "decide"
  /\ \E r \in Replies :
       /\ approvals' = IF Applied(r)
                       THEN UpdateApproval(approvals, cmd[h],
                              IF op[h] = "approve" THEN "approved" ELSE "rejected")
                       ELSE approvals
       /\ Goto(h, LabelAfter(r, "decideStatus"))
  /\ everApproved' = {c \in Commands : approvals'[c] = "approved"} \cup everApproved
  /\ UNCHANGED <<envelope, commands, tasks, topics, request, todo>>

DecideStatus(h) ==
  /\ pc[h] = "decideStatus"
  /\ \E r \in Replies :
       /\ commands' = IF Applied(r)
                      THEN UpdateCommandStatus(commands, cmd[h],
                             IF op[h] = "approve" THEN "accepted" ELSE "rejected")
                      ELSE commands
       /\ Goto(h, LabelAfter(r, "reread"))
  /\ UNCHANGED <<envelope, approvals, tasks, topics, request, todo, everApproved>>

\* get_approval at the end of approve_command and reject_command: no row means
\* 404, and only an approval goes on to the release.
Reread(h) ==
  /\ pc[h] = "reread"
  /\ \E r \in Replies :
       Goto(h, IF approvals[cmd[h]] # "absent" /\ op[h] = "approve"
               THEN LabelAfter(r, "load") ELSE "done")
  /\ UNCHANGED <<envelope, tables, topics, request, todo, everApproved>>

RemoveApproval(h) ==
  /\ pc[h] = "deleteApproval"
  /\ \E r \in Replies :
       approvals' = IF Applied(r) THEN DeleteApproval(approvals, cmd[h]) ELSE approvals
  /\ Goto(h, "done")
  /\ UNCHANGED <<envelope, commands, tasks, topics, request, todo, everApproved>>

-----------------------------------------------------------------------------
(* The release: release_command of the gateway, release_from_store of the   *)
(* queue-service, and the two reads that precede it (fetch_command never    *)
(* changes its answer, so it is one step with list_tasks_for_command).      *)

\* All tasks of a command have one created_at, so that the order by it leaves
\* their order open.
RowOrders(c) ==
  LET rows == TaskRows(tasks, c) IN Bijection(1..Cardinality(rows), rows)

LoadTasks(h) ==
  /\ pc[h] = "load"
  /\ \/ /\ commands[cmd[h]] # "absent"
        /\ \E list \in RowOrders(cmd[h]) : todo' = [todo EXCEPT ![h] = list]
        /\ Goto(h, "publishCommand")
     \/ /\ commands[cmd[h]] = "absent" \/ MayFail
        /\ Goto(h, "done")
        /\ UNCHANGED todo
  /\ UNCHANGED <<envelope, tables, topics, request, everApproved>>

PublishCommand(h) ==
  /\ pc[h] = "publishCommand"
  /\ \E r \in Replies :
       /\ commandsTopic' = IF Applied(r) THEN commandsTopic \cup {cmd[h]} ELSE commandsTopic
       /\ Goto(h, LabelAfter(r, "publishTasks"))
  /\ UNCHANGED <<envelope, tables, tasksTopic, wire, request, todo, everApproved>>

\* The message of a task may be appended n times from here on.
Sent(h, t, n) == wire' = [wire EXCEPT ![<<h, t>>] = n]

\* Mutant of PublishTask: on an error the task is published once more.
RetryPublishTask(h) ==
  /\ pc[h] = "publishTasks"
  /\ todo[h] # <<>>
  /\ Len(tasksTopic) < 3 * Cardinality(Handlers)
  /\ \/ /\ tasksTopic' = Append(tasksTopic, Head(todo[h]))
        /\ Sent(h, Head(todo[h]), MaxSends - 1)
        /\ todo' = [todo EXCEPT ![h] = Tail(@)]
     \/ /\ MayFail
        /\ Sent(h, Head(todo[h]), MaxSends)
        /\ UNCHANGED <<tasksTopic, todo>>
  /\ UNCHANGED <<envelope, tables, commandsTopic, request, pc, everApproved>>

\* Mutant of PublishTask: an error is passed over.
SkipPublishTask(h) ==
  /\ pc[h] = "publishTasks"
  /\ todo[h] # <<>>
  /\ \/ /\ tasksTopic' = Append(tasksTopic, Head(todo[h]))
        /\ Sent(h, Head(todo[h]), MaxSends - 1)
     \/ /\ MayFail
        /\ Sent(h, Head(todo[h]), MaxSends)
        /\ UNCHANGED tasksTopic
  /\ todo' = [todo EXCEPT ![h] = Tail(@)]
  /\ UNCHANGED <<envelope, tables, commandsTopic, request, pc, everApproved>>

\* publish_json is answered once the topic holds the message, which may then still
\* be appended for the other times it was sent.  An error, also one that comes
\* after message.timeout.ms, tells of none of them.
PublishTask(h) ==
  /\ pc[h] = "publishTasks"
  /\ todo[h] # <<>>
  /\ \/ /\ tasksTopic' = Append(tasksTopic, Head(todo[h]))
        /\ Sent(h, Head(todo[h]), MaxSends - 1)
        /\ UNCHANGED pc
     \/ /\ MayFail
        /\ Sent(h, Head(todo[h]), MaxSends)
        /\ Goto(h, "done")
        /\ UNCHANGED tasksTopic
  /\ todo' = [todo EXCEPT ![h] = Tail(@)]
  /\ UNCHANGED <<envelope, tables, commandsTopic, request, everApproved>>

MarkQueued(h) ==
  /\ pc[h] = "publishTasks"
  /\ todo[h] = <<>>
  /\ \E r \in Replies :
       /\ tasks' = IF Applied(r) THEN MarkTasksQueued(tasks, cmd[h]) ELSE tasks
       /\ Goto(h, LabelAfter(r, "setStatus"))
  /\ UNCHANGED <<envelope, commands, approvals, topics, request, todo, everApproved>>

\* Mutant of ReleasedStatus: the name of the operation is stored.
OperationAsStatus(o) == o

ReleasedStatus(o) == IF o = "replay" THEN "replayed" ELSE "queued"

SetStatus(h) ==
  /\ pc[h] = "setStatus"
  /\ \E r \in Replies :
       commands' = IF Applied(r)
                   THEN UpdateCommandStatus(commands, cmd[h], ReleasedStatus(op[h]))
                   ELSE commands
  /\ Goto(h, "done")
  /\ UNCHANGED <<envelope, approvals, tasks, topics, request, todo, everApproved>>

-----------------------------------------------------------------------------
(* publish_command and publish_task of the queue-service: the envelope in   *)
(* the body goes to its topic, with no look at the store.                   *)

PublishRaw(h) ==
  /\ pc[h] = "idle"
  /\ \E c \in Commands :
       /\ envelope[c] # NoEnvelope /\ Known(c)
       /\ cmd' = [cmd EXCEPT ![h] = c]
       /\ \/ /\ "publishCommand" \in Ops
             /\ op' = [op EXCEPT ![h] = "publishCommand"]
             /\ commandsTopic' = commandsTopic \cup {c}
             /\ UNCHANGED wire
          \/ /\ "publishTask" \in Ops
             /\ op' = [op EXCEPT ![h] = "publishTask"]
             /\ \E i \in DOMAIN envelope[c].targets : Sent(h, <<c, i>>, MaxSends)
             /\ UNCHANGED commandsTopic
  /\ Goto(h, "done")
  /\ UNCHANGED <<envelope, tables, tasksTopic, todo, everApproved>>

-----------------------------------------------------------------------------
(* What happens to requests and messages without a handler's doing.         *)

\* A message arrives for one of the times it was sent.
Land ==
  /\ \E p \in Handlers \X Task :
       /\ wire[p] > 0
       /\ wire' = [wire EXCEPT ![p] = @ - 1]
       /\ tasksTopic' = Append(tasksTopic, p[2])
  /\ UNCHANGED <<envelope, tables, commandsTopic, request, pc, todo, everApproved>>

\* The server drops a request it has not answered, at whichever call it waits for;
\* a task it was about to publish may have been sent.
Drop(h) ==
  /\ MayDrop
  /\ pc[h] \notin Ended
  /\ Goto(h, "dropped")
  /\ \/ UNCHANGED wire
     \/ /\ pc[h] = "publishTasks"
        /\ todo[h] # <<>>
        /\ Sent(h, Head(todo[h]), MaxSends)
  /\ UNCHANGED <<envelope, tables, commandsTopic, tasksTopic, request, todo, everApproved>>

-----------------------------------------------------------------------------

\* The calls of a request once it is being served.
Proceed(h) ==
  \/ RecordCommand(h) \/ StoreTask(h) \/ FinishStore(h) \/ CreateApproval(h)
  \/ GetApproval(h) \/ Decide(h) \/ DecideStatus(h) \/ Reread(h) \/ RemoveApproval(h)
  \/ LoadTasks(h) \/ PublishCommand(h) \/ PublishTask(h) \/ MarkQueued(h) \/ SetStatus(h)

Next ==
  \/ \E h \in Handlers : Create(h) \/ Serve(h) \/ PublishRaw(h) \/ Proceed(h) \/ Drop(h)
  \/ Land

Spec == Init /\ [][Next]_vars

-----------------------------------------------------------------------------
(* What the control plane keeps true.                                       *)

Published == Range(tasksTopic)

\* mark_tasks_queued marks every row of the command, whichever tasks the
\* handler at hand has published; a row that reads "queued" has nevertheless
\* been delivered to platform.tasks, whatever call failed and whoever else
\* releases the command.  A command that reads "queued" or "replayed" has all
\* its rows there.
QueuedMeansPublished ==
  /\ \A t \in Task : tasks[t].status = "queued" => t \in Published
  /\ \A c \in Commands :
       commands[c] \in {"queued", "replayed"} => TaskRows(tasks, c) \subseteq Published

\* An operator has asked queue-service to release, replay or publish command c,
\* which looks at no approval.
AskedFor(c) == \E h \in Handlers : cmd[h] = c /\ op[h] \in ReleaseOps \cup PublishOps

\* No task of a command that needs approval is published before some decision
\* approved that command, unless an operator asked queue-service for it: not when
\* the approval row is late, deleted, or fought over by an approver and a
\* rejecter, nor when a statement fails halfway or a message lands late.
ApprovalPrecedesRelease ==
  \A t \in Published :
    envelope[CommandOf(t)].approvalRequired =>
      CommandOf(t) \in everApproved \/ AskedFor(CommandOf(t))

\* The requests that release command c: its creation if no approval is needed,
\* and every approval, release, replay or publication asked for since.
Releases(c) ==
  {h \in Handlers :
     /\ cmd[h] = c
     /\ op[h] = "create" => ~envelope[c].approvalRequired
     /\ op[h] \in {"create", "approve", "release", "replay", "publishTask"}}

Copies(t) == Cardinality({i \in DOMAIN tasksTopic : tasksTopic[i] = t})

\* The handlers add no repetition to the producer's: a task is on the topic no more
\* often than one message is sent for every release of its command, however the
\* releases overlap and whichever of their calls fail, are dropped or arrive late;
\* and nothing but a release publishes it at all.
SentOncePerRelease ==
  \A t \in Published : Copies(t) <= MaxSends * Cardinality(Releases(CommandOf(t)))

-----------------------------------------------------------------------------
(* What the documentation promises and the code does not keep.              *)

\* README.md and docs/architecture.md speak of idempotent tasks: a request
\* that repeats an idempotency key would not publish its tasks again.
OneReleasePerKey ==
  \A t, u \in Published :
    envelope[CommandOf(t)].key = envelope[CommandOf(u)].key => CommandOf(t) = CommandOf(u)

\* Postgres is the source of truth for approvals and command state: once no
\* request is being served, a command and its approval tell one story.
DecisionsAgree ==
  (\A h \in Handlers : pc[h] \in Ended) =>
    \A c \in Commands : approvals[c] = "rejected" => commands[c] = "rejected"

=============================================================================
