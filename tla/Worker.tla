-------------------------------- MODULE Worker --------------------------------
(***************************************************************************)
(* The execution plane: the workers of services/worker as one consumer     *)
(* group over the partition of platform.tasks that holds the tasks of one  *)
(* guild, with the Postgres tables they write and the guild's lease.       *)
(*                                                                         *)
(* One action is one awaited call of handle_message.  Between any two of   *)
(* them other workers step, the process may die, or the partition may be   *)
(* given to another worker while this one still has a message in hand.     *)
(***************************************************************************)
EXTENDS PlatformStore, Functions

CONSTANTS
  Workers, NoWorker,
  Regions, NoRegion,
  RegionOf,        \* the REGION of each worker
  LeaseRegionOf,   \* lease_region of each task, NoRegion for null
  Shape,           \* what the ids of each task parse to
  StoredTasks,     \* tasks whose rows were stored before they were published
  MayFail,         \* whether calls to Postgres, Kafka and Redis may fail
  MaxLog,          \* bound on the messages published
  MaxAttempts,     \* bound on the calls to Discord: MaxLog * (MaxDisruptions + 1)
                   \* is never reached unless a task makes workers panic
  MaxDisruptions   \* bound on crashes and on rebalances away from a live worker

\* What becomes of a task's ids: preview_task refuses the guild or target id, or
\* panics in Id::new because it is 0; execute_task does the same with the ids in
\* task_context, and refuses an action it does not know.
Shapes == {"sound", "malformed", "zero", "badContext", "zeroContext"}

ASSUME WorkersAssumption == NoWorker \notin Workers /\ NoRegion \notin Regions
ASSUME RegionAssumption == /\ RegionOf \in [Workers -> Regions]
                           /\ LeaseRegionOf \in [Task -> Regions \cup {NoRegion}]
ASSUME TasksAssumption == Shape \in [Task -> Shapes] /\ StoredTasks \subseteq Task
ASSUME BoundsAssumption == /\ MayFail \in BOOLEAN
                           /\ MaxLog \in Nat /\ MaxAttempts \in Nat
                           /\ MaxDisruptions \in Nat

VARIABLES
  tasksTopic,    \* the partition: offset i is tasksTopic[i]
  tasks,         \* table tasks
  lease,         \* region of the guild's unexpired row in regional_execution_leases
  owner,         \* the worker the partition is assigned to
  position,      \* the last offset the owner was given
  committed,     \* the group's committed offset, as a number of messages
  inflight,      \* of each worker: the offsets of its commit requests on the wire
  pc, at,        \* of each worker: its next call, the offset in hand (0 for none)
  attempt,       \* of each worker: what the call in hand came to (0 for nothing yet)
  attempts,      \* history: what each finished call to Discord came to
  resultsTopic, auditTopic,                \* attempts published
  taskResults, auditEvents, observations,  \* attempts with a row in the table
  skipped,       \* history: offsets acknowledged because the lease was refused
  abandoned,     \* history: offsets handle_message returned an error for
  disruptions    \* crashes and rebalances so far

group == <<owner, position, committed>>
topics == <<resultsTopic, auditTopic>>
rows == <<taskResults, auditEvents, observations>>
evidence == <<topics, rows, tasks>>
history == <<skipped, abandoned>>
vars == <<tasksTopic, lease, group, inflight, pc, at, attempt, attempts, evidence,
          history, disruptions>>

\* A rate-limited call is one of the failed: the rows tell them apart no more
\* than next_retry_at does, which every failure sets.
Outcomes == {"success", "failed"}

\* The calls of handle_message once Discord has answered.
Reporting == {"penalize", "publishResult", "publishAudit", "storeResult",
              "updateTask", "storeAudit", "storeObservation"}

Busy == {"lease", "pace", "execute", "commit"} \cup Reporting

TypeOK ==
  /\ tasksTopic \in Seq(Task) /\ Len(tasksTopic) <= MaxLog
  /\ tasks \in [Task -> TaskRow]
  /\ lease \in Regions \cup {NoRegion}
  /\ owner \in Workers \cup {NoWorker}
  /\ position \in 0..Len(tasksTopic)
  /\ committed \in 0..Len(tasksTopic)
  /\ inflight \in [Workers -> SUBSET (1..Len(tasksTopic))]
  /\ pc \in [Workers -> Busy \cup {"recv", "down"}]
  /\ at \in [Workers -> 0..Len(tasksTopic)]
  /\ attempt \in [Workers -> 0..Len(attempts)]
  /\ attempts \in Seq([offset : 1..Len(tasksTopic), outcome : Outcomes])
  /\ resultsTopic \subseteq DOMAIN attempts /\ auditTopic \subseteq DOMAIN attempts
  /\ taskResults \subseteq DOMAIN attempts /\ auditEvents \subseteq DOMAIN attempts
  /\ observations \subseteq DOMAIN attempts
  /\ skipped \subseteq 1..Len(tasksTopic) /\ abandoned \subseteq 1..Len(tasksTopic)
  /\ disruptions \in 0..MaxDisruptions

\* A stored task as its release has left it.
QueuedRow == [status |-> "queued", attempts |-> 0, retryAt |-> FALSE]

Init ==
  /\ tasksTopic = <<>>
  /\ tasks = [t \in Task |-> IF t \in StoredTasks THEN QueuedRow ELSE NoTaskRow]
  /\ lease = NoRegion
  /\ owner = NoWorker
  /\ position = 0 /\ committed = 0
  /\ inflight = [w \in Workers |-> {}]
  /\ pc = [w \in Workers |-> "recv"]
  /\ at = [w \in Workers |-> 0]
  /\ attempt = [w \in Workers |-> 0]
  /\ attempts = <<>>
  /\ resultsTopic = {} /\ auditTopic = {}
  /\ taskResults = {} /\ auditEvents = {} /\ observations = {}
  /\ skipped = {} /\ abandoned = {}
  /\ disruptions = 0

-----------------------------------------------------------------------------
(* The topic, the consumer group and the clock, as the worker's use of      *)
(* librdkafka and Postgres meets them.                                      *)

\* The control plane publishes; a replay publishes a task again, and so does a
\* retry of the producer.
Publish ==
  /\ Len(tasksTopic) < MaxLog
  /\ \E t \in Task : tasksTopic' = Append(tasksTopic, t)
  /\ UNCHANGED <<lease, group, inflight, pc, at, attempt, attempts, evidence, history,
                 disruptions>>

\* Mutant of StartOffset: the consumer starts at the end of the partition.
LatestOffset == Len(tasksTopic)

\* The committed offset, and the earliest when there is none.
StartOffset == committed

\* The partition goes to a worker that polls.  The last owner may be alive and
\* busy: it has missed max.poll.interval.ms, or the group rebalances.
Assign(w) ==
  /\ pc[w] = "recv" /\ owner # w
  /\ \/ owner = NoWorker /\ UNCHANGED disruptions
     \/ owner # NoWorker /\ disruptions < MaxDisruptions /\ disruptions' = disruptions + 1
  /\ owner' = w
  /\ position' = StartOffset
  /\ UNCHANGED <<tasksTopic, lease, committed, inflight, pc, at, attempt, attempts,
                 evidence, history>>

\* CommitMode::Async: a request reaches the broker later, behind one sent after it,
\* or not at all, or the broker refuses it because the group has moved on.
CommitLands(w) ==
  /\ \E i \in inflight[w] :
       /\ committed' \in {committed, i}
       /\ inflight' = [inflight EXCEPT ![w] = @ \ {i}]
  /\ UNCHANGED <<tasksTopic, lease, owner, position, pc, at, attempt, attempts, evidence,
                 history, disruptions>>

\* Five minutes after it was last taken or renewed.
LeaseExpires ==
  /\ lease # NoRegion
  /\ lease' = NoRegion
  /\ UNCHANGED <<tasksTopic, group, inflight, pc, at, attempt, attempts, evidence, history,
                 disruptions>>

\* Worker w drops the message in hand.
LetGo(w, label) ==
  /\ pc' = [pc EXCEPT ![w] = label]
  /\ at' = [at EXCEPT ![w] = 0]
  /\ attempt' = [attempt EXCEPT ![w] = 0]

\* The process is gone.
Die(w) ==
  /\ LetGo(w, "down")
  /\ owner' = IF owner = w THEN NoWorker ELSE owner
  /\ inflight' = [inflight EXCEPT ![w] = {}]
  /\ UNCHANGED <<tasksTopic, lease, position, committed, attempts, evidence, history>>

Crash(w) ==
  /\ pc[w] # "down" /\ disruptions < MaxDisruptions
  /\ Die(w)
  /\ disruptions' = disruptions + 1

Restart(w) ==
  /\ pc[w] = "down"
  /\ pc' = [pc EXCEPT ![w] = "recv"]
  /\ UNCHANGED <<tasksTopic, lease, group, inflight, at, attempt, attempts, evidence,
                 history, disruptions>>

-----------------------------------------------------------------------------
(* How a call ends, as in CommandRelease; an error makes handle_message     *)
(* return, and the loop of main logs it and asks for the next message.      *)

Replies == {"ok"} \cup (IF MayFail THEN {"lost", "unacked"} ELSE {})

Record(set, w, r) == IF r = "lost" THEN set ELSE set \cup {attempt[w]}

\* Mutant of After: the error is logged and passed over.
Onward(w, r, label) ==
  /\ pc' = [pc EXCEPT ![w] = label]
  /\ UNCHANGED <<at, attempt, abandoned>>

After(w, r, label) ==
  \/ /\ r = "ok"
     /\ pc' = [pc EXCEPT ![w] = label]
     /\ UNCHANGED <<at, attempt, abandoned>>
  \/ /\ r # "ok"
     /\ LetGo(w, "recv")
     /\ abandoned' = abandoned \cup {at[w]}

TaskAt(w) == tasksTopic[at[w]]

\* What every call of handle_message leaves alone.
Fixed == <<tasksTopic, group, skipped, disruptions>>

-----------------------------------------------------------------------------
(* handle_message.                                                          *)

\* Mutant of Receive: the offset is committed before the task is handled.
ReceiveAndCommit(w) ==
  /\ pc[w] = "recv" /\ owner = w /\ position < Len(tasksTopic)
  /\ position' = position + 1
  /\ at' = [at EXCEPT ![w] = position + 1]
  /\ pc' = [pc EXCEPT ![w] = "lease"]
  /\ inflight' = [inflight EXCEPT ![w] = @ \cup {position + 1}]
  /\ UNCHANGED <<tasksTopic, lease, owner, committed, attempt, attempts, evidence,
                 history, disruptions>>

Receive(w) ==
  /\ pc[w] = "recv" /\ owner = w /\ position < Len(tasksTopic)
  /\ position' = position + 1
  /\ at' = [at EXCEPT ![w] = position + 1]
  /\ pc' = [pc EXCEPT ![w] = "lease"]
  /\ UNCHANGED <<tasksTopic, lease, owner, committed, inflight, attempt, attempts, evidence,
                 history, disruptions>>

\* The task's region if it names one, else the worker's own.
LeaseRegion(w) ==
  IF LeaseRegionOf[TaskAt(w)] = NoRegion THEN RegionOf[w] ELSE LeaseRegionOf[TaskAt(w)]

\* The upsert takes the row when it has expired or is of the same region.
AcquireLease(w) ==
  /\ pc[w] = "lease"
  /\ \E r \in Replies :
       /\ r # "lost" => lease \in {NoRegion, LeaseRegion(w)}
       /\ lease' = IF r = "lost" THEN lease ELSE LeaseRegion(w)
       /\ After(w, r, "pace")
  /\ UNCHANGED <<Fixed, inflight, attempts, evidence>>

\* Mutant of AckOffset: one past the message, which librdkafka adds itself.
AckNext(w) == at[w] + 1

AckOffset(w) == at[w]

\* Another region holds the lease: the message is acknowledged and dropped.
SkipTask(w) ==
  /\ pc[w] = "lease"
  /\ lease \notin {NoRegion, LeaseRegion(w)}
  /\ inflight' = [inflight EXCEPT ![w] = @ \cup {AckOffset(w)}]
  /\ skipped' = skipped \cup {at[w]}
  /\ LetGo(w, "recv")
  /\ UNCHANGED <<tasksTopic, lease, group, attempts, evidence, abandoned, disruptions>>

\* preview_task, then the wait for the route's bucket in Redis.
Pace(w) ==
  /\ pc[w] = "pace"
  /\ Shape[TaskAt(w)] # "zero"
  /\ \E r \in (IF Shape[TaskAt(w)] = "malformed" THEN {"lost"} ELSE Replies) :
       After(w, r, "execute")
  /\ UNCHANGED <<Fixed, lease, inflight, attempts, evidence>>

\* The panic of preview_task or of execute_task unwinds through main.
Panic(w) ==
  /\ \/ pc[w] = "pace" /\ Shape[TaskAt(w)] = "zero"
     \/ pc[w] = "execute" /\ Shape[TaskAt(w)] = "zeroContext"
  /\ Die(w)
  /\ UNCHANGED disruptions

\* A task that execute_task refuses fails without a call to Discord.
OutcomesOf(t) == IF Shape[t] = "badContext" THEN {"failed"} ELSE Outcomes

\* execute_task: an error is a failed result and not an error of the handler.
Execute(w) ==
  /\ pc[w] = "execute" /\ Len(attempts) < MaxAttempts
  /\ Shape[TaskAt(w)] # "zeroContext"
  /\ \E outcome \in OutcomesOf(TaskAt(w)) :
       /\ attempts' = Append(attempts, [offset |-> at[w], outcome |-> outcome])
       /\ pc' = [pc EXCEPT ![w] = IF outcome = "success" THEN "publishResult"
                                                         ELSE "penalize"]
  /\ attempt' = [attempt EXCEPT ![w] = Len(attempts) + 1]
  /\ UNCHANGED <<Fixed, at, abandoned, lease, inflight, evidence>>

\* update_retry_after, for a rate limit and for any other failure.
Penalize(w) ==
  /\ pc[w] = "penalize"
  /\ \E r \in Replies : After(w, r, "publishResult")
  /\ UNCHANGED <<Fixed, lease, inflight, attempts, evidence>>

PublishResult(w) ==
  /\ pc[w] = "publishResult"
  /\ \E r \in Replies :
       After(w, r, "publishAudit") /\ resultsTopic' = Record(resultsTopic, w, r)
  /\ UNCHANGED <<Fixed, lease, inflight, attempts, auditTopic, rows, tasks>>

PublishAudit(w) ==
  /\ pc[w] = "publishAudit"
  /\ \E r \in Replies :
       After(w, r, "storeResult") /\ auditTopic' = Record(auditTopic, w, r)
  /\ UNCHANGED <<Fixed, lease, inflight, attempts, resultsTopic, rows, tasks>>

\* The first statement of record_task_result; task_results refers to tasks.
StoreResult(w) ==
  /\ pc[w] = "storeResult"
  /\ \E r \in (IF tasks[TaskAt(w)].status = "absent" THEN {"lost"} ELSE Replies) :
       After(w, r, "updateTask") /\ taskResults' = Record(taskResults, w, r)
  /\ UNCHANGED <<Fixed, lease, inflight, attempts, topics, auditEvents,
                 observations, tasks>>

\* The second.
UpdateTask(w) ==
  /\ pc[w] = "updateTask"
  /\ \E r \in Replies :
       /\ After(w, r, "storeAudit")
       /\ tasks' = IF r = "lost" THEN tasks
                   ELSE UpdateTaskOutcome(tasks, TaskAt(w), attempts[attempt[w]].outcome)
  /\ UNCHANGED <<Fixed, lease, inflight, attempts, topics, rows>>

StoreAudit(w) ==
  /\ pc[w] = "storeAudit"
  /\ \E r \in Replies :
       After(w, r, "storeObservation") /\ auditEvents' = Record(auditEvents, w, r)
  /\ UNCHANGED <<Fixed, lease, inflight, attempts, topics, taskResults,
                 observations, tasks>>

StoreObservation(w) ==
  /\ pc[w] = "storeObservation"
  /\ \E r \in Replies :
       After(w, r, "commit") /\ observations' = Record(observations, w, r)
  /\ UNCHANGED <<Fixed, lease, inflight, attempts, topics, taskResults,
                 auditEvents, tasks>>

\* A commit acknowledges every message up to its own.
Commit(w) ==
  /\ pc[w] = "commit"
  /\ inflight' = [inflight EXCEPT ![w] = @ \cup {AckOffset(w)}]
  /\ LetGo(w, "recv")
  /\ UNCHANGED <<Fixed, abandoned, lease, attempts, evidence>>

-----------------------------------------------------------------------------

HandleMessage(w) ==
  \/ AcquireLease(w) \/ SkipTask(w) \/ Pace(w) \/ Panic(w) \/ Execute(w) \/ Penalize(w)
  \/ PublishResult(w) \/ PublishAudit(w) \/ StoreResult(w) \/ UpdateTask(w)
  \/ StoreAudit(w) \/ StoreObservation(w) \/ Commit(w)

Next ==
  \/ Publish \/ LeaseExpires
  \/ \E w \in Workers : \/ Assign(w) \/ CommitLands(w) \/ Crash(w) \/ Restart(w)
                        \/ Receive(w) \/ HandleMessage(w)

Spec == Init /\ [][Next]_vars

Failover == owner = NoWorker /\ \E w \in Workers : Assign(w)

\* A worker runs on while it lives, the orchestrator restarts it when it does
\* not, and the group gives a partition without an owner to a member.
FairSpec ==
  /\ Spec
  /\ WF_vars(Failover)
  /\ \A w \in Workers : WF_vars(Receive(w) \/ HandleMessage(w)) /\ WF_vars(Restart(w))

-----------------------------------------------------------------------------
(* What the execution plane keeps true.                                     *)

Handled(i) ==
  \/ i \in skipped \cup abandoned
  \/ \E k \in observations : attempts[k].offset = i

\* The worker implements the task log: an offset is acknowledged only when all
\* up to it have been recorded, refused or given up, across crashes, rebalances
\* to a second worker while the first still works, and late commits.
AbstractLog == INSTANCE TaskLog WITH
  Entry <- Task, log <- tasksTopic,
  handled <- {i \in 1..Len(tasksTopic) : Handled(i)}

ImplementsTaskLog == AbstractLog!Spec

\* Discord is never asked to act on a message before every earlier message of
\* the guild has been dealt with, whichever worker had it.
ExecutedInOrder ==
  \A k \in DOMAIN attempts : \A i \in 1..(attempts[k].offset - 1) : Handled(i)

\* The rows of an attempt are never ahead of one another or of the topics: an
\* observation has its audit row, that its result row, and that the audit and
\* result messages, for each attempt of any worker, whichever call of it fails or
\* is the last before a crash.
EvidenceChain ==
  /\ observations \subseteq auditEvents
  /\ auditEvents \subseteq taskResults
  /\ taskResults \subseteq auditTopic
  /\ auditTopic \subseteq resultsTopic

ResultsOf(t) == {k \in taskResults : tasksTopic[attempts[k].offset] = t}

\* The status and the count of a task row always have results to show for
\* them, although result and row are written by two statements and a task can
\* be in the hands of two workers.
RowIsBacked ==
  \A t \in Task :
    /\ tasks[t].status = "completed" =>
         \E k \in ResultsOf(t) : attempts[k].outcome = "success"
    /\ tasks[t].status = "failed" =>
         \E k \in ResultsOf(t) : attempts[k].outcome # "success"
    /\ tasks[t].attempts <= Cardinality(ResultsOf(t))

\* Every message published is dealt with in the end, that is recorded, skipped or
\* given up: neither a crash nor a rebalance between any two calls, nor a commit
\* that runs ahead of a message in hand, leaves it to no one.
EveryTaskHandled ==
  \A i \in 1..MaxLog : i <= Len(tasksTopic) ~> Handled(i)

-----------------------------------------------------------------------------
(* What the documentation promises and the code does not keep.              *)

\* "Acknowledge tasks only after result persistence and audit emission."
AckOnlyAfterRecord ==
  \A i \in 1..committed : i \notin skipped =>
    \E k \in taskResults \cap auditTopic : attempts[k].offset = i

=============================================================================
