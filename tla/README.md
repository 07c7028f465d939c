# Verification of the Unbanall platform

TLA+ models, TLC checks and TLAPS proofs for the Rust workspace in `src/`: the
task platform that turns moderation commands into Discord calls through Kafka,
Postgres and Redis.

## 1. The system

| component | state it keeps | operations | talks to |
| --- | --- | --- | --- |
| `services/api-gateway` | none of its own | create command; approve, reject, delete approval; reads | Postgres through `platform-store`, Kafka producer |
| `services/queue-service` | none of its own | release and replay a stored command; publish a command or a task given in the body | Postgres, Kafka producer |
| `services/worker` | the message in hand; lease region | receive, lease, pace, execute, report, commit | Kafka consumer and producer, Redis, Discord, Postgres |
| `libs/platform-store` | tables `commands`, `approvals`, `tasks`, `task_results`, `audit_events`, `route_ratelimit_observations`, `regional_execution_leases` | one statement per method, two in `approve_command`, `reject_command` and `record_task_result`, one per task in `store_planned_tasks` | |
| `libs/kafka-runtime` | topics and the group's committed offset | `publish_json` (5 s timeout), consumer without auto-commit, `commit_message` (asynchronous) | |
| `libs/task-model` | | `plan_tasks`, `target_count`, the envelopes | |
| `libs/rate-limit` | hash per route in Redis: `remaining`, `reset_at_ms` and a time to live | `acquire`, `update_retry_after` | |
| `libs/discord-client` | | parse ids, preview, execute, classify errors | |
| `libs/auth` | | JWT and the role rules; decides `approval_required` | |
| `task-controller`, `task-planner`, `audit-service`, `cache-service`, `rate-limit-service`, `shard-manager`, `metrics-service`, `libs/telemetry` | none | wrap `plan_tasks`, format key names, report constants, log | |

A command is created at the gateway, written to Postgres, expanded into one
task per target and *released*: the command goes to `platform.commands`, its
tasks to `platform.tasks` under the guild's id as key, and the rows are marked
`queued`. A command that needs approval waits for `approve_approval`, which
loads it from the tables and releases it. The queue-service releases or replays
a stored command on request. The workers are one consumer group; each message
is one task, handled from lease to commit before the next one is received.

**What is hard here.** Every handler is a chain of awaited calls on shared
tables and topics, with no transaction around two of them, two replicas of each
service and three of the worker (`infra/kubernetes/deployments.yaml`). So:
decisions that overlap, releases that overlap, calls that fail halfway, a
delivery that is reported as failed and took effect, a producer that sends a
message again by itself, a request whose client goes away, a worker that dies or
loses its partition between the call to Discord and the commit, commits that
arrive late, a lease that is checked once. `PROJECT.json` lists these hazards
with their lines.

**What makes each part correct.**

* control plane: nothing that needs approval is published before it was
  approved; stored statuses do not run ahead of the topic; the handlers publish a
  task once for a release, whatever the producer adds; what was accepted is released;
* execution plane: messages are dealt with in order and acknowledged only when
  they have been; the records of an attempt keep their order; a task row is
  backed by results; every message is dealt with in the end;
* both together: Discord acts for cleared commands only, what the tables show of a
  task is an answer Discord gave, what is accepted is executed;
* rate limit: waits do not add up, a window has a bounded number of calls,
  penalties are served;
* authorization: a bulk destructive action is released on the word of someone who
  may answer for it, tenants stay apart, approvals name who decided them.

## 2. The modules

| module | what it models |
| --- | --- |
| `TaskModel` | command ids, tasks, `plan_tasks` |
| `PlatformStore` | the SQL statements as operators from table to table, with the unique and foreign keys |
| `CommandRelease` | the control plane: the handlers of api-gateway and queue-service |
| `Worker` | the execution plane: the consumer group on the partition of one guild |
| `TaskLog` | the abstract specification the worker implements |
| `Platform` | control plane and workers composed over one topic and one table of tasks |
| `Moderation` | the abstract specification the platform implements |
| `Discord` | `discord-client` as operators: ids, routes, what `execute_task` refuses |
| `Pacing` | `rate-limit` and the worker's use of it: the buckets in Redis, with explicit time |
| `Authorization` | `auth`, `target_count` and the handlers' use of the rules |
| `MCCommandRelease`, `MCWorker`, `MCPlatform`, `MCPacing`, `MCAuthorization`, `MCTasks` | definitions for the TLC instances; `MCTasks` holds sample tasks |
| `CommandReleaseProofs`, `ReleaseCountProofs`, `WorkerProofs`, `RowProofs`, `PlatformProofs`, `PacingProofs`, `OneWorkerProofs`, `AuthorizationProofs` | theorems and proofs |

### CommandRelease

`Handlers` is a set of requests. Each has an operation `op`, a command `cmd`,
the list `todo` of tasks it still has to store or publish, and `pc`, the name
of its next awaited call. One action is one such call, so handlers interleave
at every `await`. The server drops a request whose client goes away, at whichever
call it waits for, and so does the end of the process (`Drop`).

| action | code |
| --- | --- |
| `Create` | `create_command` up to its first call: new id, envelope, `plan_tasks` |
| `RecordCommand`, `StoreTask`, `FinishStore`, `CreateApproval` | the three calls on the store, whose errors are logged and passed over |
| `Serve`, `GetApproval`, `Decide`, `DecideStatus`, `Reread` | `approve_approval` and `reject_approval` with `approve_command` and `reject_command` of the store, one action per statement |
| `RemoveApproval` | `delete_approval` |
| `LoadTasks` | `fetch_command` and `list_tasks_for_command` |
| `PublishCommand`, `PublishTask`, `MarkQueued`, `SetStatus` | `release_command` of the gateway and `release_from_store`, which make the same calls |
| `PublishRaw` | `publish_command`, `publish_task` of the queue-service |
| `Drop`, `Land` | the server gives a request up; a message arrives that the producer has sent again, or for a call that is over |

A call ends in one of three ways (`Replies`): applied and acknowledged, lost, or
applied although the caller sees an error. A publication is more than that:
`create_producer` leaves the retries of librdkafka on and `enable.idempotence` off,
so one `publish_json` may send its message several times, and each of them may be
appended, now or later, whatever the caller is told. `wire` counts the times that may
still arrive, for each request and task: `MaxSends` after an error, one less after an
acknowledgement, which comes with the first. `MaxSends` stands for what
`message.timeout.ms` leaves room for. The tables are functions from ids to
a status (`"absent"` for no row), `tasksTopic` is the sequence of published
tasks. `approvalRequired` is chosen freely at creation: it stands for every
outcome of `authorize_command` (which `Authorization` models). Callers name only commands they can know
(`Known`): created and answered, listed as approvals, or seen on the topic.
`everApproved` is a history variable.

### Worker

All tasks of a guild have one key, so one partition: the model is the group on
that partition. `tasksTopic` is its log, `owner`, `position` and `committed` are
the group's state, `inflight[w]` are the commits a worker has sent and the broker
has not processed, in any order. A worker has `pc`, the offset `at` of the message in hand and
the number `attempt` of its call to Discord. `attempts` is the history of those
calls; the result and audit topics and the three tables of records are sets of
attempt numbers.

| action | code or environment |
| --- | --- |
| `Receive` | `consumer.recv()` |
| `AcquireLease`, `SkipTask` | `acquire_execution_lease`, and the commit of a refused task |
| `Pace`, `Panic` | `preview_task` and the wait for the bucket; `Id::new(0)` in `preview_task` or `execute_task` |
| `Execute` | `execute_task`, which gives a task with bad ids in its context, or an unknown action, a failed result without a call |
| `Penalize` | `update_retry_after` |
| `PublishResult`, `PublishAudit`, `StoreResult`, `UpdateTask`, `StoreAudit`, `StoreObservation`, `Commit` | the rest of `handle_message` in its order |
| `Publish`, `Assign`, `CommitLands`, `LeaseExpires`, `Crash`, `Restart` | the topic, the consumer group, the clock and the orchestrator |

An error at any call ends `handle_message`; the message is dropped, not
committed, and the loop asks for the next one (`After`). A commit names an
offset and is cumulative. `Assign` may take the partition from a live, busy
worker, which goes on with its message: that is `max.poll.interval.ms` or a
rebalance. `Handled(i)` says that offset `i` has been *recorded* (its
observation, the last record, is stored), *skipped* (lease refused) or
*abandoned* (an error).

`TaskLog` is the promise: entries are published, dealt with in order, and the
acknowledged offset covers only entries dealt with. It may fall back, when a late
commit lands. The refinement maps `handled` to the offsets with `Handled`.

What the ids of a task come to is its `Shape`; the instances take it from
`Discord!ShapeOf` applied to sample tasks.

The deployments modelled have a database, Redis and Kafka configured. Without
`DATABASE_URL` the gateway only publishes and approvals answer 503; without
`REDIS_URL` `Pace` and `Penalize` never fail.

### Platform

`Platform` EXTENDS `CommandRelease` and INSTANCEs `Worker` as `Plane` over the same
`tasks` and `tasksTopic`. A step is a call of a handler (`ControlStep`) or a step of
the plane (`PlaneStep`); `Worker!Publish`, which stood for the control plane, has no
part in it. So `mark_tasks_queued` of a release and `record_task_result` of its
tasks interleave as they do in the code.

`Moderation` says what the platform promises as a whole, in three variables: the
commands cleared, the answers there are of each task, and the outcome the tables
show. Its `Release` lets a release hide the outcomes of its command: that is what
the code does, and `RecordedIsShown` says what it costs.

### Discord

Ids are spellings with a value (`ValueOf`): a number, `"zero"` on which `Id::new`
panics, `"bad"` for what does not parse. `Route` is the route of `preview_task`, in
which ids of `task_context` stay as they are spelled; `Resource` is what the request
of `execute_task` names; `ExecuteVerdict` is what it refuses before it calls.

### Pacing

| action | code |
| --- | --- |
| `Begin` | `acquire` reads the clock, before it is connected |
| `ReadRemaining`, `ReadReset` | its two `hget` |
| `Write` | the computation and `hset_multiple` |
| `Expire` | `expire`, of the window |
| `Succeed`, `Falter`, `Refuse` | `is_available` or the sleep, `execute_task` and its answer |
| `Penalize`, `ExpirePenalty` | `hset_multiple` and `expire` of `update_retry_after`, which has read the clock (`called`) as soon as the answer was there |
| `Fail`, `Disrupt`, `Tick` | an error of Redis, the end of a worker, the clock |

A hash in Redis is its two fields and the time it expires; `Hash` reads it at a
time. Time passes between any two commands. The unit of the clock is half a second
in the instances, so that a penalty can be shorter than a window, or longer by a
part of a second. `recent` and `owed` are history: of the last three calls at a route,
when `acquire` was asked for each and when it was made, and until when the last
penalty stored there is served. An answer is recorded when it comes, which is the
latest the call can have been made; a call may be made by a worker that dies before
the answer.

### Authorization

One action is one request, from its claims to its last change. Requests do not
interleave here: that is `CommandRelease`'s subject, and no rule reads what another
request changes but an approval's tenant, which never changes. Claims are what
`validate_token` makes of a token; whether it has ended is left out, since a handler
checks it once and then awaits the store and Kafka. A list of targets is a sequence of Booleans, TRUE for a
string: `target_count` counts them all, `plan_tasks` the strings. `granted` and
`trail` are history.

## 3. The runs

| run | checks | instance |
| --- | --- | --- |
| `MCCommands` | `TypeOK`, `ApprovalPrecedesRelease`, `SentOncePerRelease` | 3 requests of all operations, 2 commands, 2 keys, 1 target, a message sent up to twice, failing calls, dropped requests |
| `MCRelease` | `QueuedMeansPublished` | 3 requests of all operations, 1 command, up to 2 targets of 2, failing calls, dropped requests |
| `MCWorker` | `TypeOK`, `EvidenceChain`, `ExecutedInOrder`, `RowIsBacked`, `ImplementsTaskLog` | 2 workers of 2 regions, 2 messages out of a sound, an unstored and a poison task, 1 crash or rebalance and any number of panics, at most 3 calls to Discord |
| `MCHandling` | `EveryTaskHandled` | 2 workers, 2 messages out of a sound and a malformed task, 1 crash or rebalance |
| `MCPlatform` | `PlatformTypeOK`, `KeepsPromise`, `AcceptedIsExecuted` | 3 create, approve or reject requests, 1 command of up to 2 targets of one kind, 1 worker, dropped requests, no failing calls |
| `MCPacing` | `TypeOK`, `WaitBounded`, `ThreePerWindow`, `PenaltyServed` | 1 worker, 2 routes, one of a task that is refused, penalties of nothing, a second and 2.5 seconds, 2 seconds, failing commands, 1 death or lost reply |
| `MCAuthorization` | `TypeOK`, `BulkIsVouched`, `TenantsApart`, `NamesAreTrue` | claims of 6 kinds, 2 tenants and 4 subjects, 1 command, a destructive and another action, lists around a threshold of 1 |
| `MCDuplicateKey` | `OneReleasePerKey` violated | 2 creations of one key |
| `MCDecisionRace` | `DecisionsAgree` violated | a creation, an approval and a rejection |
| `MCAckWithoutRecord` | `AckOnlyAfterRecord` violated | 1 worker, 2 messages, failing calls |
| `MCOverwrite` | `RecordedIsShown` violated | 1 creation, 1 task, 1 worker, no failures at all |
| `MCPenalty` | `PenaltyKept` violated | 1 worker, 1 route, a penalty of 2 seconds, 1 death |

The violated properties are sentences of the documentation that the code does
not keep; `PROJECT.json` quotes them under `findings`.

**Why the bounds are enough.** Three requests are the creation of a command and
two that race over it, which is what every interleaving hazard of the control
plane needs; a fourth adds nothing that the tables could tell from one of the
three having finished earlier. Two commands are needed only where a key is
shared. Two targets make a release that stops halfway and a list with a repeated
target; only `MCRelease` and, with a repeated one, `MCPlatform` have them, since two
commands, two targets and resent messages together are more than TLC can search. For the worker, two messages are needed for a cumulative commit, two
workers for a handover, one disruption for a redelivery. Two messages and
one disruption give at most four calls to Discord unless a task makes workers
panic: `MCHandling` allows all four, `MCWorker`, where a poison task makes messages
come again without end, cuts its behaviours at three. No call fails in `MCWorker`: what
breaks the chain of records there is a crash, or the foreign key of a task that was
never stored. That `EvidenceChain` holds whatever calls fail is what `EvidenceIsChained`
proves.

`MaxSends` is 2 in `MCCommands`, so that copies of one message arrive before and after
others; elsewhere it is 1, which leaves the message of a call that failed to arrive
late. `MayDrop` is FALSE only in the runs that expect a violation, whose
counterexamples need no dropped request. `MCPlatform` needs a creator and two
deciders, and one worker: what two workers do to each other does not depend on who
published the task. Its second target repeats the first, so that the second task
of a list is published without a row; a task that is refused in front of a sound one
is `MCHandling`'s. Four
units of time hold
two windows, a penalty and its expiry; `PenaltyKept` is violated in them. Half a second is
the coarsest unit in which rounding to seconds loses something. A second worker at a
route adds nothing to `ThreePerWindow` and `PenaltyServed`, which assume one. For
`WaitBounded` it would matter, since it writes between the reads and the writes of the
first, but two workers with time, penalties and the history of their calls are more
than TLC can search beside the rest: `WaitIsBounded` proves it of any number of them.
`MCAuthorization` has one command, since its rules read nothing of another one,
and claims of each kind the rules tell apart; `RolesOnlyHelp` is proved of all claims.

What the proofs establish holds without any of these bounds.

No run checks for deadlock: requests come to an end, and the log is bounded.

**Fairness.** In
`Worker!FairSpec` a live worker keeps running (the loop of `main`), a dead one is
restarted (a Kubernetes Deployment), and a partition without an owner is given to
a member (the group protocol). `Platform!PlatformFairSpec` adds that a request in
progress is polled until it returns, as the tokio runtime does, or until the server
drops it: `Drop` is enabled all the time and ends the request, so that fairness asks
nothing of it any more. No request need arrive. No fairness is assumed of commits, of the lease's
expiry or of any particular outcome, and none of publication. Each conjunct is on
a whole worker or request: strong fairness is nowhere needed.

**What the models show beyond the findings.**

* `ApprovalPrecedesRelease` excepts what an operator asks queue-service for
  (`AskedFor`), since it does not hold of that: `release_from_store` looks
  at neither the approval nor the command's status, and `publish_task` not at the
  store at all. `Moderation` counts an operator's release as clearance, too.
* `EveryTaskHandled` counts a message that ended in an error as handled: nobody
  tries it again (`next_retry_at` is written and never read), and a command whose
  release stopped halfway is left to whoever asks for `release` or `replay`.
* `EveryTaskHandled` does not hold of a partition with a poison task, one whose
  guild or target is 0: `Id::new` panics, the worker ends before it commits, and the
  next worker receives the same message. Nothing publishes to `platform.dlq`.
* A task skipped because another region holds the guild's lease is acknowledged,
  and no worker of that region gets it: its row stays queued. The lease is taken in
  the name of the task's region if it has one, so workers of two regions can hold it
  at once; it is not checked again before the call.
* `AcceptedIsExecuted` promises a task that is dealt with, not one that succeeds, and
  nothing of a command whose request the server has dropped: no one takes up what that
  request has left, until an operator asks for `release` or `replay`.
* `SentOncePerRelease` bounds what the handlers do. How often a task is on the topic
  is the producer's choice too: without idempotence it may be there once for every
  time it is sent, and the worker, which looks a task up nowhere, acts on each of them.
* A token is checked when a request comes; nothing bounds how long the request then
  takes.
* `ThreePerWindow` says three, although `acquire` is asked for one permit. The window
  is counted from the clock as `acquire` reads it, and the call comes later, so that
  the next request may find the window over just after the call; a worker that finds
  the bucket empty waits for the reset and calls without taking a permit; and the
  request after that finds the bucket full. With calls recorded at 1, 2 and 2, asked
  for at 0, 1 and 2, all three are within a window of two units. With more workers at a
  route, each adds its own: those that wait for one reset all call then.
* `PenaltyServed` assumes a worker that is alone and not disrupted, and a hash that
  is still there when `expire` finds it: between the two commands of
  `update_retry_after` an old time to live may end. Of two penalties for one route the
  one written last stays, also when it is the shorter. Served means up to the last full
  second: a penalty of 2.5 seconds may be forgotten after 2.
* The key in Redis is made of the route with its ids, while
  `docs/data-contracts.md:20` has one key per bucket of Discord; `rl:global` is read by
  no one. `RouteNamesResource` holds in one direction: an id in `task_context` that is
  spelled `"07"` gives another key for the same resource.
* `authorize_command` asks for approval above 100 targets, whatever the action;
  `README.md:25` reads as if `unban_all` always needed it.
* `dry_run` is stored and read by no one; every rate limit is recorded as global
  (`worker/src/main.rs:157` looks for a word all of them contain); audit rows of the
  worker name the tenant `default`.

## 4. What is proved

tlapm checks every proof from nothing. The theorems hold for all values of the
constants that satisfy the named assumptions of the modules. Every invariant and
every refinement that a passing run checks is among them; what the runs add are the
two liveness properties.

`CommandReleaseProofs`:

* `TypeCorrect`: `Spec => []TypeOK`;
* `QueuedIsPublished`: `Spec => []QueuedMeansPublished`;
* `ReleaseAwaitsApproval`: `Spec => []ApprovalPrecedesRelease`.

`QueuedMeansPublished` is not inductive: `mark_tasks_queued` marks all rows of
the command, while the handler knows only the tasks it published itself.
`IInv` adds what makes it so:

* `Minted`: whoever works on a command holds one that was created;
* `PlanKept`: the list of a handler that is storing or releasing holds tasks of
  its command;
* `CreatorAlone`: as long as a creation has not answered, no one else can name
  its command, so rows appear only before the first release;
* `ReleaseCovers`: a handler that is publishing has on its list every row of the
  command that is not on the topic yet.

For approvals the invariant is per handler (`DecisionSeen`): a handler at the
statements after its decision has made its command approved once, or the
approval row is gone, and then `Reread` stops it; a handler that publishes has a
command that was approved, needs no approval or was asked for by an operator. One
step per action shows that it is kept, whatever operations are served; `SeenStep`
carries it over for the handlers that do not move. `ReleaseAwaitsApproval` and
`PlatformProofs` read it off for the tasks on the topic.

`ReleaseCountProofs`, on top of `CommandReleaseProofs`:

* `PublishedOncePerRelease`: `Spec => []SentOncePerRelease`.

The property compares two cardinalities, and neither is inductive: a release
publishes its tasks one by one, and messages arrive when the requests that sent them
are long over. `CountInv` counts against the requests that are done with a task
(`Passed`), of which each has `MaxSends` messages to give: those that are still on the
wire and those that have landed (`Landed`). A call to `publish_json` takes the task
off a list that has no task twice (`Once`), so it adds the request to the passed
ones and at most one landed message; only a request that may release gets that far
(`Releaser`); and a message that arrives turns one on the wire into one that has
landed. Copies of a task on the topic are no more than the landed messages of that
task. The same count bounds the whole topic by the pairs of a request and a task it has
passed (`Spent`) times `MaxSends`, hence by requests times targets times `MaxSends`,
which the composition needs.

`WorkerProofs`:

* `WorkerTypeCorrect`: `Spec => []TypeOK`;
* `EvidenceIsChained`: `Spec => []EvidenceChain`;
* `DiscordInOrder`: `Spec => []ExecutedInOrder`;
* `WorkerImplementsTaskLog`: `Spec => ImplementsTaskLog`.

What a commit acknowledges is decided long before the broker processes it, by a
worker that may have lost the partition since. `IInv` therefore follows an
offset through every place it passes:

* `InHand`: a worker in `handle_message` holds an offset of the log and, once
  Discord has answered, its own attempt on that offset;
* `Reported`: a worker has stored or published what precedes its next call, so
  at `commit` the offset is recorded; with `EvidenceChain` these two are
  inductive by themselves;
* `Acked`: everything up to the committed offset, and up to each commit still on
  the wire, is handled;
* `InOrder`: everything before a message in hand is handled, also in the hands of
  a worker that is no longer the owner;
* `OwnerDone`: the owner has dealt with all it was given but for the message in
  hand, so the next one it receives is in order.

`OrderStep` shows the last three kept. It splits on the environment's actions,
where nothing becomes handled, and one call of `handle_message`, of which it
needs only `Effect`: the call handles at most the offset in hand, and lets go of
it only when it is handled or the process dies. The same fact, read through the
refinement mapping, makes the call a `Handle` of the task log or a stutter.

`RowProofs`, on top of `WorkerProofs`:

* `RowsAreBacked`: `Spec => []RowIsBacked`.

A row may count fewer attempts than have results, never more, but that is not
inductive: between the two statements of `record_task_result` a result is there that
its row has yet to count. `CountBacked` therefore compares the row with the results
that no worker is about to count (`Counted`), `OwnAttempt` says that two workers never
are about to count the same one, and `NotYet` that a result is stored once. Every
action but `UpdateTask` is `Quiet`: it writes no row and turns no counted result into
a pending one.

`PlatformProofs`, on top of `RowProofs` and `ReleaseCountProofs`:

* `PlatformTypeCorrect`: `PlatformSpec => []PlatformTypeOK`;
* `PlatformKeepsPromise`: `PlatformSpec => KeepsPromise`;
* `PartsTogether`: `PlatformSpec => []` of `QueuedMeansPublished`, `SentOncePerRelease`,
  `ExecutedInOrder`, `EvidenceChain` and `RowIsBacked`;
* `PlatformKeepsTaskLog`: `PlatformSpec => Plane!ImplementsTaskLog`.

`PlatformInv` is the conjunction of the invariants of the parts, and the work is to
show that a step of one plane keeps the invariant of the other although they write
the same rows. A request, or a message that arrives, fills the topic, a request writes
rows, and no step does both at once (`ControlEffect`): the first is `Worker!Publish`, the second sets statuses to
planned or queued and counts to 0 or what they were (`RowsReset`), so what is backed
stays backed. A worker writes rows in `UpdateTask` alone (`PlaneEffect`) and sets a
row that is there to completed or failed (`OutcomeKeepsControl`), so no row comes to
read queued. `Worker!Publish` stops at `MaxLog` messages; `MaxLogAssumption` puts
that where finitely many requests cannot get, by the count of
`ReleaseCountProofs`, so the bound constrains no behaviour. `SameActions` and
`SameStates` identify the two instances of `Worker`, that of `Platform` and that of
the proofs.

For the promise, a step of the platform is a step of `Moderation` or a stutter:
creating a command that needs no approval, approving one and an operator's request
are `Clear`; `mark_tasks_queued` is `Release`, of a command that `DecisionSeen` says is
cleared; the call to Discord is `Act`, of a task on the topic, whose command
`PublishedSeen` says is cleared; and `UpdateTask` is `Show`, of an answer that is
the worker's own attempt by `InHand`.

`PacingProofs`:

* `PacingTypeCorrect`: `Spec => []TypeOK`;
* `WaitIsBounded`: `Spec => []WaitBounded`;
* `RouteNamesResource`: tasks that are accepted and share a route name one resource.

`Paced` adds to the types that no worker's clock readings are ahead of the clock, and
that *every* reset is `Soon`, at most a window or a penalty away: those in Redis,
expired or not, and those in the hands of workers, who may write back what they read
long ago. A reset only comes from such a reading, or from a clock reading plus a window
or a penalty, and time only brings it closer.

`OneWorkerProofs`, on top of `PacingProofs`:

* `PenaltyIsServed`: `Spec => []PenaltyServed`;
* `AtMostThreePerWindow`: `Spec => []ThreePerWindow`.

Both say that a route is held back until a time t: the hash has no permit left, a
reset that is no earlier and a time to live that lasts until then (`HashHolds`), and
so has the bucket in the worker's hands (`WorkerHolds`). `AcquireHolds` carries that
through the reads and the first write of `acquire`. Then `expire` cuts the time to
live, and a penalty is on record with the worker alone: `Serving` lets go of the
hash at `call`, which is why the property assumes that the worker is not disrupted
there. `LivesLongEnough` is the arithmetic of the whole seconds.

For the window, the proof counts by when `acquire` was asked: two calls hold the next
one back until a window after the first of them was asked for, and the call before
that was made by then (`CallsPast`), which gives three. `HashHolds` until a window after
the first of two calls was asked for is not inductive: after one call there may be nothing to hold back, since the worker may
have waited for the reset and called. `Windowed` adds what the last call has settled
(`Settles`): the hash is gone, or gives no permit before its reset, which lies a window
after the call or is over already. A request that finds it over starts a window of its
own, with a reset a window after it asked; one that finds it not over waits, by the
last disjunct, for a window after the last call. So the hash holds back from the
last call on as soon as a third request has taken its bucket (`BucketTaken`).
Deaths and lost replies do no harm here, for the time to live that `expire` sets is a
window.

`AuthorizationProofs`:

* `RolesOnlyHelp`: a role or a scope more never costs its holder a right;
* `AuthorizationTypeCorrect`, `BulkAlwaysVouched`, `TenantsStayApart`,
  `NamesStayTrue`: `Spec => []` each of the properties of the run.

`Authorized` adds that everything released was *answered* for: created by claims
that needed no approval, or approved by one that may decide in its tenant.
`PlannedAreCounted`, that `plan_tasks` makes no more tasks than `target_count`
counts, leads from there to `BulkIsVouched`.

Only model-checked: the liveness properties `EveryTaskHandled` and
`AcceptedIsExecuted`, since the prover has no means for fairness. They rest on the
runs. The violated properties have their counterexamples.

## 5. Not modelled, and what is left

`audit-service`, `task-controller`, `task-planner`, `cache-service`,
`rate-limit-service`, `shard-manager`, `metrics-service` and `telemetry` keep no
state: they wrap `plan_tasks`, format key names, map shards to regions by remainder,
report constants and log. JWT decoding is the library's; the manifests under
`infra/kubernetes` have no behaviour beyond replicas and restarts. Deployments
without a database or without Redis are not modelled.

Left: a timed lease (`expires_at` against the wait before the call).
