---------------------------- MODULE PlatformStore ----------------------------
(***************************************************************************)
(* The SQL statements of libs/platform-store over the tables of            *)
(* infra/postgres/migrations, each as an operator from the table it finds  *)
(* to the table it leaves.  Every statement is one implicit transaction;   *)
(* no method of the store groups two of them.                              *)
(***************************************************************************)
EXTENDS TaskModel, FiniteSets

CommandStatuses ==
  {"absent", "pending_approval", "accepted", "queued", "replayed", "rejected"}

ApprovalStatuses == {"absent", "pending", "approved", "rejected"}

TaskStatuses == {"absent", "planned", "queued", "completed", "failed"}

\* A row of table tasks; retryAt says that next_retry_at is not null.
TaskRow == [status: TaskStatuses, attempts: Nat, retryAt: BOOLEAN]

NoTaskRow == [status |-> "absent", attempts |-> 0, retryAt |-> FALSE]

PlannedRow == [status |-> "planned", attempts |-> 0, retryAt |-> FALSE]

-----------------------------------------------------------------------------
(* commands: the idempotency key is unique, and a conflict on it does       *)
(* nothing and is no error.                                                 *)

InsertCommand(commands, envelope, c) ==
  IF \E d \in Commands : commands[d] # "absent" /\ envelope[d].key = envelope[c].key
  THEN commands
  ELSE [commands EXCEPT ![c] = IF envelope[c].approvalRequired
                               THEN "pending_approval" ELSE "accepted"]

\* An update finds no row to change when the command was never stored.
UpdateCommandStatus(commands, c, status) ==
  IF commands[c] = "absent" THEN commands
                            ELSE [commands EXCEPT ![c] = status]

-----------------------------------------------------------------------------
(* approvals: keyed by command, which must exist.                           *)

UpsertApproval(approvals, c) == [approvals EXCEPT ![c] = "pending"]

UpdateApproval(approvals, c, status) ==
  IF approvals[c] = "absent" THEN approvals
                             ELSE [approvals EXCEPT ![c] = status]

DeleteApproval(approvals, c) == [approvals EXCEPT ![c] = "absent"]

-----------------------------------------------------------------------------
(* tasks: the idempotency key is the command's key, the command's id and    *)
(* the target, so that two rows of one command never share a target.        *)

TaskRows(tasks, c) == {t \in Task : CommandOf(t) = c /\ tasks[t].status # "absent"}

InsertTask(tasks, targets, t) ==
  IF \E u \in TaskRows(tasks, CommandOf(t)) : targets[u[2]] = targets[t[2]]
  THEN tasks
  ELSE [tasks EXCEPT ![t] = PlannedRow]

MarkTasksQueued(tasks, c) ==
  [t \in Task |-> IF t \in TaskRows(tasks, c)
                  THEN [status   |-> "queued",
                        attempts |-> tasks[t].attempts,
                        retryAt  |-> FALSE]
                  ELSE tasks[t]]

\* Mutant of UpdateTaskOutcome: an attempt counts as done whatever it came to.
CompleteAnyway(tasks, t, outcome) ==
  IF tasks[t].status = "absent" THEN tasks ELSE
  [tasks EXCEPT ![t] = [status   |-> "completed",
                        attempts |-> tasks[t].attempts + 1,
                        retryAt  |-> outcome # "success"]]

\* The second statement of record_task_result.
UpdateTaskOutcome(tasks, t, outcome) ==
  IF tasks[t].status = "absent" THEN tasks ELSE
  [tasks EXCEPT ![t] = [status   |-> IF outcome = "success" THEN "completed" ELSE "failed",
                        attempts |-> tasks[t].attempts + 1,
                        retryAt  |-> outcome # "success"]]

=============================================================================
