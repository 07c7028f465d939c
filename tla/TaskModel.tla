------------------------------ MODULE TaskModel ------------------------------
(***************************************************************************)
(* The identities of libs/task-model: commands, the tasks a command is     *)
(* expanded into, and the expansion itself.                                *)
(***************************************************************************)
EXTENDS Naturals, Sequences

CONSTANTS
  Commands,     \* command ids; Uuid::new_v4 never repeats one
  Targets,      \* the strings of payload.targets
  MaxTargets    \* bound on the length of payload.targets

ASSUME MaxTargetsAssumption == MaxTargets \in Nat

\* A task has the id of its command and its place in the target list: every
\* entry of the list gets a Uuid of its own, a repeated target included.
Task == Commands \X (1..MaxTargets)

CommandOf(t) == t[1]

\* The target lists a request may carry.
TargetLists == UNION {[1..n -> Targets] : n \in 0..MaxTargets}

\* plan_tasks: one task per target, in the order of the list.
PlanTasks(c, targets) == [i \in 1..Len(targets) |-> <<c, i>>]

=============================================================================
