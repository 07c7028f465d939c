------------------------------ MODULE Moderation ------------------------------
(***************************************************************************)
(* What the platform as a whole promises: Discord is asked to act only for *)
(* commands someone has cleared, and the outcome the tables show of a task *)
(* is one that Discord gave.                                               *)
(***************************************************************************)
CONSTANTS
  Command, Task, Outcome,
  CommandOfTask,     \* the command of each task
  None               \* the tables show no outcome

VARIABLES
  cleared,    \* the commands that may be executed
  answers,    \* <<t, outcome>>: what came of task t, possibly more than once
  shown       \* the outcome the tables show of each task

vars == <<cleared, answers, shown>>

Init ==
  /\ cleared = {}
  /\ answers = {}
  /\ shown = [t \in Task |-> None]

\* A command needs no approval, is approved, or is released by an operator.
Clear ==
  /\ \E c \in Command : cleared' = cleared \cup {c}
  /\ UNCHANGED <<answers, shown>>

Act ==
  /\ \E t \in Task, o \in Outcome :
       CommandOfTask[t] \in cleared /\ answers' = answers \cup {<<t, o>>}
  /\ UNCHANGED <<cleared, shown>>

Show ==
  /\ \E t \in Task, o \in Outcome :
       <<t, o>> \in answers /\ shown' = [shown EXCEPT ![t] = o]
  /\ UNCHANGED <<cleared, answers>>

\* A release shows all tasks of its command as queued.
Release ==
  /\ \E c \in cleared :
       shown' = [t \in Task |-> IF CommandOfTask[t] = c THEN None ELSE shown[t]]
  /\ UNCHANGED <<cleared, answers>>

Next == Clear \/ Act \/ Show \/ Release

Spec == Init /\ [][Next]_vars

=============================================================================
