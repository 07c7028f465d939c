------------------------------- MODULE MCPacing -------------------------------
(* Instances of Pacing for TLC.                                             *)
EXTENDS Pacing, MCTasks

OneRoute == {Unban("7")}
\* The second task lacks the role and is refused by execute_task.
OneRefused == {Unban("7"), RemoveRole(NoId)}

=============================================================================
