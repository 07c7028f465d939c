------------------------------ MODULE MCPlatform ------------------------------
(* Instances of Platform for TLC.                                           *)
EXTENDS Platform, MCTasks

OneRegion == {"east"}
SameRegion == [w \in Workers |-> "east"]
NoTaskRegion == [t \in Task |-> NoRegion]

AllSound == [t \in Task |-> Client!ShapeOf(Unban("7"))]
\* preview_task refuses the last target of a command.
LastMalformed ==
  [t \in Task |-> Client!ShapeOf(Unban(IF t[2] = MaxTargets THEN "x" ELSE "7"))]

DecisionOps == {"create", "approve", "reject"}

=============================================================================
