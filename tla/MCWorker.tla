------------------------------- MODULE MCWorker -------------------------------
(* Instances of Worker for TLC.                                             *)
EXTENDS Worker, MCTasks

CONSTANTS w1, w2, c1

TwoRegions == {"east", "west"}

SameRegion == [w \in Workers |-> "east"]
OwnRegion == w1 :> "east" @@ w2 :> "west"

NoTaskRegion == [t \in Task |-> NoRegion]

\* The second target of a command is spelled `second`, the last one `last`.
Unbans(second, last) ==
  [t \in Task |-> Client!ShapeOf(Unban(
     IF t[2] = 2 THEN second ELSE IF t[2] = MaxTargets THEN last ELSE "7"))]

AllSound == Unbans("7", "7")
OneMalformed == Unbans("x", "7")
LastZero == Unbans("7", "0")

Symmetry == Permutations(Workers)

AllStored == Task
FirstStored == {t \in Task : t[2] = 1}

=============================================================================
