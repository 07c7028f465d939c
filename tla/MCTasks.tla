-------------------------------- MODULE MCTasks --------------------------------
(* Tasks of Discord for the instances of Worker, Platform and Pacing: a few *)
(* spellings of ids, two of one id, and what the client makes of a task.    *)
EXTENDS TLC

Spellings == {"7", "07", "8", "0", "x"}
Values == [raw \in Spellings |->
             CASE raw = "07" -> "7" [] raw = "0" -> "zero" [] raw = "x" -> "bad"
               [] OTHER -> raw]
NoId == "null"

Client == INSTANCE Discord WITH RawIds <- Spellings, ValueOf <- Values, Missing <- NoId

Unban(target) == [type |-> "unban", guild |-> "7", target |-> target,
                  channel |-> NoId, role |-> NoId]
RemoveRole(role) == [type |-> "remove_member_role", guild |-> "7", target |-> "07",
                     channel |-> NoId, role |-> role]

=============================================================================
