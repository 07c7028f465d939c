-------------------------------- MODULE Discord --------------------------------
(***************************************************************************)
(* libs/discord-client without its HTTP: how the ids of a task parse, the  *)
(* route preview_task gives it, and what execute_task makes of it.         *)
(***************************************************************************)
EXTENDS Naturals, Sequences

CONSTANTS
  RawIds,       \* the spellings of ids in a task: strings, and in task_context numbers
  ValueOf,      \* what each parses to: a number, "zero", or "bad" for an error
  Missing       \* a task_context without the key, or with a null or a list under it

ASSUME RawIdsAssumption ==
  /\ Missing \notin RawIds /\ ValueOf \in [RawIds -> STRING]
  /\ "unknown" \in RawIds => ValueOf["unknown"] = "bad"

BanTypes == {"unban", "unban_all", "ban"}
RoleTypes == {"add_member_role", "remove_member_role"}
KnownTypes == BanTypes \cup RoleTypes \cup {"kick", "delete_message"}

\* The fields of a TaskEnvelope that the client reads.
DiscordTask == [type : KnownTypes \cup {"mute"}, guild : RawIds, target : RawIds,
                channel : RawIds \cup {Missing}, role : RawIds \cup {Missing}]

-----------------------------------------------------------------------------
(* Ids.  An error is returned with `?`; Id::new panics on 0.                *)

Verdict(raw) ==
  IF raw = Missing \/ ValueOf[raw] = "bad" THEN "error"
  ELSE IF ValueOf[raw] = "zero" THEN "panic" ELSE "ok"

\* The ids are parsed one after the other, and the first that fails decides.
Parse(raws) ==
  LET faults == {i \in DOMAIN raws : Verdict(raws[i]) # "ok"}
  IN  CASE faults = {} -> "ok"
        [] \E i \in faults : Verdict(raws[i]) = "panic" /\ \A j \in faults : i <= j -> "panic"
        [] OTHER -> "error"

-----------------------------------------------------------------------------
(* preview_task: the guild and the target must parse; ids of the context    *)
(* go into the route as they are spelled.                                   *)

PreviewVerdict(task) == Parse(<<task.guild, task.target>>)

\* id_value_as_string
Spelled(raw) == IF raw = Missing THEN "unknown" ELSE raw

Route(task) ==
  LET guild == ValueOf[task.guild]
      target == ValueOf[task.target]
  IN  CASE task.type \in BanTypes -> <<"guilds", guild, "bans", target>>
        [] task.type = "kick" -> <<"guilds", guild, "members", target>>
        [] task.type = "delete_message" ->
             <<"channels", Spelled(task.channel), "messages", task.target>>
        [] task.type \in RoleTypes ->
             <<"guilds", guild, "members", target, "roles", Spelled(task.role)>>
        [] OTHER -> <<"guilds", guild, "actions", task.type, target>>

-----------------------------------------------------------------------------
(* execute_task: the preview again, then the ids the action needs, and the  *)
(* request; an action it does not know is an error.                         *)

IdsNeeded(task) ==
  CASE task.type = "delete_message" -> <<task.channel, task.target>>
    [] task.type \in RoleTypes -> <<task.guild, task.target, task.role>>
    [] OTHER -> <<task.guild, task.target>>

ExecuteVerdict(task) ==
  IF PreviewVerdict(task) # "ok" THEN PreviewVerdict(task)
  ELSE IF task.type \in KnownTypes THEN Parse(IdsNeeded(task)) ELSE "error"

\* The resource the request names, whatever its method.
Resource(task) ==
  LET id == [i \in DOMAIN IdsNeeded(task) |-> ValueOf[IdsNeeded(task)[i]]]
  IN  CASE task.type \in BanTypes -> <<"guilds", id[1], "bans", id[2]>>
        [] task.type = "kick" -> <<"guilds", id[1], "members", id[2]>>
        [] task.type = "delete_message" -> <<"channels", id[1], "messages", id[2]>>
        [] task.type \in RoleTypes -> <<"guilds", id[1], "members", id[2], "roles", id[3]>>

\* What the worker meets with, as Worker!Shapes names it.
ShapeOf(task) ==
  CASE PreviewVerdict(task) = "error" -> "malformed"
    [] PreviewVerdict(task) = "panic" -> "zero"
    [] PreviewVerdict(task) = "ok" /\ ExecuteVerdict(task) = "error" -> "badContext"
    [] PreviewVerdict(task) = "ok" /\ ExecuteVerdict(task) = "panic" -> "zeroContext"
    [] OTHER -> "sound"

=============================================================================
