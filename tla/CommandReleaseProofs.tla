------------------------- MODULE CommandReleaseProofs -------------------------
(***************************************************************************)
(* What CommandRelease keeps true for every set of handlers, commands and  *)
(* targets, whichever operations are served and whatever calls fail.       *)
(***************************************************************************)
EXTENDS CommandRelease, SequenceTheorems, FiniteSetTheorems, TLAPS

-----------------------------------------------------------------------------
(* Lemmas about sequences, task lists and rows.                             *)

\* How the range of a sequence follows Append and Tail.
LEMMA SeqRange ==
  ASSUME NEW S, NEW s \in Seq(S)
  PROVE  /\ Range(s) \subseteq S
         /\ s = <<>> => Range(s) = {}
         /\ \A e \in S : Append(s, e) \in Seq(S) /\ Range(Append(s, e)) = Range(s) \cup {e}
         /\ s # <<>> => /\ Head(s) \in Range(s) /\ Tail(s) \in Seq(S)
                        /\ Range(s) = {Head(s)} \cup Range(Tail(s))
<1>1. Range(s) = {s[i] : i \in 1..Len(s)}
  BY DEF Range
<1>2. s = <<>> => Range(s) = {}
  BY <1>1
<1>3. ASSUME NEW e \in S
      PROVE  Append(s, e) \in Seq(S) /\ Range(Append(s, e)) = Range(s) \cup {e}
  <2>1. /\ Append(s, e) \in Seq(S) /\ Len(Append(s, e)) = Len(s) + 1
        /\ \A i \in 1..Len(s) : Append(s, e)[i] = s[i]
        /\ Append(s, e)[Len(s) + 1] = e
    OBVIOUS
  <2>2. 1..(Len(s) + 1) = 1..Len(s) \cup {Len(s) + 1}
    OBVIOUS
  <2>3. Range(Append(s, e)) = {Append(s, e)[i] : i \in 1..(Len(s) + 1)}
    BY <2>1 DEF Range
  <2> QED BY <1>1, <2>1, <2>2, <2>3
<1>4. ASSUME s # <<>>
      PROVE  /\ Head(s) \in Range(s) /\ Tail(s) \in Seq(S)
             /\ Range(s) = {Head(s)} \cup Range(Tail(s))
  <2>1. /\ Len(s) \in Nat /\ Len(s) # 0 /\ Head(s) = s[1]
        /\ Tail(s) \in Seq(S) /\ Len(Tail(s)) = Len(s) - 1
        /\ \A i \in 1..(Len(s) - 1) : Tail(s)[i] = s[i + 1]
    BY <1>4, HeadTailProperties
  <2>2. Range(Tail(s)) = {Tail(s)[i] : i \in 1..(Len(s) - 1)}
    <3>1. DOMAIN Tail(s) = 1..(Len(s) - 1)
      BY <2>1
    <3> QED BY <3>1 DEF Range
  <2>3. ASSUME NEW i \in 1..Len(s), i # 1 PROVE s[i] \in Range(Tail(s))
    <3>1. i - 1 \in 1..(Len(s) - 1) /\ Tail(s)[i - 1] = s[i]
      BY <2>1, <2>3
    <3> QED BY <2>2, <3>1
  <2>4. Range(Tail(s)) \subseteq Range(s)
    BY <1>1, <2>1, <2>2
  <2>5. 1 \in 1..Len(s)
    BY <2>1
  <2> QED BY <1>1, <2>1, <2>3, <2>4, <2>5
<1> QED BY <1>1, <1>2, <1>3, <1>4

\* plan_tasks yields tasks of its command, one for each place of the list.
LEMMA PlanRange ==
  ASSUME NEW c \in Commands, NEW targets \in TargetLists
  PROVE  /\ Len(targets) \in 0..MaxTargets
         /\ PlanTasks(c, targets) \in Seq(Task)
         /\ \A t \in Task : t \in Range(PlanTasks(c, targets))
                            <=> CommandOf(t) = c /\ t[2] <= Len(targets)
<1>1. PICK n \in 0..MaxTargets : targets \in [1..n -> Targets]
  BY DEF TargetLists
<1>2. n \in Nat /\ Len(targets) = n
  BY <1>1, MaxTargetsAssumption
<1>3. PlanTasks(c, targets) = [i \in 1..n |-> <<c, i>>]
  BY <1>2 DEF PlanTasks
<1>4. \A i \in 1..n : <<c, i>> \in Task
  BY <1>1, <1>2, MaxTargetsAssumption DEF Task
<1>5. PlanTasks(c, targets) \in Seq(Task)
  BY <1>2, <1>3, <1>4
<1>6. Range(PlanTasks(c, targets)) = {<<c, i>> : i \in 1..n}
  BY <1>3 DEF Range
<1>7. \A t \in Task : t = <<t[1], t[2]>> /\ t[2] \in 1..MaxTargets
  BY DEF Task
<1>8. ASSUME NEW t \in Task
      PROVE  t \in Range(PlanTasks(c, targets)) <=> CommandOf(t) = c /\ t[2] <= Len(targets)
  <2>1. ASSUME CommandOf(t) = c, t[2] <= Len(targets) PROVE t \in Range(PlanTasks(c, targets))
    <3>1. t[2] \in 1..n
      BY <1>2, <1>7, <2>1, MaxTargetsAssumption
    <3> QED BY <1>6, <1>7, <2>1, <3>1 DEF CommandOf
  <2> QED BY <1>2, <1>6, <2>1 DEF CommandOf
<1> QED BY <1>1, <1>2, <1>5, <1>8

\* A command has finitely many rows; any order of them lists exactly them.
LEMMA OrderRange ==
  ASSUME NEW c \in Commands, NEW list \in RowOrders(c)
  PROVE  list \in Seq(Task) /\ Range(list) = TaskRows(tasks, c)
<1> DEFINE places == {<<c, i>> : i \in 1..MaxTargets}
           rows == TaskRows(tasks, c)
<1>1. [i \in 1..MaxTargets |-> <<c, i>>] \in Surjection(1..MaxTargets, places)
  BY DEF Surjection
<1>2. IsFiniteSet(1..MaxTargets)
  BY FS_Interval, MaxTargetsAssumption
<1>3. IsFiniteSet(places)
  BY <1>1, <1>2, FS_Surjection
<1>4. rows \subseteq places
  BY DEF TaskRows, Task, CommandOf
<1>5. Cardinality(rows) \in Nat
  BY <1>3, <1>4, FS_Subset, FS_CardinalityType
<1>6. /\ list \in [1..Cardinality(rows) -> rows]
      /\ \A t \in rows : \E i \in 1..Cardinality(rows) : list[i] = t
  BY DEF RowOrders, Bijection, Injection, Surjection
<1>7. rows \subseteq Task
  BY DEF TaskRows
<1>8. list \in Seq(Task)
  BY <1>5, <1>6, <1>7
<1>9. Range(list) = rows
  BY <1>6 DEF Range
<1> QED BY <1>8, <1>9

\* How wire follows a message that is sent, and one that arrives.
LEMMA WireNext ==
  ASSUME wire \in [Handlers \X Task -> 0..MaxSends], NEW p \in Handlers \X Task, NEW n,
         n \in 0..MaxSends \/ (n = wire[p] - 1 /\ wire[p] > 0),
         wire' = [wire EXCEPT ![p] = n]
  PROVE  /\ wire' \in [Handlers \X Task -> 0..MaxSends] /\ wire'[p] = n
         /\ \A q \in Handlers \X Task : q # p => wire'[q] = wire[q]
<1>1. wire[p] \in 0..MaxSends /\ MaxSends \in Nat
  BY MaxSendsAssumption
<1>2. n \in 0..MaxSends
  BY <1>1
<1> QED BY <1>2

LEMMA SendsBounded == MaxSends \in 0..MaxSends /\ MaxSends - 1 \in 0..MaxSends
  BY MaxSendsAssumption

-----------------------------------------------------------------------------
(* The inductive invariant.                                                 *)

Storing == {"recordCommand", "storeTasks", "createApproval"}
Releasing == {"publishCommand", "publishTasks", "setStatus"}

\* A handler at work has a command; a command nobody minted has left no trace.
Minted ==
  /\ \A h \in Handlers :
       IF pc[h] = "idle" THEN cmd[h] = NoCommand /\ todo[h] = <<>>
                         ELSE cmd[h] \in Commands /\ envelope[cmd[h]] # NoEnvelope
  /\ \A c \in Commands : envelope[c] = NoEnvelope =>
       commands[c] = "absent" /\ approvals[c] = "absent" /\ c \notin commandsTopic

\* Rows and lists of tasks stay within the plan of their command.
Planned(t) ==
  /\ envelope[CommandOf(t)] # NoEnvelope
  /\ t[2] <= Len(envelope[CommandOf(t)].targets)

PlanKept ==
  /\ \A t \in Task : tasks[t].status # "absent" => Planned(t)
  /\ \A h \in Handlers : \A t \in Range(todo[h]) : CommandOf(t) = cmd[h] /\ Planned(t)

\* Until create_command releases or returns, nobody else knows its command.
CreatorAlone ==
  \A h \in Handlers : pc[h] \in Storing =>
    /\ op[h] = "create"
    /\ \A g \in Handlers : cmd[g] = cmd[h] => g = h
    /\ approvals[cmd[h]] = "absent"
    /\ cmd[h] \notin commandsTopic
    /\ commands[cmd[h]] \in {"absent", "pending_approval", "accepted"}

\* What a release has in hand and what is published cover the command's rows.
ReleaseCovers ==
  \A h \in Handlers :
    /\ pc[h] \in Releasing => TaskRows(tasks, cmd[h]) \subseteq Range(todo[h]) \cup Published
    /\ pc[h] = "setStatus" => todo[h] = <<>>

IInv ==
  TypeOK /\ Minted /\ PlanKept /\ CreatorAlone /\ ReleaseCovers /\ QueuedMeansPublished

-----------------------------------------------------------------------------
(* Steps of a handler that neither store nor release: it goes on to l.      *)

Elsewhere == Labels \ (Storing \cup Releasing \cup {"idle"})

LEMMA ElsewhereLabels ==
  ASSUME NEW r, NEW label \in Elsewhere
  PROVE  LabelAfter(r, label) \in Elsewhere
  BY DEF LabelAfter, Elsewhere, Labels, Storing, Releasing

\* No row of table approvals comes into being.
LEMMA ApprovalStep ==
  ASSUME IInv, NEW h \in Handlers, NEW l \in Elsewhere, pc[h] # "idle",
         pc' = [pc EXCEPT ![h] = l],
         approvals' \in [Commands -> ApprovalStatuses],
         \A c \in Commands : approvals[c] = "absent" => approvals'[c] = "absent",
         everApproved' \subseteq Commands,
         UNCHANGED <<envelope, commands, tasks, topics, request, todo>>
  PROVE  IInv'
<1> USE DEF IInv, TypeOK, topics, request, Elsewhere
<1>1. TypeOK'
  OBVIOUS
<1>2. Minted'
  BY DEF Minted
<1>3. PlanKept'
  BY DEF PlanKept, Planned
<1>4. CreatorAlone'
  BY DEF CreatorAlone, Minted, Storing
<1>5. ReleaseCovers'
  BY DEF ReleaseCovers, TaskRows, Published, Releasing
<1>6. QueuedMeansPublished'
  BY DEF QueuedMeansPublished, TaskRows, Published
<1> QED BY <1>1, <1>2, <1>3, <1>4, <1>5, <1>6

\* The status of the handler's own command changes.
LEMMA StatusStep ==
  ASSUME IInv, NEW h \in Handlers, NEW l \in Elsewhere,
         pc[h] \notin Storing \cup {"idle"},
         pc' = [pc EXCEPT ![h] = l],
         NEW status \in CommandStatuses,
         commands' \in {commands, UpdateCommandStatus(commands, cmd[h], status)},
         status \in {"queued", "replayed"} => TaskRows(tasks, cmd[h]) \subseteq Published,
         UNCHANGED <<envelope, approvals, tasks, topics, request, todo, everApproved>>
  PROVE  IInv'
<1> USE DEF IInv, TypeOK, topics, request, Elsewhere
<1>c. cmd[h] \in Commands
  BY DEF Minted
<1>0. /\ commands' \in [Commands -> CommandStatuses]
      /\ \A c \in Commands : c # cmd[h] => commands'[c] = commands[c]
      /\ commands[cmd[h]] = "absent" => commands'[cmd[h]] = "absent"
      /\ commands'[cmd[h]] \in {commands[cmd[h]], status}
  BY <1>c DEF UpdateCommandStatus
<1>1. TypeOK'
  BY <1>0
<1>2. Minted'
  BY <1>c, <1>0 DEF Minted
<1>3. PlanKept'
  BY DEF PlanKept, Planned
<1>4. CreatorAlone'
  BY <1>c, <1>0 DEF CreatorAlone, Minted, Storing
<1>5. ReleaseCovers'
  BY DEF ReleaseCovers, TaskRows, Published, Releasing
<1>6. QueuedMeansPublished'
  BY <1>c, <1>0 DEF QueuedMeansPublished, TaskRows, Published
<1> QED BY <1>1, <1>2, <1>3, <1>4, <1>5, <1>6

LEMMA DecisionSteps ==
  ASSUME IInv, NEW h \in Handlers,
         GetApproval(h) \/ Decide(h) \/ DecideStatus(h) \/ Reread(h) \/ RemoveApproval(h)
  PROVE  IInv'
<1> USE DEF tables
<1>l. {"done", "deleteApproval", "decide", "decideStatus", "reread", "load"} \subseteq Elsewhere
  BY DEF Elsewhere, Labels, Storing, Releasing
<1>t. approvals \in [Commands -> ApprovalStatuses] /\ everApproved \subseteq Commands
  BY DEF IInv, TypeOK
<1>1. CASE GetApproval(h)
  <2>1. PICK r \in Replies :
          Goto(h, IF approvals[cmd[h]] = "absent" THEN "done"
                  ELSE LabelAfter(r, IF op[h] = "delete" THEN "deleteApproval" ELSE "decide"))
    BY <1>1 DEF GetApproval
  <2>2. PICK l \in Elsewhere : pc' = [pc EXCEPT ![h] = l]
    BY <1>l, <2>1, ElsewhereLabels DEF Goto
  <2> QED BY <1>1, <1>t, <2>2, ApprovalStep DEF GetApproval
<1>2. CASE Decide(h)
  <2>1. PICK r \in Replies :
          /\ approvals' = IF Applied(r)
                          THEN UpdateApproval(approvals, cmd[h],
                                 IF op[h] = "approve" THEN "approved" ELSE "rejected")
                          ELSE approvals
          /\ Goto(h, LabelAfter(r, "decideStatus"))
    BY <1>2 DEF Decide
  <2>2. PICK l \in Elsewhere : pc' = [pc EXCEPT ![h] = l]
    BY <1>l, <2>1, ElsewhereLabels DEF Goto
  <2>3. /\ approvals' \in [Commands -> ApprovalStatuses]
        /\ \A c \in Commands : approvals[c] = "absent" => approvals'[c] = "absent"
    BY <1>t, <2>1 DEF UpdateApproval, ApprovalStatuses
  <2>4. everApproved' \subseteq Commands
    BY <1>2, <1>t DEF Decide
  <2> QED BY <1>2, <2>2, <2>3, <2>4, ApprovalStep DEF Decide
<1>3. CASE DecideStatus(h)
  <2> DEFINE status == IF op[h] = "approve" THEN "accepted" ELSE "rejected"
  <2>1. PICK r \in Replies :
          /\ commands' = IF Applied(r) THEN UpdateCommandStatus(commands, cmd[h], status)
                                       ELSE commands
          /\ Goto(h, LabelAfter(r, "reread"))
    BY <1>3 DEF DecideStatus
  <2>2. PICK l \in Elsewhere : pc' = [pc EXCEPT ![h] = l]
    BY <1>l, <2>1, ElsewhereLabels DEF Goto
  <2>3. status \in CommandStatuses /\ status \notin {"queued", "replayed"}
    BY DEF CommandStatuses
  <2>4. pc[h] \notin Storing \cup {"idle"}
    BY <1>3 DEF DecideStatus, Storing
  <2>5. commands' \in {commands, UpdateCommandStatus(commands, cmd[h], status)}
    BY <2>1
  <2> HIDE DEF status
  <2> QED BY <1>3, <2>2, <2>3, <2>4, <2>5, StatusStep DEF DecideStatus
<1>4. CASE Reread(h)
  <2>1. PICK r \in Replies :
          Goto(h, IF approvals[cmd[h]] # "absent" /\ op[h] = "approve"
                  THEN LabelAfter(r, "load") ELSE "done")
    BY <1>4 DEF Reread
  <2>2. PICK l \in Elsewhere : pc' = [pc EXCEPT ![h] = l]
    BY <1>l, <2>1, ElsewhereLabels DEF Goto
  <2> QED BY <1>4, <1>t, <2>2, ApprovalStep DEF Reread
<1>5. CASE RemoveApproval(h)
  <2>1. PICK l \in Elsewhere : pc' = [pc EXCEPT ![h] = l]
    BY <1>5, <1>l DEF RemoveApproval, Goto
  <2>2. /\ approvals' \in [Commands -> ApprovalStatuses]
        /\ \A c \in Commands : approvals[c] = "absent" => approvals'[c] = "absent"
    BY <1>5, <1>t DEF RemoveApproval, DeleteApproval, ApprovalStatuses
  <2> QED BY <1>5, <1>t, <2>1, <2>2, ApprovalStep DEF RemoveApproval
<1> QED BY <1>1, <1>2, <1>3, <1>4, <1>5

-----------------------------------------------------------------------------
(* create_command up to its release.                                        *)

LEMMA CreateStep ==
  ASSUME IInv, NEW h \in Handlers, Create(h)
  PROVE  IInv'
<1> USE NoCommandAssumption, NoEnvelopeAssumption DEF IInv, TypeOK, tables, topics
<1>1. PICK c \in Commands, e \in Envelope :
        /\ envelope[c] = NoEnvelope
        /\ envelope' = [envelope EXCEPT ![c] = e]
        /\ cmd' = [cmd EXCEPT ![h] = c]
        /\ todo' = [todo EXCEPT ![h] = PlanTasks(c, e.targets)]
  BY DEF Create
<1>2. /\ pc[h] = "idle" /\ op' = [op EXCEPT ![h] = "create"] /\ "create" \in Ops
      /\ pc' = [pc EXCEPT ![h] = "recordCommand"]
      /\ UNCHANGED <<tables, topics, everApproved>>
  BY DEF Create, Goto
<1>3. e.targets \in TargetLists
  BY DEF Envelope
<1>4. /\ PlanTasks(c, e.targets) \in Seq(Task)
      /\ \A t \in Range(PlanTasks(c, e.targets)) :
           t \in Task /\ CommandOf(t) = c /\ t[2] <= Len(e.targets)
  BY <1>3, PlanRange, SeqRange
<1>5. \A g \in Handlers : cmd[g] # c
  BY <1>1 DEF Minted
<1>6. TypeOK'
  BY <1>1, <1>2, <1>4 DEF Labels
<1>7. Minted'
  BY <1>1, <1>2, <1>5 DEF Minted
<1>8. PlanKept'
  <2>1. \A t \in Task : Planned(t) => Planned(t)'
    BY <1>1 DEF Planned
  <2>2. \A g \in Handlers : Range(todo[g]) \subseteq Task
    BY SeqRange
  <2>3. ASSUME NEW g \in Handlers, NEW t \in Range(todo'[g])
        PROVE  CommandOf(t) = cmd'[g] /\ Planned(t)'
    <3>1. CASE g = h
      BY <1>1, <1>4, <2>3, <3>1 DEF Planned
    <3>2. CASE g # h
      <4>1. t \in Range(todo[g]) /\ cmd'[g] = cmd[g]
        BY <1>1, <2>3, <3>2
      <4> QED BY <2>1, <2>2, <4>1 DEF PlanKept
    <3> QED BY <3>1, <3>2
  <2> QED BY <1>2, <2>1, <2>3 DEF PlanKept
<1>9. CreatorAlone'
  BY <1>1, <1>2, <1>5 DEF CreatorAlone, Minted, Storing
<1>10. ReleaseCovers'
  BY <1>1, <1>2 DEF ReleaseCovers, Releasing, TaskRows, Published
<1>11. QueuedMeansPublished'
  BY <1>2 DEF QueuedMeansPublished, TaskRows, Published
<1> QED BY <1>6, <1>7, <1>8, <1>9, <1>10, <1>11

LEMMA RecordCommandStep ==
  ASSUME IInv, NEW h \in Handlers, RecordCommand(h)
  PROVE  IInv'
<1> USE DEF IInv, TypeOK, topics, request
<1>1. /\ pc[h] = "recordCommand" /\ pc' = [pc EXCEPT ![h] = "storeTasks"]
      /\ commands' \in {commands, InsertCommand(commands, envelope, cmd[h])}
      /\ UNCHANGED <<envelope, approvals, tasks, topics, request, todo, everApproved>>
  BY DEF RecordCommand, Goto
<1>2. cmd[h] \in Commands /\ envelope[cmd[h]] # NoEnvelope
  BY <1>1 DEF Minted
<1>3. /\ commands' \in [Commands -> CommandStatuses]
      /\ \A c \in Commands : c # cmd[h] => commands'[c] = commands[c]
      /\ commands'[cmd[h]] \in {commands[cmd[h]], "pending_approval", "accepted"}
  BY <1>1, <1>2 DEF InsertCommand, CommandStatuses
<1>4. TypeOK'
  BY <1>1, <1>3 DEF Labels
<1>5. Minted'
  BY <1>1, <1>2, <1>3 DEF Minted
<1>6. PlanKept'
  BY <1>1 DEF PlanKept, Planned
<1>7. CreatorAlone'
  BY <1>1, <1>2, <1>3 DEF CreatorAlone, Minted, Storing
<1>8. ReleaseCovers'
  BY <1>1 DEF ReleaseCovers, TaskRows, Published, Releasing
<1>9. QueuedMeansPublished'
  BY <1>1, <1>3 DEF QueuedMeansPublished, TaskRows, Published
<1> QED BY <1>4, <1>5, <1>6, <1>7, <1>8, <1>9

LEMMA StoreTaskStep ==
  ASSUME IInv, NEW h \in Handlers, StoreTask(h)
  PROVE  IInv'
<1> USE DEF IInv, TypeOK, topics, request
<1>1. /\ pc[h] = "storeTasks" /\ todo[h] # <<>>
      /\ tasks' \in {tasks, InsertTask(tasks, envelope[cmd[h]].targets, Head(todo[h]))}
      /\ todo' \in {[todo EXCEPT ![h] = Tail(todo[h])], [todo EXCEPT ![h] = <<>>]}
      /\ UNCHANGED <<envelope, commands, approvals, topics, request, pc, everApproved>>
  BY DEF StoreTask
<1>2. cmd[h] \in Commands /\ envelope[cmd[h]] # NoEnvelope
  BY <1>1 DEF Minted
<1> DEFINE new == Head(todo[h])
<1>3. new \in Range(todo[h]) /\ new \in Task /\ CommandOf(new) = cmd[h] /\ Planned(new)
  BY <1>1, SeqRange DEF PlanKept
<1>4. /\ \A g \in Handlers : todo'[g] \in Seq(Task) /\ Range(todo'[g]) \subseteq Range(todo[g])
      /\ \A g \in Handlers : g # h => todo'[g] = todo[g]
      /\ todo' \in [Handlers -> Seq(Task)]
  <2>1. /\ Tail(todo[h]) \in Seq(Task) /\ Range(Tail(todo[h])) \subseteq Range(todo[h])
        /\ <<>> \in Seq(Task) /\ Range(<<>>) \subseteq Range(todo[h])
    <3>1. Tail(todo[h]) \in Seq(Task) /\ Range(Tail(todo[h])) \subseteq Range(todo[h])
      BY <1>1, SeqRange
    <3>2. <<>> \in Seq(Task)
      OBVIOUS
    <3>3. Range(<<>>) = {}
      BY <3>2, SeqRange
    <3> QED BY <3>1, <3>2, <3>3
  <2> QED BY <1>1, <2>1
<1>5. /\ tasks' \in [Task -> TaskRow]
      /\ \A t \in Task : t # new => tasks'[t] = tasks[t]
      /\ tasks'[new] \in {tasks[new], PlannedRow}
  <2>1. PlannedRow \in TaskRow
    BY DEF TaskRow, PlannedRow, TaskStatuses
  <2>2. tasks' \in {tasks, [tasks EXCEPT ![new] = PlannedRow]}
    BY <1>1 DEF InsertTask
  <2> QED BY <1>3, <2>1, <2>2
<1> HIDE DEF new
<1>6. \A c \in Commands : c # cmd[h] => TaskRows(tasks', c) = TaskRows(tasks, c)
  BY <1>3, <1>5 DEF TaskRows
<1>7. \A g \in Handlers : g # h => cmd[g] # cmd[h]
  BY <1>1 DEF CreatorAlone, Storing
<1>8. TypeOK'
  BY <1>1, <1>4, <1>5
<1>9. Minted'
  BY <1>1, <1>4 DEF Minted
<1>10. PlanKept'
  BY <1>1, <1>3, <1>4, <1>5 DEF PlanKept, Planned
<1>11. CreatorAlone'
  BY <1>1 DEF CreatorAlone
<1>12. ReleaseCovers'
  <2>1. ASSUME NEW g \in Handlers, pc[g] \in Releasing
        PROVE  g # h /\ TaskRows(tasks', cmd[g]) = TaskRows(tasks, cmd[g])
    BY <1>1, <1>6, <1>7, <2>1 DEF Releasing, Minted
  <2>2. pc' = pc /\ cmd' = cmd /\ Published' = Published
    BY <1>1 DEF Published
  <2> QED BY <1>4, <2>1, <2>2 DEF ReleaseCovers, Releasing
<1>13. QueuedMeansPublished'
  <2>1. commands[cmd[h]] \notin {"queued", "replayed"}
    BY <1>1 DEF CreatorAlone, Storing
  <2>2. commands' = commands /\ Published' = Published
    BY <1>1 DEF Published
  <2>3. PlannedRow.status = "planned"
    BY DEF PlannedRow
  <2> QED BY <1>5, <1>6, <2>1, <2>2, <2>3 DEF QueuedMeansPublished
<1> QED BY <1>8, <1>9, <1>10, <1>11, <1>12, <1>13

LEMMA FinishStoreStep ==
  ASSUME IInv, NEW h \in Handlers, FinishStore(h)
  PROVE  IInv'
<1> USE NoEnvelopeAssumption DEF IInv, TypeOK, tables, topics, request
<1> DEFINE c == cmd[h]
           plan == PlanTasks(c, envelope[c].targets)
<1>1. /\ pc[h] = "storeTasks" /\ todo[h] = <<>>
      /\ pc' = [pc EXCEPT ![h] = AfterStore(envelope[c])]
      /\ todo' = [todo EXCEPT ![h] = plan]
      /\ UNCHANGED <<envelope, tables, topics, request, everApproved>>
  BY DEF FinishStore, Goto
<1>2. c \in Commands /\ envelope[c] \in Envelope /\ envelope[c].targets \in TargetLists
  BY <1>1 DEF Minted, Envelope
<1>3. /\ plan \in Seq(Task) /\ Range(plan) \subseteq Task
      /\ \A t \in Task : t \in Range(plan)
                         <=> CommandOf(t) = c /\ t[2] <= Len(envelope[c].targets)
  BY <1>2, PlanRange, SeqRange
<1>4. PICK l \in {"createApproval", "publishCommand"} : pc' = [pc EXCEPT ![h] = l]
  BY <1>1 DEF AfterStore
<1> HIDE DEF c, plan
<1>5. TypeOK'
  BY <1>1, <1>3, <1>4 DEF Labels
<1>6. Minted'
  BY <1>1, <1>4 DEF Minted
<1>7. PlanKept'
  <2>1. \A g \in Handlers : g # h => todo'[g] = todo[g]
    BY <1>1
  <2>2. todo'[h] = plan /\ cmd[h] = c /\ envelope[c] # NoEnvelope
    BY <1>1, <1>2 DEF c
  <2> QED BY <1>1, <1>3, <2>1, <2>2 DEF PlanKept, Planned
<1>8. CreatorAlone'
  BY <1>1, <1>4 DEF CreatorAlone, Storing
<1>9. ReleaseCovers'
  <2>1. TaskRows(tasks, c) \subseteq Range(plan)
    BY <1>3 DEF TaskRows, PlanKept, Planned
  <2>2. \A g \in Handlers : g # h => todo'[g] = todo[g] /\ pc'[g] = pc[g]
    BY <1>1
  <2>3. todo'[h] = plan /\ cmd[h] = c /\ pc'[h] # "setStatus"
    BY <1>1, <1>4 DEF c
  <2>4. UNCHANGED <<cmd, tasks, tasksTopic>>
    BY <1>1
  <2> QED BY <2>1, <2>2, <2>3, <2>4 DEF ReleaseCovers, TaskRows, Published
<1>10. QueuedMeansPublished'
  BY <1>1 DEF QueuedMeansPublished, TaskRows, Published
<1> QED BY <1>5, <1>6, <1>7, <1>8, <1>9, <1>10

LEMMA CreateApprovalStep ==
  ASSUME IInv, NEW h \in Handlers, CreateApproval(h)
  PROVE  IInv'
<1> USE DEF IInv, TypeOK, topics, request
<1>1. /\ pc[h] = "createApproval" /\ pc' = [pc EXCEPT ![h] = "done"]
      /\ approvals' \in {approvals, [approvals EXCEPT ![cmd[h]] = "pending"]}
      /\ UNCHANGED <<envelope, commands, tasks, topics, request, todo, everApproved>>
  BY DEF CreateApproval, Goto, UpsertApproval
<1>2. cmd[h] \in Commands /\ envelope[cmd[h]] # NoEnvelope
  BY <1>1 DEF Minted
<1>3. TypeOK'
  BY <1>1 DEF Labels, ApprovalStatuses
<1>4. Minted'
  BY <1>1, <1>2 DEF Minted
<1>5. PlanKept'
  BY <1>1 DEF PlanKept, Planned
<1>6. CreatorAlone'
  BY <1>1, <1>2 DEF CreatorAlone, Minted, Storing
<1>7. ReleaseCovers'
  BY <1>1 DEF ReleaseCovers, TaskRows, Published, Releasing
<1>8. QueuedMeansPublished'
  BY <1>1 DEF QueuedMeansPublished, TaskRows, Published
<1> QED BY <1>3, <1>4, <1>5, <1>6, <1>7, <1>8

-----------------------------------------------------------------------------
(* Requests that name a command.                                            *)

\* A command a caller can name is one whose creation has returned or published.
LEMMA KnownCommand ==
  ASSUME IInv, NEW c \in Commands, Known(c)
  PROVE  /\ envelope[c] # NoEnvelope
         /\ \A g \in Handlers : pc[g] \in Storing => cmd[g] # c
<1>1. envelope[c] # NoEnvelope
  BY DEF IInv, Known, Minted
<1>2. ASSUME NEW g \in Handlers, pc[g] \in Storing PROVE cmd[g] # c
  <2>1. pc[g] # "done"
    BY <1>2 DEF Storing
  <2> QED BY <1>2, <2>1 DEF IInv, Known, CreatorAlone
<1> QED BY <1>1, <1>2

\* A handler that was idle takes up such a command, neither storing nor releasing.
LEMMA TakeUpStep ==
  ASSUME IInv, NEW h \in Handlers, NEW c \in Commands, Known(c), envelope[c] # NoEnvelope,
         NEW l \in Elsewhere, NEW o \in Ops, pc[h] = "idle",
         pc' = [pc EXCEPT ![h] = l],
         op' = [op EXCEPT ![h] = o],
         cmd' = [cmd EXCEPT ![h] = c],
         commandsTopic' \in {commandsTopic, commandsTopic \cup {c}},
         wire' \in [Handlers \X Task -> 0..MaxSends],
         UNCHANGED <<envelope, tables, tasksTopic, todo, everApproved>>
  PROVE  IInv'
<1> USE DEF IInv, TypeOK, tables, Elsewhere
<1>1. \A g \in Handlers : pc[g] \in Storing => cmd[g] # c
  BY KnownCommand
<1>2. TypeOK'
  OBVIOUS
<1>3. Minted'
  BY DEF Minted
<1>4. PlanKept'
  <2>1. todo[h] = <<>>
    BY DEF Minted
  <2>2. Range(todo[h]) = {}
    BY <2>1, SeqRange
  <2> QED BY <2>2 DEF PlanKept, Planned
<1>5. CreatorAlone'
  <2>1. ASSUME NEW g \in Handlers, pc'[g] \in Storing
        PROVE  g # h /\ pc[g] \in Storing /\ cmd'[g] = cmd[g] /\ op'[g] = op[g]
               /\ cmd[g] # c /\ cmd[g] \in Commands
    BY <1>1, <2>1 DEF Minted, Storing
  <2> QED BY <2>1 DEF CreatorAlone
<1>6. ReleaseCovers'
  BY DEF ReleaseCovers, TaskRows, Releasing, Published
<1>7. QueuedMeansPublished'
  BY DEF QueuedMeansPublished, TaskRows, Published
<1> QED BY <1>2, <1>3, <1>4, <1>5, <1>6, <1>7

LEMMA ServeStep ==
  ASSUME IInv, NEW h \in Handlers, Serve(h)
  PROVE  IInv'
<1>1. PICK o \in Ops, c \in Commands :
        /\ Known(c)
        /\ op' = [op EXCEPT ![h] = o]
        /\ cmd' = [cmd EXCEPT ![h] = c]
        /\ pc' = [pc EXCEPT ![h] = FirstLabel(o)]
  BY DEF Serve, Goto
<1>2. FirstLabel(o) \in Elsewhere
  BY DEF FirstLabel, Elsewhere, Labels, Storing, Releasing
<1>3. /\ pc[h] = "idle" /\ commandsTopic' = commandsTopic /\ wire' = wire
      /\ UNCHANGED <<envelope, tables, tasksTopic, todo, everApproved>>
  BY DEF Serve, topics
<1>4. wire' \in [Handlers \X Task -> 0..MaxSends]
  BY <1>3 DEF IInv, TypeOK
<1>5. envelope[c] # NoEnvelope
  BY <1>1, KnownCommand
<1> QED BY <1>1, <1>2, <1>3, <1>4, <1>5, TakeUpStep

LEMMA PublishRawStep ==
  ASSUME IInv, NEW h \in Handlers, PublishRaw(h)
  PROVE  IInv'
<1>1. PICK c \in Commands :
        /\ envelope[c] # NoEnvelope /\ Known(c)
        /\ cmd' = [cmd EXCEPT ![h] = c]
        /\ \/ /\ "publishCommand" \in Ops
              /\ op' = [op EXCEPT ![h] = "publishCommand"]
              /\ commandsTopic' = commandsTopic \cup {c}
              /\ UNCHANGED wire
           \/ /\ "publishTask" \in Ops
              /\ op' = [op EXCEPT ![h] = "publishTask"]
              /\ \E i \in DOMAIN envelope[c].targets : Sent(h, <<c, i>>, MaxSends)
              /\ UNCHANGED commandsTopic
  BY DEF PublishRaw
<1>2. /\ pc[h] = "idle" /\ pc' = [pc EXCEPT ![h] = "done"]
      /\ UNCHANGED <<envelope, tables, tasksTopic, todo, everApproved>>
  BY DEF PublishRaw, Goto
<1>3. "done" \in Elsewhere
  BY DEF Elsewhere, Labels, Storing, Releasing
<1>4. wire \in [Handlers \X Task -> 0..MaxSends]
  BY DEF IInv, TypeOK
<1>5. PICK o \in Ops : op' = [op EXCEPT ![h] = o]
  BY <1>1
<1>6. commandsTopic' \in {commandsTopic, commandsTopic \cup {c}}
  BY <1>1
<1>7. wire' \in [Handlers \X Task -> 0..MaxSends]
  <2>1. CASE UNCHANGED wire
    BY <1>4, <2>1
  <2>2. ASSUME NEW i \in DOMAIN envelope[c].targets, Sent(h, <<c, i>>, MaxSends)
        PROVE  wire' \in [Handlers \X Task -> 0..MaxSends]
    <3>1. envelope[c].targets \in TargetLists
      BY <1>1 DEF IInv, TypeOK, Envelope
    <3>2. <<c, i>> \in Task
      BY <2>2, <3>1, MaxTargetsAssumption DEF TargetLists, Task
    <3> QED BY <1>4, <2>2, <3>2, WireNext, SendsBounded DEF Sent
  <2> QED BY <1>1, <2>1, <2>2
<1> QED BY <1>1, <1>2, <1>3, <1>5, <1>6, <1>7, TakeUpStep

-----------------------------------------------------------------------------
(* The release.                                                             *)

LEMMA LoadTasksStep ==
  ASSUME IInv, NEW h \in Handlers, LoadTasks(h)
  PROVE  IInv'
<1> USE DEF IInv, TypeOK, tables, topics, request
<1>1. pc[h] = "load" /\ UNCHANGED <<envelope, tables, topics, request, everApproved>>
  BY DEF LoadTasks
<1>2. cmd[h] \in Commands
  BY <1>1 DEF Minted
<1>3. CASE Goto(h, "done") /\ UNCHANGED todo
  <2>1. "done" \in Elsewhere /\ pc' = [pc EXCEPT ![h] = "done"]
    BY <1>3 DEF Elsewhere, Labels, Storing, Releasing, Goto
  <2>2. approvals' = approvals /\ everApproved' = everApproved
    BY <1>1
  <2> QED BY <1>1, <1>3, <2>1, <2>2, ApprovalStep
<1>4. ASSUME NEW list \in RowOrders(cmd[h]), todo' = [todo EXCEPT ![h] = list],
             Goto(h, "publishCommand")
      PROVE  IInv'
  <2>1. list \in Seq(Task) /\ Range(list) = TaskRows(tasks, cmd[h])
    BY <1>2, OrderRange
  <2>2. pc' = [pc EXCEPT ![h] = "publishCommand"]
    BY <1>4 DEF Goto
  <2>3. TypeOK'
    BY <1>1, <1>4, <2>1, <2>2 DEF Labels
  <2>4. Minted'
    BY <1>1, <1>4, <2>2 DEF Minted
  <2>5. PlanKept'
    BY <1>1, <1>4, <2>1 DEF PlanKept, Planned, TaskRows
  <2>6. CreatorAlone'
    BY <1>1, <2>2 DEF CreatorAlone, Storing
  <2>7. ReleaseCovers'
    BY <1>1, <1>4, <2>1, <2>2 DEF ReleaseCovers, Releasing, TaskRows, Published
  <2>8. QueuedMeansPublished'
    BY <1>1 DEF QueuedMeansPublished, TaskRows, Published
  <2> QED BY <2>3, <2>4, <2>5, <2>6, <2>7, <2>8
<1> QED BY <1>3, <1>4 DEF LoadTasks

LEMMA PublishCommandStep ==
  ASSUME IInv, NEW h \in Handlers, PublishCommand(h)
  PROVE  IInv'
<1> USE DEF IInv, TypeOK, tables, request
<1>1. /\ pc[h] = "publishCommand"
      /\ commandsTopic' \in {commandsTopic, commandsTopic \cup {cmd[h]}}
      /\ UNCHANGED <<envelope, tables, tasksTopic, wire, request, todo, everApproved>>
  BY DEF PublishCommand
<1>2. PICK l \in {"publishTasks", "done"} : pc' = [pc EXCEPT ![h] = l]
  BY DEF PublishCommand, LabelAfter, Goto
<1>3. cmd[h] \in Commands /\ envelope[cmd[h]] # NoEnvelope
  BY <1>1 DEF Minted
<1>4. TypeOK'
  BY <1>1, <1>2, <1>3 DEF Labels
<1>5. Minted'
  BY <1>1, <1>2, <1>3 DEF Minted
<1>6. PlanKept'
  BY <1>1 DEF PlanKept, Planned
<1>7. CreatorAlone'
  <2>1. ASSUME NEW g \in Handlers, pc'[g] \in Storing
        PROVE  pc[g] \in Storing /\ cmd[g] # cmd[h]
    BY <1>1, <1>2, <2>1 DEF CreatorAlone, Storing
  <2> QED BY <1>1, <2>1 DEF CreatorAlone
<1>8. ReleaseCovers'
  BY <1>1, <1>2 DEF ReleaseCovers, Releasing, TaskRows, Published
<1>9. QueuedMeansPublished'
  BY <1>1 DEF QueuedMeansPublished, TaskRows, Published
<1> QED BY <1>4, <1>5, <1>6, <1>7, <1>8, <1>9

LEMMA PublishTaskStep ==
  ASSUME IInv, NEW h \in Handlers, PublishTask(h)
  PROVE  IInv'
<1> USE DEF IInv, TypeOK, tables, request
<1> DEFINE t == Head(todo[h])
<1>1. /\ pc[h] = "publishTasks" /\ todo[h] # <<>>
      /\ todo' = [todo EXCEPT ![h] = Tail(todo[h])]
      /\ UNCHANGED <<envelope, tables, commandsTopic, request, everApproved>>
  BY DEF PublishTask
<1>2. PICK l \in {"publishTasks", "done"} : pc' = [pc EXCEPT ![h] = l]
      /\ tasksTopic' \in {tasksTopic, Append(tasksTopic, t)}
      /\ (l # "done" => tasksTopic' = Append(tasksTopic, t))
      /\ \E n \in {MaxSends - 1, MaxSends} : Sent(h, t, n)
  <2>1. pc' = pc => pc' = [pc EXCEPT ![h] = "publishTasks"]
    BY <1>1
  <2> QED BY <2>1 DEF PublishTask, Goto
<1>3. /\ t \in Task /\ Tail(todo[h]) \in Seq(Task)
      /\ Range(todo[h]) = {t} \cup Range(Tail(todo[h]))
  BY <1>1, SeqRange
<1> HIDE DEF t
<1>4. /\ tasksTopic' \in Seq(Task) /\ Published \subseteq Published'
      /\ l # "done" => t \in Published'
  <2>1. /\ Append(tasksTopic, t) \in Seq(Task)
        /\ Range(Append(tasksTopic, t)) = Range(tasksTopic) \cup {t}
    BY <1>3, SeqRange
  <2> QED BY <1>2, <2>1 DEF Published
<1>5. wire' \in [Handlers \X Task -> 0..MaxSends]
  <2>1. PICK n \in 0..MaxSends : Sent(h, t, n)
    BY <1>2, SendsBounded
  <2> QED BY <1>3, <2>1, WireNext DEF Sent
<1>6. TypeOK'
  BY <1>1, <1>2, <1>3, <1>4, <1>5 DEF Labels
<1>7. Minted'
  BY <1>1, <1>2 DEF Minted
<1>8. PlanKept'
  BY <1>1, <1>3 DEF PlanKept, Planned
<1>9. CreatorAlone'
  BY <1>1, <1>2 DEF CreatorAlone, Storing
<1>10. ReleaseCovers'
  <2>1. ASSUME NEW g \in Handlers, g # h
        PROVE  todo'[g] = todo[g] /\ pc'[g] = pc[g]
    BY <1>1, <1>2, <2>1
  <2>2. pc'[h] = l /\ todo'[h] = Tail(todo[h])
    BY <1>1, <1>2
  <2>3. cmd' = cmd /\ tasks' = tasks
    BY <1>1
  <2>4. pc'[h] \in Releasing =>
          TaskRows(tasks, cmd[h]) \subseteq Range(todo'[h]) \cup Published'
    BY <1>1, <1>2, <1>3, <1>4, <2>2 DEF ReleaseCovers, Releasing
  <2> QED BY <1>4, <1>2, <2>1, <2>2, <2>3, <2>4 DEF ReleaseCovers
<1>11. QueuedMeansPublished'
  BY <1>1, <1>4 DEF QueuedMeansPublished, TaskRows
<1> QED BY <1>6, <1>7, <1>8, <1>9, <1>10, <1>11

LEMMA MarkQueuedStep ==
  ASSUME IInv, NEW h \in Handlers, MarkQueued(h)
  PROVE  IInv'
<1> USE DEF IInv, TypeOK, topics, request
<1>1. /\ pc[h] = "publishTasks" /\ todo[h] = <<>>
      /\ tasks' \in {tasks, MarkTasksQueued(tasks, cmd[h])}
      /\ UNCHANGED <<envelope, commands, approvals, topics, request, todo, everApproved>>
  BY DEF MarkQueued
<1>2. PICK l \in {"setStatus", "done"} : pc' = [pc EXCEPT ![h] = l]
  BY DEF MarkQueued, LabelAfter, Goto
<1>3. TaskRows(tasks, cmd[h]) \subseteq Published
  <2>1. Range(todo[h]) = {}
    BY <1>1, SeqRange
  <2> QED BY <1>1, <2>1 DEF ReleaseCovers, Releasing
<1>4. /\ tasks' \in [Task -> TaskRow]
      /\ \A t \in Task : tasks'[t].status = "absent" <=> tasks[t].status = "absent"
      /\ \A t \in Task : \/ tasks'[t].status = tasks[t].status
                         \/ t \in TaskRows(tasks, cmd[h])
  <2>1. ASSUME NEW t \in Task
        PROVE  /\ tasks'[t] \in TaskRow
               /\ tasks'[t].status = "absent" <=> tasks[t].status = "absent"
               /\ \/ tasks'[t].status = tasks[t].status
                  \/ t \in TaskRows(tasks, cmd[h])
    <3>1. CASE tasks' = tasks
      BY <3>1
    <3>2. CASE tasks' = MarkTasksQueued(tasks, cmd[h]) /\ t \in TaskRows(tasks, cmd[h])
      <4>1. tasks'[t] = [status |-> "queued", attempts |-> tasks[t].attempts, retryAt |-> FALSE]
        BY <3>2 DEF MarkTasksQueued
      <4>2. tasks[t].status # "absent" /\ tasks[t].attempts \in Nat
        BY <3>2 DEF TaskRows, TaskRow
      <4> QED BY <3>2, <4>1, <4>2 DEF TaskRow, TaskStatuses
    <3>3. CASE tasks' = MarkTasksQueued(tasks, cmd[h]) /\ t \notin TaskRows(tasks, cmd[h])
      BY <3>3 DEF MarkTasksQueued
    <3> QED BY <1>1, <3>1, <3>2, <3>3
  <2>2. tasks' = [t \in Task |-> tasks'[t]]
    BY <1>1 DEF MarkTasksQueued
  <2> QED BY <2>1, <2>2
<1>5. \A c \in Commands : TaskRows(tasks', c) = TaskRows(tasks, c)
  BY <1>4 DEF TaskRows
<1>6. TypeOK'
  BY <1>1, <1>2, <1>4 DEF Labels
<1>7. Minted'
  BY <1>1, <1>2 DEF Minted
<1>8. PlanKept'
  BY <1>1, <1>4 DEF PlanKept, Planned
<1>9. CreatorAlone'
  BY <1>1, <1>2 DEF CreatorAlone, Storing
<1>10. ReleaseCovers'
  <2>1. Published' = Published
    BY <1>1 DEF Published
  <2>2. \A g \in Handlers : pc[g] # "idle" => cmd[g] \in Commands
    BY DEF Minted
  <2> QED BY <1>1, <1>2, <1>5, <2>1, <2>2 DEF ReleaseCovers, Releasing
<1>11. QueuedMeansPublished'
  <2>1. Published' = Published
    BY <1>1 DEF Published
  <2> QED BY <1>1, <1>3, <1>4, <1>5, <2>1 DEF QueuedMeansPublished
<1> QED BY <1>6, <1>7, <1>8, <1>9, <1>10, <1>11

LEMMA SetStatusStep ==
  ASSUME IInv, NEW h \in Handlers, SetStatus(h)
  PROVE  IInv'
<1> DEFINE status == ReleasedStatus(op[h])
<1>1. /\ pc[h] = "setStatus" /\ pc' = [pc EXCEPT ![h] = "done"]
      /\ commands' \in {commands, UpdateCommandStatus(commands, cmd[h], status)}
      /\ UNCHANGED <<envelope, approvals, tasks, topics, request, todo, everApproved>>
  BY DEF SetStatus, Goto
<1>2. status \in CommandStatuses
  BY DEF ReleasedStatus, CommandStatuses
<1>3. TaskRows(tasks, cmd[h]) \subseteq Published
  <2>1. todo[h] = <<>> /\ todo[h] \in Seq(Task)
    BY <1>1 DEF IInv, TypeOK, ReleaseCovers
  <2>2. Range(todo[h]) = {}
    BY <2>1, SeqRange
  <2> QED BY <1>1, <2>2 DEF IInv, ReleaseCovers, Releasing
<1>4. "done" \in Elsewhere /\ pc[h] \notin Storing \cup {"idle"}
  BY <1>1 DEF Elsewhere, Labels, Storing, Releasing
<1> HIDE DEF status
<1> QED BY <1>1, <1>2, <1>3, <1>4, StatusStep

-----------------------------------------------------------------------------
(* Steps that are no handler's.                                             *)

LEMMA LandStep ==
  ASSUME IInv, Land
  PROVE  IInv'
<1> USE DEF IInv, TypeOK, tables, request
<1>1. PICK p \in Handlers \X Task :
        /\ wire[p] > 0 /\ wire' = [wire EXCEPT ![p] = wire[p] - 1]
        /\ tasksTopic' = Append(tasksTopic, p[2])
  BY DEF Land
<1>2. UNCHANGED <<envelope, tables, commandsTopic, request, pc, todo, everApproved>>
  BY DEF Land
<1>3. p[2] \in Task
  OBVIOUS
<1>4. tasksTopic' \in Seq(Task) /\ Published \subseteq Published'
  BY <1>1, <1>3, SeqRange DEF Published
<1>5. TypeOK'
  BY <1>1, <1>2, <1>4, WireNext
<1>6. Minted' /\ PlanKept' /\ CreatorAlone'
  BY <1>2 DEF Minted, PlanKept, Planned, CreatorAlone
<1>7. ReleaseCovers'
  BY <1>2, <1>4 DEF ReleaseCovers, TaskRows
<1>8. QueuedMeansPublished'
  BY <1>2, <1>4 DEF QueuedMeansPublished, TaskRows
<1> QED BY <1>5, <1>6, <1>7, <1>8

LEMMA DropStep ==
  ASSUME IInv, NEW h \in Handlers, Drop(h)
  PROVE  IInv'
<1> USE DEF IInv, TypeOK, tables, request
<1>1. /\ pc[h] \notin Ended /\ pc' = [pc EXCEPT ![h] = "dropped"]
      /\ UNCHANGED <<envelope, tables, commandsTopic, tasksTopic, request, todo, everApproved>>
  BY DEF Drop, Goto
<1>2. wire' \in [Handlers \X Task -> 0..MaxSends]
  <2>1. CASE UNCHANGED wire
    BY <2>1
  <2>2. CASE todo[h] # <<>> /\ Sent(h, Head(todo[h]), MaxSends)
    <3>1. Head(todo[h]) \in Task
      BY <2>2, SeqRange
    <3> QED BY <2>2, <3>1, WireNext, SendsBounded DEF Sent
  <2> QED BY <2>1, <2>2 DEF Drop
<1>3. TypeOK'
  BY <1>1, <1>2 DEF Labels
<1>4. Minted'
  BY <1>1 DEF Minted, Ended
<1>5. PlanKept'
  BY <1>1 DEF PlanKept, Planned
<1>6. CreatorAlone'
  BY <1>1 DEF CreatorAlone, Storing
<1>7. ReleaseCovers'
  BY <1>1 DEF ReleaseCovers, Releasing, TaskRows, Published
<1>8. QueuedMeansPublished'
  BY <1>1 DEF QueuedMeansPublished, TaskRows, Published
<1> QED BY <1>3, <1>4, <1>5, <1>6, <1>7, <1>8

-----------------------------------------------------------------------------
(* The invariant holds.                                                     *)

LEMMA InitIInv == Init => IInv
<1> SUFFICES ASSUME Init PROVE IInv
  OBVIOUS
<1> USE DEF Init
<1>1. Range(<<>>) = {}
  <2>1. <<>> \in Seq(Task)
    OBVIOUS
  <2> QED BY <2>1, SeqRange
<1>2. TypeOK
  <2>1. NoTaskRow \in TaskRow
    BY DEF NoTaskRow, TaskRow, TaskStatuses
  <2>2. wire \in [Handlers \X Task -> 0..MaxSends]
    <3>1. 0 \in 0..MaxSends
      BY MaxSendsAssumption
    <3> QED BY <3>1
  <2> QED BY <2>1, <2>2 DEF TypeOK, CommandStatuses, ApprovalStatuses, Labels
<1>3. Minted
  BY DEF Minted
<1>4. NoTaskRow.status = "absent"
  BY DEF NoTaskRow
<1>5. PlanKept
  BY <1>1, <1>4 DEF PlanKept
<1>6. CreatorAlone
  BY DEF CreatorAlone, Storing
<1>7. ReleaseCovers
  BY DEF ReleaseCovers, Releasing
<1>8. QueuedMeansPublished
  BY <1>4 DEF QueuedMeansPublished
<1> QED BY <1>2, <1>3, <1>5, <1>6, <1>7, <1>8 DEF IInv

LEMMA NextIInv == IInv /\ [Next]_vars => IInv'
<1> SUFFICES ASSUME IInv, [Next]_vars PROVE IInv'
  OBVIOUS
<1>1. ASSUME NEW h \in Handlers, Create(h) \/ Serve(h) \/ PublishRaw(h) \/ Drop(h) PROVE IInv'
  BY <1>1, CreateStep, ServeStep, PublishRawStep, DropStep
<1>2. ASSUME NEW h \in Handlers, Proceed(h) PROVE IInv'
  BY <1>2, RecordCommandStep, StoreTaskStep, FinishStoreStep, CreateApprovalStep,
     DecisionSteps, LoadTasksStep, PublishCommandStep, PublishTaskStep, MarkQueuedStep,
     SetStatusStep DEF Proceed
<1>3. CASE UNCHANGED vars
  BY <1>3 DEF vars, tables, topics, request, IInv, TypeOK, Minted, PlanKept, Planned,
     CreatorAlone, ReleaseCovers, QueuedMeansPublished, Published, TaskRows
<1> QED BY <1>1, <1>2, <1>3, LandStep DEF Next

LEMMA Invariance == Spec => []IInv
  BY InitIInv, NextIInv, PTL DEF Spec

\* Every variable keeps its type: in particular a release never meets a command
\* that was not minted, and a list of rows read back is a list of tasks.
THEOREM TypeCorrect == Spec => []TypeOK
<1>1. IInv => TypeOK
  BY DEF IInv
<1> QED BY <1>1, Invariance, PTL

\* No row reads "queued", and no command "queued" or "replayed", before what it
\* stands for has been delivered to platform.tasks: whatever calls of gateway and
\* queue-service fail, and however many handlers release the same command.
THEOREM QueuedIsPublished == Spec => []QueuedMeansPublished
<1>1. IInv => QueuedMeansPublished
  BY DEF IInv
<1> QED BY <1>1, Invariance, PTL

-----------------------------------------------------------------------------
(* What a release has to show.                                              *)

\* Past its first statement an approval is on record, unless the row is gone; the
\* release that follows has seen the row again, or an operator has asked for it.
DecisionSeen(h) ==
  /\ op[h] = "approve" /\ pc[h] \in {"decideStatus", "reread"} =>
       cmd[h] \in everApproved \/ approvals[cmd[h]] = "absent"
  /\ pc[h] = "load" => cmd[h] \in everApproved \/ op[h] \in ReleaseOps
  /\ pc[h] \in Releasing =>
       \/ cmd[h] \in everApproved \/ op[h] \in ReleaseOps
       \/ ~envelope[cmd[h]].approvalRequired

\* The tasks whose message may yet arrive.
OnWire == {t \in Task : \E h \in Handlers : wire[<<h, t>>] > 0}

\* A task that is published or may yet be was approved, or asked for, or needs no
\* approval.
PublishedSeen ==
  \A t \in Published \cup OnWire :
    /\ CommandOf(t) \in Commands /\ envelope[CommandOf(t)] # NoEnvelope
    /\ envelope[CommandOf(t)].approvalRequired =>
         CommandOf(t) \in everApproved \/ AskedFor(CommandOf(t))

ApprovalInv ==
  /\ \A c \in Commands : approvals[c] = "approved" => c \in everApproved
  /\ \A h \in Handlers : DecisionSeen(h)
  /\ PublishedSeen

\* A handler keeps its command and operation; an idle one has no command to lose.
LEMMA AskedForKept ==
  ASSUME IInv, NEW h \in Handlers, pc[h] = "idle" \/ UNCHANGED <<op, cmd>>,
         op' = [op EXCEPT ![h] = op'[h]], cmd' = [cmd EXCEPT ![h] = cmd'[h]],
         NEW c \in Commands, AskedFor(c)
  PROVE  AskedFor(c)'
<1>1. PICK g \in Handlers : cmd[g] = c /\ op[g] \in ReleaseOps \cup PublishOps
  BY DEF AskedFor
<1>2. pc[h] = "idle" => g # h
  BY <1>1, NoCommandAssumption DEF IInv, Minted
<1>3. cmd'[g] = cmd[g] /\ op'[g] = op[g]
  BY <1>2 DEF IInv, TypeOK
<1> QED BY <1>1, <1>3 DEF AskedFor

\* A step that publishes no task, mints no command and forgets no approval keeps
\* ApprovalInv if what its handler has seen holds afterwards, and if no approval
\* row comes into being for a command another handler has in hand.
LEMMA SeenStep ==
  ASSUME IInv, ApprovalInv, NEW h \in Handlers,
         pc' = [pc EXCEPT ![h] = pc'[h]], op' = [op EXCEPT ![h] = op'[h]],
         cmd' = [cmd EXCEPT ![h] = cmd'[h]],
         pc[h] = "idle" \/ UNCHANGED <<op, cmd>>,
         UNCHANGED <<envelope, tasksTopic, wire>>, everApproved \subseteq everApproved',
         \A c \in Commands : approvals'[c] = "approved" => c \in everApproved',
         \A g \in Handlers : pc[g] # "idle" /\ approvals[cmd[g]] = "absent" /\ g # h =>
           approvals'[cmd[g]] = "absent",
         DecisionSeen(h)'
  PROVE  ApprovalInv'
<1>1. ASSUME NEW g \in Handlers, g # h PROVE DecisionSeen(g)'
  <2>1. pc'[g] = pc[g] /\ op'[g] = op[g] /\ cmd'[g] = cmd[g]
    BY <1>1 DEF IInv, TypeOK
  <2>2. DecisionSeen(g)
    BY DEF ApprovalInv
  <2> QED BY <1>1, <2>1, <2>2 DEF DecisionSeen
<1>2. Published' = Published /\ OnWire' = OnWire
  BY DEF Published, OnWire
<1>3. \A c \in Commands : AskedFor(c) => AskedFor(c)'
  BY AskedForKept
<1>4. PublishedSeen'
  BY <1>2, <1>3 DEF ApprovalInv, PublishedSeen
<1> QED BY <1>1, <1>4 DEF ApprovalInv

LEMMA ApprovalSteps ==
  ASSUME IInv, ApprovalInv, [Next]_vars
  PROVE  ApprovalInv'
<1> USE DEF tables, topics, request, Goto
<1>t. /\ pc \in [Handlers -> Labels] /\ op \in [Handlers -> Ops \cup {"none"}]
      /\ cmd \in [Handlers -> Commands \cup {NoCommand}]
      /\ approvals \in [Commands -> ApprovalStatuses]
      /\ everApproved \subseteq Commands
      /\ wire \in [Handlers \X Task -> 0..MaxSends]
      /\ tasksTopic \in Seq(Task) /\ todo \in [Handlers -> Seq(Task)]
      /\ \A h \in Handlers : DecisionSeen(h)
      /\ \A c \in Commands : approvals[c] = "approved" => c \in everApproved
  BY DEF IInv, TypeOK, ApprovalInv
<1>1. ASSUME NEW h \in Handlers, Create(h) PROVE ApprovalInv'
  <2>1. PICK c \in Commands, e \in Envelope :
          /\ envelope[c] = NoEnvelope /\ envelope' = [envelope EXCEPT ![c] = e]
          /\ cmd' = [cmd EXCEPT ![h] = c]
    BY <1>1 DEF Create
  <2>2. /\ pc[h] = "idle" /\ pc' = [pc EXCEPT ![h] = "recordCommand"]
        /\ op' = [op EXCEPT ![h] = "create"]
        /\ UNCHANGED <<approvals, tasksTopic, wire, everApproved>>
    BY <1>1 DEF Create
  <2>3. ASSUME NEW g \in Handlers PROVE DecisionSeen(g)'
    <3>1. CASE g = h
      BY <1>t, <2>2, <3>1 DEF DecisionSeen, Releasing
    <3>2. CASE g # h
      <4>1. pc'[g] = pc[g] /\ op'[g] = op[g] /\ cmd'[g] = cmd[g]
        BY <1>t, <2>1, <2>2, <3>2
      <4>2. pc[g] # "idle" => cmd[g] # c /\ cmd[g] \in Commands
        BY <2>1 DEF IInv, Minted
      <4>3. pc[g] # "idle" => envelope'[cmd[g]] = envelope[cmd[g]]
        BY <2>1, <4>2 DEF IInv, TypeOK
      <4> QED BY <1>t, <2>2, <4>1, <4>3 DEF DecisionSeen, Releasing
    <3> QED BY <3>1, <3>2
  <2>4. ASSUME NEW t \in Published \cup OnWire
        PROVE  envelope'[CommandOf(t)] = envelope[CommandOf(t)]
    BY <2>1 DEF ApprovalInv, PublishedSeen, IInv, TypeOK
  <2>5. Published' = Published /\ OnWire' = OnWire
    BY <2>2 DEF Published, OnWire
  <2>6. \A d \in Commands : AskedFor(d) => AskedFor(d)'
    <3>1. op' = [op EXCEPT ![h] = op'[h]] /\ cmd' = [cmd EXCEPT ![h] = cmd'[h]]
      BY <1>t, <2>1, <2>2
    <3> QED BY <2>2, <3>1, AskedForKept
  <2>7. PublishedSeen'
    BY <2>2, <2>4, <2>5, <2>6 DEF ApprovalInv, PublishedSeen
  <2> QED BY <1>t, <2>2, <2>3, <2>7 DEF ApprovalInv
<1>2. ASSUME NEW h \in Handlers, Serve(h) PROVE ApprovalInv'
  <2>1. PICK o \in Ops \ (PublishOps \cup {"create"}), c \in Commands :
          /\ op' = [op EXCEPT ![h] = o] /\ cmd' = [cmd EXCEPT ![h] = c]
          /\ pc' = [pc EXCEPT ![h] = FirstLabel(o)]
    BY <1>2 DEF Serve
  <2>2. FirstLabel(o) = "getApproval" \/ (FirstLabel(o) = "load" /\ o \in ReleaseOps)
    BY DEF FirstLabel
  <2>3. DecisionSeen(h)'
    BY <1>t, <2>1, <2>2 DEF DecisionSeen, Releasing
  <2>4. UNCHANGED <<envelope, approvals, tasksTopic, wire, everApproved>> /\ pc[h] = "idle"
    BY <1>2 DEF Serve
  <2>5. pc' = [pc EXCEPT ![h] = pc'[h]] /\ op' = [op EXCEPT ![h] = op'[h]]
        /\ cmd' = [cmd EXCEPT ![h] = cmd'[h]]
    BY <1>t, <2>1
  <2> QED BY <1>t, <2>3, <2>4, <2>5, SeenStep
<1>3. ASSUME NEW h \in Handlers, PublishRaw(h) PROVE ApprovalInv'
  <2>1. PICK c \in Commands :
          /\ envelope[c] # NoEnvelope
          /\ cmd' = [cmd EXCEPT ![h] = c]
          /\ \/ op' = [op EXCEPT ![h] = "publishCommand"] /\ UNCHANGED wire
             \/ /\ op' = [op EXCEPT ![h] = "publishTask"]
                /\ \E i \in DOMAIN envelope[c].targets : Sent(h, <<c, i>>, MaxSends)
    BY <1>3 DEF PublishRaw
  <2>2. /\ pc[h] = "idle" /\ pc' = [pc EXCEPT ![h] = "done"]
        /\ UNCHANGED <<envelope, approvals, tasksTopic, everApproved>>
    BY <1>3 DEF PublishRaw
  <2>3. ASSUME NEW g \in Handlers PROVE DecisionSeen(g)'
    <3>1. CASE g = h
      BY <1>t, <2>2, <3>1 DEF DecisionSeen, Releasing
    <3>2. CASE g # h
      <4>1. pc'[g] = pc[g] /\ op'[g] = op[g] /\ cmd'[g] = cmd[g]
        BY <1>t, <2>1, <2>2, <3>2
      <4> QED BY <1>t, <2>2, <4>1 DEF DecisionSeen
    <3> QED BY <3>1, <3>2
  <2>4. AskedFor(c)' /\ \A d \in Commands : AskedFor(d) => AskedFor(d)'
    <3>1. op' = [op EXCEPT ![h] = op'[h]] /\ cmd' = [cmd EXCEPT ![h] = cmd'[h]]
          /\ cmd'[h] = c /\ op'[h] \in PublishOps
      BY <1>t, <2>1 DEF PublishOps
    <3> QED BY <2>2, <3>1, AskedForKept DEF AskedFor
  <2>5. \A t \in (Published \cup OnWire)' : t \in Published \cup OnWire \/ CommandOf(t) = c
    <3>1. CASE UNCHANGED wire
      BY <2>2, <3>1 DEF Published, OnWire
    <3>2. ASSUME NEW i \in DOMAIN envelope[c].targets, Sent(h, <<c, i>>, MaxSends)
          PROVE  \A t \in (Published \cup OnWire)' : t \in Published \cup OnWire
                                                     \/ CommandOf(t) = c
      <4>1. <<c, i>> \in Task
        <5>1. envelope[c].targets \in TargetLists
          BY <2>1 DEF IInv, TypeOK, Envelope
        <5>2. PICK n \in 0..MaxTargets : envelope[c].targets \in [1..n -> Targets]
          BY <5>1 DEF TargetLists
        <5> QED BY <3>2, <5>2, MaxTargetsAssumption DEF Task
      <4>2. OnWire' \subseteq OnWire \cup {<<c, i>>}
        BY <1>t, <3>2, <4>1, WireNext, SendsBounded DEF Sent, OnWire
      <4> QED BY <2>2, <4>2 DEF CommandOf, Published
    <3> QED BY <2>1, <3>1, <3>2
  <2>6. PublishedSeen'
    BY <2>1, <2>2, <2>4, <2>5 DEF ApprovalInv, PublishedSeen
  <2> QED BY <1>t, <2>2, <2>3, <2>6 DEF ApprovalInv
<1>4. ASSUME NEW h \in Handlers, NEW l, pc' = [pc EXCEPT ![h] = l],
             UNCHANGED <<op, cmd>>
      PROVE  /\ pc' = [pc EXCEPT ![h] = pc'[h]] /\ op' = [op EXCEPT ![h] = op'[h]]
             /\ cmd' = [cmd EXCEPT ![h] = cmd'[h]]
             /\ pc'[h] = l /\ op'[h] = op[h] /\ cmd'[h] = cmd[h]
  BY <1>t, <1>4
<1>5. ASSUME NEW h \in Handlers, RecordCommand(h) \/ CreateApproval(h) \/ RemoveApproval(h)
      PROVE  ApprovalInv'
  <2>1. PICK l \in {"storeTasks", "done"} : pc' = [pc EXCEPT ![h] = l]
    BY <1>5 DEF RecordCommand, CreateApproval, RemoveApproval
  <2>2. UNCHANGED <<op, cmd, envelope, tasksTopic, wire, everApproved>>
    BY <1>5 DEF RecordCommand, CreateApproval, RemoveApproval
  <2>3. DecisionSeen(h)'
    BY <1>4, <2>1, <2>2 DEF DecisionSeen, Releasing
  <2>4. ASSUME NEW g \in Handlers, pc[g] # "idle", approvals[cmd[g]] = "absent", g # h
        PROVE  approvals'[cmd[g]] = "absent"
    <3>1. cmd[g] \in Commands
      BY <2>4 DEF IInv, Minted
    <3>2. CASE RecordCommand(h)
      BY <2>4, <3>2 DEF RecordCommand
    <3>3. CASE RemoveApproval(h)
      BY <1>t, <2>4, <3>1, <3>3 DEF RemoveApproval, DeleteApproval
    <3>4. CASE CreateApproval(h)
      <4>1. cmd[g] # cmd[h]
        BY <2>4, <3>4 DEF IInv, CreatorAlone, Storing, CreateApproval
      <4>2. approvals' \in {approvals, [approvals EXCEPT ![cmd[h]] = "pending"]}
        BY <3>4 DEF CreateApproval, UpsertApproval
      <4> QED BY <1>t, <2>4, <3>1, <4>1, <4>2
    <3> QED BY <1>5, <3>2, <3>3, <3>4
  <2>5. \A c \in Commands : approvals'[c] = "approved" => approvals[c] = "approved"
    BY <1>5, <1>t DEF RecordCommand, CreateApproval, UpsertApproval, RemoveApproval,
                      DeleteApproval
  <2> QED BY <1>4, <1>t, <2>1, <2>2, <2>3, <2>4, <2>5, SeenStep
<1>6. ASSUME NEW h \in Handlers,
             StoreTask(h) \/ PublishCommand(h) \/ MarkQueued(h) \/ GetApproval(h) \/ DecideStatus(h)
      PROVE  ApprovalInv'
  <2>1. UNCHANGED <<op, cmd, envelope, approvals, tasksTopic, wire, everApproved>>
    BY <1>6 DEF StoreTask, PublishCommand, MarkQueued, GetApproval, DecideStatus
  <2>2. CASE StoreTask(h)
    <3>1. pc' = [pc EXCEPT ![h] = pc[h]] /\ pc[h] = "storeTasks"
      BY <1>t, <2>2 DEF StoreTask
    <3>2. DecisionSeen(h)'
      BY <1>4, <2>1, <3>1 DEF DecisionSeen, Releasing
    <3> QED BY <1>t, <1>4, <2>1, <3>1, <3>2, SeenStep
  <2>3. CASE PublishCommand(h) \/ MarkQueued(h)
    <3>1. PICK l \in {"publishTasks", "setStatus", "done"} : pc' = [pc EXCEPT ![h] = l]
      BY <2>3 DEF PublishCommand, MarkQueued, LabelAfter
    <3>2. pc[h] \in Releasing
      BY <2>3 DEF PublishCommand, MarkQueued, Releasing
    <3>3. DecisionSeen(h)'
      BY <1>t, <1>4, <2>1, <3>1, <3>2 DEF DecisionSeen, Releasing
    <3> QED BY <1>t, <1>4, <2>1, <3>1, <3>3, SeenStep
  <2>4. CASE GetApproval(h)
    <3>1. PICK l \in {"done", "deleteApproval", "decide"} : pc' = [pc EXCEPT ![h] = l]
      <4>1. PICK r \in Replies :
              pc' = [pc EXCEPT ![h] =
                IF approvals[cmd[h]] = "absent" THEN "done"
                ELSE LabelAfter(r, IF op[h] = "delete" THEN "deleteApproval" ELSE "decide")]
        BY <2>4 DEF GetApproval
      <4> QED BY <4>1 DEF LabelAfter
    <3>2. DecisionSeen(h)'
      BY <1>4, <2>1, <3>1 DEF DecisionSeen, Releasing
    <3> QED BY <1>t, <1>4, <2>1, <3>1, <3>2, SeenStep
  <2>5. CASE DecideStatus(h)
    <3>1. PICK l \in {"done", "reread"} : pc' = [pc EXCEPT ![h] = l]
      BY <2>5 DEF DecideStatus, LabelAfter
    <3>2. pc[h] = "decideStatus"
      BY <2>5 DEF DecideStatus
    <3>3. DecisionSeen(h)'
      BY <1>t, <1>4, <2>1, <3>1, <3>2 DEF DecisionSeen, Releasing
    <3> QED BY <1>t, <1>4, <2>1, <3>1, <3>3, SeenStep
  <2> QED BY <1>6, <2>2, <2>3, <2>4, <2>5
<1>7. ASSUME NEW h \in Handlers, Decide(h) PROVE ApprovalInv'
  <2>1. PICK r \in Replies :
          /\ approvals' = IF Applied(r)
                          THEN UpdateApproval(approvals, cmd[h],
                                 IF op[h] = "approve" THEN "approved" ELSE "rejected")
                          ELSE approvals
          /\ pc' = [pc EXCEPT ![h] = LabelAfter(r, "decideStatus")]
    BY <1>7 DEF Decide
  <2>2. /\ UNCHANGED <<op, cmd, envelope, tasksTopic, wire>> /\ pc[h] = "decide"
        /\ everApproved' = {c \in Commands : approvals'[c] = "approved"} \cup everApproved
    BY <1>7 DEF Decide
  <2>3. cmd[h] \in Commands
    BY <2>2 DEF IInv, Minted
  <2>4. \A c \in Commands : approvals[c] = "absent" => approvals'[c] = "absent"
    BY <1>t, <2>1 DEF UpdateApproval
  <2>5. r = "ok" /\ op[h] = "approve" => approvals'[cmd[h]] \in {"absent", "approved"}
    BY <1>t, <2>1, <2>3 DEF UpdateApproval, Applied
  <2>6. DecisionSeen(h)'
    <3>1. CASE r = "ok"
      BY <1>4, <2>1, <2>2, <2>3, <2>5, <3>1 DEF DecisionSeen, Releasing, LabelAfter
    <3>2. CASE r # "ok"
      BY <1>4, <2>1, <2>2, <3>2 DEF DecisionSeen, Releasing, LabelAfter
    <3> QED BY <3>1, <3>2
  <2>7. \A g \in Handlers : pc[g] # "idle" => cmd[g] \in Commands
    BY DEF IInv, Minted
  <2> QED BY <1>4, <1>t, <2>1, <2>2, <2>4, <2>6, <2>7, SeenStep
<1>8. ASSUME NEW h \in Handlers, Reread(h) PROVE ApprovalInv'
  <2>1. PICK r \in Replies :
          pc' = [pc EXCEPT ![h] = IF approvals[cmd[h]] # "absent" /\ op[h] = "approve"
                                  THEN LabelAfter(r, "load") ELSE "done"]
    BY <1>8 DEF Reread
  <2>2. /\ UNCHANGED <<op, cmd, envelope, approvals, tasksTopic, wire, everApproved>>
        /\ pc[h] = "reread"
    BY <1>8 DEF Reread
  <2>3. DecisionSeen(h)'
    BY <1>t, <1>4, <2>1, <2>2 DEF DecisionSeen, Releasing, LabelAfter
  <2> QED BY <1>t, <1>4, <2>1, <2>2, <2>3, SeenStep
<1>9. ASSUME NEW h \in Handlers, LoadTasks(h) \/ SetStatus(h) PROVE ApprovalInv'
  <2>1. /\ UNCHANGED <<op, cmd, envelope, approvals, tasksTopic, wire, everApproved>>
        /\ pc[h] \in {"load", "setStatus"}
    BY <1>9 DEF LoadTasks, SetStatus
  <2>2. PICK l \in {"publishCommand", "done"} :
          pc' = [pc EXCEPT ![h] = l] /\ (pc[h] = "setStatus" => l = "done")
    BY <1>9 DEF LoadTasks, SetStatus
  <2>3. DecisionSeen(h)'
    BY <1>t, <1>4, <2>1, <2>2 DEF DecisionSeen, Releasing
  <2> QED BY <1>t, <1>4, <2>1, <2>2, <2>3, SeenStep
<1>10. ASSUME NEW h \in Handlers, FinishStore(h) PROVE ApprovalInv'
  <2>1. /\ pc' = [pc EXCEPT ![h] = AfterStore(envelope[cmd[h]])]
        /\ UNCHANGED <<op, cmd, envelope, approvals, tasksTopic, wire, everApproved>>
    BY <1>10 DEF FinishStore
  <2>2. envelope[cmd[h]].approvalRequired \in BOOLEAN
    BY <1>10, NoEnvelopeAssumption DEF FinishStore, IInv, TypeOK, Minted, Envelope
  <2>3. DecisionSeen(h)'
    <3>1. /\ pc'[h] = AfterStore(envelope[cmd[h]]) /\ op'[h] = op[h] /\ cmd'[h] = cmd[h]
          /\ envelope' = envelope
      BY <1>t, <2>1
    <3>2. CASE envelope[cmd[h]].approvalRequired
      <4>1. pc'[h] = "createApproval"
        BY <3>1, <3>2 DEF AfterStore
      <4> QED BY <4>1 DEF DecisionSeen, Releasing
    <3>3. CASE ~envelope[cmd[h]].approvalRequired
      <4>1. pc'[h] = "publishCommand"
        BY <3>1, <3>3 DEF AfterStore
      <4>2. ~envelope'[cmd'[h]].approvalRequired
        BY <3>1, <3>3
      <4> QED BY <4>1, <4>2 DEF DecisionSeen, Releasing
    <3> QED BY <2>2, <3>2, <3>3
  <2> QED BY <1>t, <1>4, <2>1, <2>3, SeenStep
<1>11. ASSUME NEW h \in Handlers, PublishTask(h) \/ Drop(h) PROVE ApprovalInv'
  <2>1. /\ pc' = [pc EXCEPT ![h] = pc'[h]] /\ pc'[h] \in {pc[h], "done", "dropped"}
        /\ UNCHANGED <<op, cmd, envelope, approvals, everApproved>>
    BY <1>t, <1>11 DEF PublishTask, Drop
  <2>2. ASSUME NEW g \in Handlers PROVE DecisionSeen(g)'
    <3>1. pc'[g] \in {pc[g], "done", "dropped"}
      BY <1>t, <2>1
    <3> QED BY <1>t, <2>1, <3>1 DEF DecisionSeen, Releasing
  <2>3. CASE UNCHANGED <<tasksTopic, wire>>
    <3>1. PublishedSeen'
      BY <2>1, <2>3 DEF ApprovalInv, PublishedSeen, Published, OnWire, AskedFor
    <3> QED BY <1>t, <2>1, <2>2, <3>1 DEF ApprovalInv
  <2>4. ASSUME pc[h] = "publishTasks", todo[h] # <<>>, NEW t, t = Head(todo[h]),
               tasksTopic' \in {tasksTopic, Append(tasksTopic, t)},
               NEW n \in 0..MaxSends, Sent(h, t, n)
        PROVE  ApprovalInv'
    <3>1. t \in Task /\ CommandOf(t) = cmd[h]
      BY <1>t, <2>4, SeqRange DEF IInv, PlanKept
    <3>2. cmd[h] \in Commands /\ envelope[cmd[h]] # NoEnvelope
      BY <2>4 DEF IInv, Minted
    <3>3. Published' \subseteq Published \cup {t}
      <4>1. Range(Append(tasksTopic, t)) = Range(tasksTopic) \cup {t}
        BY <1>t, <3>1, SeqRange
      <4> QED BY <2>4, <4>1 DEF Published
    <3>4. OnWire' \subseteq OnWire \cup {t}
      BY <1>t, <2>4, <3>1, WireNext DEF Sent, OnWire
    <3>5. envelope[cmd[h]].approvalRequired => cmd[h] \in everApproved \/ AskedFor(cmd[h])
      BY <1>t, <2>4 DEF DecisionSeen, Releasing, AskedFor
    <3>6. PublishedSeen'
      BY <2>1, <3>1, <3>2, <3>3, <3>4, <3>5 DEF ApprovalInv, PublishedSeen, AskedFor
    <3> QED BY <1>t, <2>1, <2>2, <3>6 DEF ApprovalInv
  <2>5. CASE PublishTask(h)
    <3>1. /\ pc[h] = "publishTasks" /\ todo[h] # <<>>
          /\ tasksTopic' \in {tasksTopic, Append(tasksTopic, Head(todo[h]))}
          /\ \E n \in {MaxSends - 1, MaxSends} : Sent(h, Head(todo[h]), n)
      BY <2>5 DEF PublishTask
    <3>2. PICK n \in 0..MaxSends : Sent(h, Head(todo[h]), n)
      BY <3>1, SendsBounded
    <3> QED BY <2>4, <3>1, <3>2
  <2>6. CASE Drop(h)
    <3>1. tasksTopic' = tasksTopic
      BY <2>6 DEF Drop
    <3>2. CASE UNCHANGED wire
      BY <2>3, <3>1, <3>2
    <3>3. CASE pc[h] = "publishTasks" /\ todo[h] # <<>> /\ Sent(h, Head(todo[h]), MaxSends)
      BY <2>4, <3>1, <3>3, SendsBounded
    <3> QED BY <2>6, <3>2, <3>3 DEF Drop
  <2> QED BY <1>11, <2>5, <2>6
<1>12. CASE Land
  <2>1. PICK p \in Handlers \X Task :
          /\ wire[p] > 0 /\ wire' = [wire EXCEPT ![p] = wire[p] - 1]
          /\ tasksTopic' = Append(tasksTopic, p[2])
    BY <1>12 DEF Land
  <2>2. UNCHANGED <<envelope, approvals, op, cmd, pc, everApproved>>
    BY <1>12 DEF Land
  <2>3. p[2] \in OnWire /\ p[2] \in Task
    <3>1. p = <<p[1], p[2]>> /\ p[1] \in Handlers /\ p[2] \in Task
      OBVIOUS
    <3> QED BY <2>1, <3>1 DEF OnWire
  <2>4. Published' = Published \cup {p[2]}
    BY <1>t, <2>1, <2>3, SeqRange DEF Published
  <2>5. OnWire' \subseteq OnWire
    <3>1. \A q \in Handlers \X Task : wire'[q] > 0 => wire[q] > 0
      BY <1>t, <2>1, WireNext
    <3> QED BY <3>1 DEF OnWire
  <2>6. PublishedSeen'
    BY <2>2, <2>3, <2>4, <2>5 DEF ApprovalInv, PublishedSeen, AskedFor
  <2>7. \A h \in Handlers : DecisionSeen(h)'
    BY <1>t, <2>2 DEF DecisionSeen
  <2> QED BY <1>t, <2>2, <2>6, <2>7 DEF ApprovalInv
<1>13. CASE UNCHANGED vars
  BY <1>13 DEF vars, ApprovalInv, DecisionSeen, PublishedSeen, Published, OnWire, AskedFor
<1> QED BY <1>1, <1>2, <1>3, <1>5, <1>6, <1>7, <1>8, <1>9, <1>10, <1>11, <1>12, <1>13
        DEF Next, Proceed

LEMMA InitApprovalInv == Init => ApprovalInv
<1> SUFFICES ASSUME Init PROVE ApprovalInv
  OBVIOUS
<1>1. Published = {}
  <2>1. tasksTopic \in Seq(Task) /\ tasksTopic = <<>>
    BY DEF Init
  <2> QED BY <2>1, SeqRange DEF Published
<1>2. OnWire = {}
  <2>1. \A h \in Handlers, t \in Task : wire[<<h, t>>] = 0
    BY DEF Init
  <2>2. ~(0 > 0)
    OBVIOUS
  <2> QED BY <2>1, <2>2 DEF OnWire
<1> QED BY <1>1, <1>2 DEF Init, ApprovalInv, DecisionSeen, PublishedSeen, Releasing

\* No task of a command that needs approval is published before an approval of
\* that command unless an operator asks queue-service for it, for any number of
\* concurrent approvers, rejecters and deleters and whatever calls fail; where only
\* the gateway's own operations are served, none is at all.
THEOREM ReleaseAwaitsApproval == Spec => []ApprovalPrecedesRelease
<1>1. IInv /\ ApprovalInv /\ [Next]_vars => ApprovalInv'
  BY ApprovalSteps
<1>2. ApprovalInv => ApprovalPrecedesRelease
  BY DEF ApprovalInv, PublishedSeen, ApprovalPrecedesRelease
<1> QED BY InitApprovalInv, <1>1, <1>2, Invariance, PTL DEF Spec

=============================================================================
