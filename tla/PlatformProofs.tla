----------------------------- MODULE PlatformProofs -----------------------------
(***************************************************************************)
(* The platform as a whole keeps the promise of Moderation, for any finite *)
(* number of requests and every number of commands, targets, workers and   *)
(* regions.  What is proved of the control plane and of the workers apart  *)
(* from one another is carried over to their composition: a step of one    *)
(* plane keeps the invariant of the other.                                 *)
(***************************************************************************)
EXTENDS Platform, ReleaseCountProofs

PlaneProofs == INSTANCE RowProofs WITH pc <- call, StoredTasks <- {}

PlatformInv == IInv /\ ApprovalInv /\ CountInv /\ PlaneProofs!IInv /\ PlaneProofs!RowInv

-----------------------------------------------------------------------------
(* The workers of the composition are those of WorkerProofs: definition by  *)
(* definition, the two instances of Worker are the same.                    *)

LEMMA SameActions ==
  ASSUME NEW w \in Workers
  PROVE  /\ Plane!Assign(w) <=> PlaneProofs!Assign(w)
         /\ Plane!CommitLands(w) <=> PlaneProofs!CommitLands(w)
         /\ Plane!Crash(w) <=> PlaneProofs!Crash(w)
         /\ Plane!Restart(w) <=> PlaneProofs!Restart(w)
         /\ Plane!Receive(w) <=> PlaneProofs!Receive(w)
         /\ Plane!HandleMessage(w) <=> PlaneProofs!HandleMessage(w)
<1> USE DEF Plane!group, PlaneProofs!group, Plane!topics, PlaneProofs!topics,
     Plane!rows, PlaneProofs!rows, Plane!evidence, PlaneProofs!evidence,
     Plane!history, PlaneProofs!history, Plane!Fixed, PlaneProofs!Fixed,
     Plane!TaskAt, PlaneProofs!TaskAt, Plane!LetGo, PlaneProofs!LetGo,
     Plane!Die, PlaneProofs!Die, Plane!After, PlaneProofs!After,
     Plane!Record, PlaneProofs!Record, Plane!Replies, PlaneProofs!Replies
<1>1. Plane!Assign(w) <=> PlaneProofs!Assign(w)
  BY DEF Plane!Assign, PlaneProofs!Assign, Plane!StartOffset, PlaneProofs!StartOffset
<1>2. Plane!CommitLands(w) <=> PlaneProofs!CommitLands(w)
  BY DEF Plane!CommitLands, PlaneProofs!CommitLands
<1>3. Plane!Crash(w) <=> PlaneProofs!Crash(w)
  BY DEF Plane!Crash, PlaneProofs!Crash
<1>4. Plane!Restart(w) <=> PlaneProofs!Restart(w)
  BY DEF Plane!Restart, PlaneProofs!Restart
<1>5. Plane!Receive(w) <=> PlaneProofs!Receive(w)
  BY DEF Plane!Receive, PlaneProofs!Receive
<1>6. Plane!HandleMessage(w) <=> PlaneProofs!HandleMessage(w)
  <2>1. Plane!AcquireLease(w) <=> PlaneProofs!AcquireLease(w)
    BY DEF Plane!AcquireLease, PlaneProofs!AcquireLease,
       Plane!LeaseRegion, PlaneProofs!LeaseRegion
  <2>2. Plane!SkipTask(w) <=> PlaneProofs!SkipTask(w)
    BY DEF Plane!SkipTask, PlaneProofs!SkipTask, Plane!LeaseRegion, PlaneProofs!LeaseRegion,
       Plane!AckOffset, PlaneProofs!AckOffset
  <2>3. Plane!Pace(w) <=> PlaneProofs!Pace(w)
    BY DEF Plane!Pace, PlaneProofs!Pace
  <2>4. Plane!Panic(w) <=> PlaneProofs!Panic(w)
    BY DEF Plane!Panic, PlaneProofs!Panic
  <2>5. Plane!Execute(w) <=> PlaneProofs!Execute(w)
    BY DEF Plane!Execute, PlaneProofs!Execute, Plane!OutcomesOf, PlaneProofs!OutcomesOf,
       Plane!Outcomes, PlaneProofs!Outcomes
  <2>6. Plane!Penalize(w) <=> PlaneProofs!Penalize(w)
    BY DEF Plane!Penalize, PlaneProofs!Penalize
  <2>7. /\ Plane!PublishResult(w) <=> PlaneProofs!PublishResult(w)
        /\ Plane!PublishAudit(w) <=> PlaneProofs!PublishAudit(w)
    BY DEF Plane!PublishResult, PlaneProofs!PublishResult,
       Plane!PublishAudit, PlaneProofs!PublishAudit
  <2>8. Plane!StoreResult(w) <=> PlaneProofs!StoreResult(w)
    BY DEF Plane!StoreResult, PlaneProofs!StoreResult
  <2>9. Plane!UpdateTask(w) <=> PlaneProofs!UpdateTask(w)
    BY DEF Plane!UpdateTask, PlaneProofs!UpdateTask,
       Plane!UpdateTaskOutcome, PlaneProofs!UpdateTaskOutcome
  <2>10. /\ Plane!StoreAudit(w) <=> PlaneProofs!StoreAudit(w)
         /\ Plane!StoreObservation(w) <=> PlaneProofs!StoreObservation(w)
    BY DEF Plane!StoreAudit, PlaneProofs!StoreAudit,
       Plane!StoreObservation, PlaneProofs!StoreObservation
  <2>11. Plane!Commit(w) <=> PlaneProofs!Commit(w)
    BY DEF Plane!Commit, PlaneProofs!Commit, Plane!AckOffset, PlaneProofs!AckOffset
  <2> QED BY <2>1, <2>2, <2>3, <2>4, <2>5, <2>6, <2>7, <2>8, <2>9, <2>10, <2>11
          DEF Plane!HandleMessage, PlaneProofs!HandleMessage
<1> QED BY <1>1, <1>2, <1>3, <1>4, <1>5, <1>6

LEMMA SameStates ==
  /\ Plane!Init <=> PlaneProofs!Init
  /\ Plane!TypeOK <=> PlaneProofs!TypeOK
<1>1. Plane!Init <=> PlaneProofs!Init
  BY DEF Plane!Init, PlaneProofs!Init, Plane!Task, PlaneProofs!Task,
     Plane!NoTaskRow, PlaneProofs!NoTaskRow, Plane!QueuedRow, PlaneProofs!QueuedRow
<1>2. Plane!TypeOK <=> PlaneProofs!TypeOK
  BY DEF Plane!TypeOK, PlaneProofs!TypeOK, Plane!Task, PlaneProofs!Task,
     Plane!TaskRow, PlaneProofs!TaskRow, Plane!TaskStatuses, PlaneProofs!TaskStatuses,
     Plane!Busy, PlaneProofs!Busy, Plane!Reporting, PlaneProofs!Reporting,
     Plane!Outcomes, PlaneProofs!Outcomes
<1> QED BY <1>1, <1>2

\* What Worker assumes holds of the instance, as every citation of its theorems asks.
LEMMA WorkerAssumptions ==
  /\ NoWorker \notin Workers /\ NoRegion \notin Regions
  /\ RegionOf \in [Workers -> Regions]
  /\ LeaseRegionOf \in [PlaneProofs!Task -> Regions \cup {NoRegion}]
  /\ Shape \in [PlaneProofs!Task -> PlaneProofs!Shapes] /\ {} \subseteq PlaneProofs!Task
  /\ MayFail \in BOOLEAN
  /\ MaxLog \in Nat /\ MaxAttempts \in Nat /\ MaxDisruptions \in Nat /\ MaxTargets \in Nat
  BY PlaneAssumption, MayFailAssumption, MaxTargetsAssumption
     DEF Task, PlaneProofs!Task, Plane!Shapes, PlaneProofs!Shapes

\* A step of the execution plane is a step of Worker.
LEMMA PlaneIsWorker == PlaneStep => PlaneProofs!Next
<1> SUFFICES ASSUME PlaneStep PROVE PlaneProofs!Next
  OBVIOUS
<1>1. CASE Plane!LeaseExpires
  BY <1>1 DEF PlaneProofs!Next, Plane!LeaseExpires, PlaneProofs!LeaseExpires,
     Plane!group, PlaneProofs!group, Plane!evidence, PlaneProofs!evidence,
     Plane!topics, PlaneProofs!topics, Plane!rows, PlaneProofs!rows,
     Plane!history, PlaneProofs!history
<1>2. ASSUME NEW w \in Workers, WorkerStep(w) PROVE PlaneProofs!Next
  BY <1>2, SameActions DEF WorkerStep, PlaneProofs!Next
<1> QED BY <1>1, <1>2 DEF PlaneStep

-----------------------------------------------------------------------------
(* What a step of one plane does to the state it shares with the other.     *)

\* What a request leaves in the rows: it plans tasks and queues them, and neither
\* counts attempts nor makes an outcome up.
RowsReset ==
  \A t \in Task : /\ tasks'[t].attempts \in {0, tasks[t].attempts}
                  /\ tasks'[t].status \in {tasks[t].status, "planned", "queued"}

\* A message that arrives fills the topic, a request does so or writes the rows, and
\* no step does both at once.
LEMMA ControlEffect ==
  ASSUME IInv, Next
  PROVE  \/ UNCHANGED tasksTopic /\ RowsReset
         \/ UNCHANGED tasks /\ \E t \in Task : tasksTopic' = Append(tasksTopic, t)
<1> USE DEF tables, topics
<1>0. UNCHANGED tasks => RowsReset
  BY DEF RowsReset
<1>l. CASE Land
  BY <1>l DEF Land
<1> SUFFICES ASSUME NEW h \in Handlers,
                    Create(h) \/ Serve(h) \/ PublishRaw(h) \/ Proceed(h) \/ Drop(h)
             PROVE  \/ UNCHANGED tasksTopic /\ RowsReset
                    \/ UNCHANGED tasks /\ \E t \in Task : tasksTopic' = Append(tasksTopic, t)
  BY <1>l DEF Next
<1>1. CASE PublishRaw(h) \/ Drop(h)
  BY <1>0, <1>1 DEF PublishRaw, Drop
<1>2. CASE PublishTask(h)
  <2>1. Head(todo[h]) \in Task
    <3>1. todo[h] \in Seq(Task) /\ todo[h] # <<>>
      BY <1>2 DEF PublishTask, IInv, TypeOK
    <3> QED BY <3>1, SeqRange
  <2> QED BY <1>0, <1>2, <2>1 DEF PublishTask
<1>3. CASE Create(h) \/ Serve(h) \/ RecordCommand(h) \/ FinishStore(h) \/ CreateApproval(h)
           \/ GetApproval(h) \/ Decide(h) \/ DecideStatus(h) \/ Reread(h)
  BY <1>3 DEF Create, Serve, RecordCommand, FinishStore, CreateApproval,
              GetApproval, Decide, DecideStatus, Reread, RowsReset
<1>4. CASE RemoveApproval(h) \/ LoadTasks(h) \/ PublishCommand(h) \/ SetStatus(h)
  BY <1>4 DEF RemoveApproval, LoadTasks, PublishCommand, SetStatus, RowsReset
<1>5. CASE StoreTask(h)
  <2>1. /\ UNCHANGED tasksTopic
        /\ tasks' \in {tasks, InsertTask(tasks, envelope[cmd[h]].targets, Head(todo[h]))}
    BY <1>5 DEF StoreTask
  <2>2. tasks' \in {tasks, [tasks EXCEPT ![Head(todo[h])] = PlannedRow]}
    BY <2>1 DEF InsertTask
  <2>3. DOMAIN tasks = Task
    BY DEF IInv, TypeOK
  <2>4. ASSUME NEW t \in Task
        PROVE  /\ tasks'[t].attempts \in {0, tasks[t].attempts}
               /\ tasks'[t].status \in {tasks[t].status, "planned", "queued"}
    <3>1. tasks'[t] \in {tasks[t], PlannedRow}
      BY <2>2, <2>3
    <3> QED BY <3>1 DEF PlannedRow
  <2> QED BY <2>1, <2>4 DEF RowsReset
<1>6. CASE MarkQueued(h)
  <2>1. UNCHANGED tasksTopic /\ tasks' \in {tasks, MarkTasksQueued(tasks, cmd[h])}
    BY <1>6 DEF MarkQueued
  <2> QED BY <2>1 DEF RowsReset, MarkTasksQueued
<1> QED BY <1>1, <1>2, <1>3, <1>4, <1>5, <1>6 DEF Proceed

\* A worker writes rows in UpdateTask alone, calls Discord in Execute alone, and
\* never writes to the topic.
LEMMA PlaneEffect ==
  ASSUME PlaneStep
  PROVE  /\ UNCHANGED tasksTopic
         /\ UNCHANGED tasks \/ \E w \in Workers : Plane!UpdateTask(w)
         /\ UNCHANGED attempts \/ \E w \in Workers : Plane!Execute(w)
<1> USE DEF Plane!group, Plane!topics, Plane!rows, Plane!evidence, Plane!history, Plane!Fixed,
            Plane!Die
<1>1. CASE Plane!LeaseExpires
  BY <1>1 DEF Plane!LeaseExpires
<1>2. ASSUME NEW w \in Workers,
             \/ Plane!Assign(w) \/ Plane!CommitLands(w) \/ Plane!Crash(w)
             \/ Plane!Restart(w) \/ Plane!Receive(w)
      PROVE  UNCHANGED <<tasksTopic, tasks, attempts>>
  BY <1>2 DEF Plane!Assign, Plane!CommitLands, Plane!Crash, Plane!Restart, Plane!Receive
<1>3. ASSUME NEW w \in Workers, Plane!HandleMessage(w)
      PROVE  /\ UNCHANGED tasksTopic /\ (UNCHANGED tasks \/ Plane!UpdateTask(w))
             /\ UNCHANGED attempts \/ Plane!Execute(w)
  <2>1. CASE \/ Plane!AcquireLease(w) \/ Plane!SkipTask(w) \/ Plane!Pace(w) \/ Plane!Panic(w)
             \/ Plane!Execute(w) \/ Plane!Penalize(w) \/ Plane!Commit(w)
    BY <2>1 DEF Plane!AcquireLease, Plane!SkipTask, Plane!Pace, Plane!Panic, Plane!Execute,
                Plane!Penalize, Plane!Commit
  <2>2. CASE \/ Plane!PublishResult(w) \/ Plane!PublishAudit(w) \/ Plane!StoreResult(w)
             \/ Plane!UpdateTask(w) \/ Plane!StoreAudit(w) \/ Plane!StoreObservation(w)
    BY <2>2 DEF Plane!PublishResult, Plane!PublishAudit, Plane!StoreResult, Plane!UpdateTask,
                Plane!StoreAudit, Plane!StoreObservation
  <2> QED BY <1>3, <2>1, <2>2 DEF Plane!HandleMessage
<1> QED BY <1>1, <1>2, <1>3 DEF PlaneStep, WorkerStep

\* A worker that writes the row of a task has an answer of Discord to show for it.
LEMMA UpdateEffect ==
  ASSUME PlatformInv, NEW w \in Workers, Plane!UpdateTask(w)
  PROVE  \E t \in Task, o \in Plane!Outcomes :
           <<t, o>> \in Answers /\ tasks' \in {tasks, UpdateTaskOutcome(tasks, t, o)}
<1> DEFINE i == at[w]  k == attempt[w]
<1>1. /\ call[w] = "updateTask"
      /\ tasks' \in {tasks, Plane!UpdateTaskOutcome(tasks, tasksTopic[i], attempts[k].outcome)}
  BY DEF Plane!UpdateTask, Plane!TaskAt
<1>2. PlaneProofs!TypeOK /\ PlaneProofs!Holds(w)
  BY DEF PlatformInv, PlaneProofs!IInv, PlaneProofs!InHand
<1>3. i # 0 /\ k # 0 /\ attempts[k].offset = i
  BY <1>1, <1>2 DEF PlaneProofs!Holds, PlaneProofs!Busy, PlaneProofs!Reporting
<1>4. /\ attempts \in Seq([offset : 1..Len(tasksTopic), outcome : PlaneProofs!Outcomes])
      /\ k \in DOMAIN attempts /\ i \in DOMAIN tasksTopic
  BY <1>2, <1>3 DEF PlaneProofs!TypeOK
<1>5. attempts[k] \in [offset : 1..Len(tasksTopic), outcome : PlaneProofs!Outcomes]
  BY <1>4, WorkerAssumptions, PlaneProofs!SeqElement
<1>6. attempts[k].outcome \in Plane!Outcomes
  BY <1>5 DEF PlaneProofs!Outcomes, Plane!Outcomes
<1>7. tasksTopic[i] \in Task
  BY <1>4 DEF PlatformInv, IInv, TypeOK
<1>8. <<tasksTopic[i], attempts[k].outcome>> \in Answers
  BY <1>3, <1>4 DEF Answers
<1> QED BY <1>1, <1>6, <1>7, <1>8 DEF Plane!UpdateTaskOutcome, UpdateTaskOutcome

\* The rows of a command stay the same ones, and none comes to read "queued".
LEMMA OutcomeKeepsControl ==
  ASSUME IInv, UNCHANGED <<tasksTopic, controlVars>>, NEW t \in Task, NEW o,
         tasks' \in {tasks, UpdateTaskOutcome(tasks, t, o)}
  PROVE  IInv'
<1> USE DEF controlVars, request
<1>t. TypeOK /\ tasks \in [Task -> TaskRow]
  BY DEF IInv, TypeOK
<1>1. /\ tasks' \in [Task -> TaskRow]
      /\ \A u \in Task : /\ tasks'[u].status = "absent" <=> tasks[u].status = "absent"
                         /\ tasks'[u].status = "queued" => tasks[u].status = "queued"
  <2>1. CASE tasks' = tasks
    BY <1>t, <2>1
  <2> DEFINE row == [status |-> IF o = "success" THEN "completed" ELSE "failed",
                     attempts |-> tasks[t].attempts + 1, retryAt |-> o # "success"]
  <2>2. CASE tasks' = [tasks EXCEPT ![t] = row] /\ tasks[t].status # "absent"
    <3>1. row \in TaskRow /\ row.status \notin {"absent", "queued"}
      <4>1. tasks[t].attempts + 1 \in Nat
        BY <1>t DEF TaskRow
      <4> QED BY <4>1 DEF TaskRow, TaskStatuses
    <3> HIDE DEF row
    <3> QED BY <1>t, <2>2, <3>1
  <2> QED BY <2>1, <2>2 DEF UpdateTaskOutcome
<1>2. \A c : TaskRows(tasks, c)' = TaskRows(tasks, c)
  BY <1>1 DEF TaskRows
<1>3. Published' = Published
  BY DEF Published
<1>4. TypeOK'
  BY <1>t, <1>1 DEF TypeOK
<1>5. Minted' /\ CreatorAlone'
  BY DEF IInv, Minted, CreatorAlone
<1>6. PlanKept'
  BY <1>1 DEF IInv, PlanKept, Planned
<1>7. ReleaseCovers'
  BY <1>2, <1>3 DEF IInv, ReleaseCovers
<1>8. QueuedMeansPublished'
  BY <1>1, <1>2, <1>3 DEF IInv, QueuedMeansPublished
<1> QED BY <1>4, <1>5, <1>6, <1>7, <1>8 DEF IInv

\* The workers see a message more, or rows that other hands have written.
LEMMA RowsKeepPlane ==
  ASSUME PlaneProofs!IInv, PlaneProofs!RowInv, UNCHANGED <<tasksTopic, planeVars>>,
         tasks' \in [PlaneProofs!Task -> PlaneProofs!TaskRow], RowsReset
  PROVE  PlaneProofs!IInv' /\ PlaneProofs!RowInv'
<1> USE DEF planeVars, PlaneProofs!IInv
<1>1. PlaneProofs!TypeOK'
  BY DEF PlaneProofs!TypeOK
<1>2. /\ PlaneProofs!InHand' /\ PlaneProofs!Reported' /\ PlaneProofs!EvidenceChain'
  BY DEF PlaneProofs!InHand, PlaneProofs!Holds, PlaneProofs!Reported,
         PlaneProofs!HasReported, PlaneProofs!EvidenceChain
<1>3. \A i : PlaneProofs!Handled(i)' <=> PlaneProofs!Handled(i)
  BY DEF PlaneProofs!Handled
<1>4. \A n : PlaneProofs!Done(n)' <=> PlaneProofs!Done(n)
  BY <1>3 DEF PlaneProofs!Done
<1>5. PlaneProofs!Acked' /\ PlaneProofs!InOrder' /\ PlaneProofs!OwnerDone'
  BY <1>4 DEF PlaneProofs!Acked, PlaneProofs!InOrder, PlaneProofs!OwnerDone
<1>6. PlaneProofs!ExecutedInOrder'
  BY <1>3 DEF PlaneProofs!ExecutedInOrder
<1>7. PlaneProofs!OwnAttempt' /\ PlaneProofs!NotYet'
  BY DEF PlaneProofs!RowInv, PlaneProofs!OwnAttempt, PlaneProofs!NotYet
<1>8. \A t : /\ PlaneProofs!ResultsOf(t)' = PlaneProofs!ResultsOf(t)
             /\ PlaneProofs!Counted(t)' = PlaneProofs!Counted(t)
  BY DEF PlaneProofs!ResultsOf, PlaneProofs!Counted, PlaneProofs!Pending
<1>9. \A t \in PlaneProofs!Task : t \in Task
  BY DEF PlaneProofs!Task, Task
<1>10. PlaneProofs!StatusBacked'
  <2>1. \A t \in PlaneProofs!Task : tasks'[t].status \in {"completed", "failed"} =>
                                      tasks'[t].status = tasks[t].status
    BY <1>9 DEF RowsReset
  <2> QED BY <1>8, <2>1 DEF PlaneProofs!RowInv, PlaneProofs!StatusBacked
<1>11. PlaneProofs!CountBacked'
  <2> SUFFICES ASSUME NEW t \in PlaneProofs!Task
               PROVE  tasks'[t].attempts <= PlaneProofs!Cardinality(PlaneProofs!Counted(t))
    BY <1>8 DEF PlaneProofs!CountBacked
  <2>1. PlaneProofs!Cardinality(PlaneProofs!Counted(t)) \in Nat
    BY WorkerAssumptions, PlaneProofs!ResultsFinite
  <2>2. tasks[t].attempts <= PlaneProofs!Cardinality(PlaneProofs!Counted(t))
    BY DEF PlaneProofs!RowInv, PlaneProofs!CountBacked
  <2>3. tasks'[t].attempts \in {0, tasks[t].attempts}
    BY <1>9 DEF RowsReset
  <2> QED BY <2>1, <2>2, <2>3
<1> QED BY <1>1, <1>2, <1>5, <1>6, <1>7, <1>10, <1>11 DEF PlaneProofs!RowInv

LEMMA WorkerIInv ==
  PlaneProofs!IInv /\ PlaneProofs!RowInv /\ [PlaneProofs!Next]_(PlaneProofs!vars)
    => PlaneProofs!IInv' /\ PlaneProofs!RowInv'
<1>1. PlaneProofs!IInv /\ [PlaneProofs!Next]_(PlaneProofs!vars) => PlaneProofs!IInv'
  BY WorkerAssumptions, PlaneProofs!TypeStep, PlaneProofs!RecordsStep, PlaneProofs!OrderStep
     DEF PlaneProofs!IInv, PlaneProofs!OrderInv
<1>2. PlaneProofs!IInv' => PlaneProofs!TypeOK'
  BY DEF PlaneProofs!IInv
<1> QED BY <1>1, <1>2, WorkerAssumptions, PlaneProofs!RowStep

-----------------------------------------------------------------------------
(* The invariant of the composition.                                        *)

\* No more messages are published than the plane is bound to hold.
LEMMA TopicBounded == IInv /\ CountInv => Len(tasksTopic) <= MaxLog
<1> SUFFICES ASSUME IInv, CountInv PROVE Len(tasksTopic) <= MaxLog
  OBVIOUS
<1>1. Started \subseteq Handlers
  BY DEF Started
<1>2. /\ IsFiniteSet(Spent) /\ Cardinality(Spent) \in Nat /\ Cardinality(Handlers) \in Nat
      /\ Cardinality(Spent) <= Cardinality(Handlers) * MaxTargets
  BY <1>1, MaxLogAssumption, SpentBounded
<1>3. /\ Cardinality(Landed) \in Nat /\ Cardinality(Landed) <= Cardinality(Spent) * MaxSends
      /\ Len(tasksTopic) <= Cardinality(Landed) /\ Len(tasksTopic) \in Nat
  BY <1>2, LandedBounded DEF CountInv, IInv, TypeOK
<1>4. Cardinality(Handlers) * MaxTargets \in Nat /\ MaxSends \in Nat
  BY <1>2, MaxTargetsAssumption, MaxSendsAssumption
<1>5. ASSUME NEW a \in Nat, NEW b \in Nat, a <= b
      PROVE  a * MaxSends <= b * MaxSends /\ a * MaxSends \in Nat /\ b * MaxSends \in Nat
  BY <1>4, <1>5
<1>6. /\ Cardinality(Spent) * MaxSends <= Cardinality(Handlers) * MaxTargets * MaxSends
      /\ Cardinality(Spent) * MaxSends \in Nat
      /\ Cardinality(Handlers) * MaxTargets * MaxSends \in Nat
  BY <1>2, <1>4, <1>5
<1> QED BY <1>3, <1>6, MaxLogAssumption, PlaneAssumption

LEMMA TopicBoundedNext == (IInv /\ CountInv)' => (Len(tasksTopic) <= MaxLog)'
  BY TopicBounded, PTL

\* A request whose message the topic holds, and a message that arrives, do what Worker
\* calls Publish.
LEMMA ControlPublishes ==
  ASSUME PlatformInv, ControlStep, UNCHANGED tasks,
         NEW t \in Task, tasksTopic' = Append(tasksTopic, t)
  PROVE  PlaneProofs!Publish
<1>1. (IInv /\ CountInv)' /\ UNCHANGED planeVars
  BY NextIInv, ApprovalSteps, CountSteps DEF PlatformInv, ControlStep
<1>2. Len(tasksTopic) < MaxLog
  <2>1. Len(tasksTopic') = Len(tasksTopic) + 1 /\ Len(tasksTopic) \in Nat
    BY DEF PlatformInv, IInv, TypeOK
  <2> QED BY <1>1, <2>1, TopicBoundedNext, PlaneAssumption
<1>3. t \in PlaneProofs!Task
  BY DEF Task, PlaneProofs!Task
<1> QED BY <1>1, <1>2, <1>3 DEF planeVars, PlaneProofs!Publish, PlaneProofs!group,
           PlaneProofs!evidence, PlaneProofs!topics, PlaneProofs!rows, PlaneProofs!history

LEMMA ControlKeeps == PlatformInv /\ ControlStep => PlatformInv'
<1> SUFFICES ASSUME PlatformInv, ControlStep PROVE PlatformInv'
  OBVIOUS
<1>1. Next
  BY DEF ControlStep
<1>2. IInv' /\ ApprovalInv' /\ CountInv'
  BY NextIInv, ApprovalSteps, CountSteps DEF PlatformInv, ControlStep
<1>3. UNCHANGED planeVars
  BY DEF ControlStep
<1>4. CASE UNCHANGED tasksTopic /\ RowsReset
  <2>1. tasks' \in [PlaneProofs!Task -> PlaneProofs!TaskRow]
    BY <1>2 DEF IInv, TypeOK, Task, PlaneProofs!Task, TaskRow, PlaneProofs!TaskRow,
                TaskStatuses, PlaneProofs!TaskStatuses
  <2> QED BY <1>2, <1>3, <1>4, <2>1, RowsKeepPlane DEF PlatformInv
<1>5. ASSUME UNCHANGED tasks, NEW t \in Task, tasksTopic' = Append(tasksTopic, t)
      PROVE  PlatformInv'
  <2>1. PlaneProofs!Publish
    BY <1>5, ControlPublishes
  <2>2. PlaneProofs!IInv' /\ PlaneProofs!RowInv'
    BY <2>1, WorkerIInv DEF PlatformInv, PlaneProofs!Next
  <2> QED BY <1>2, <2>2 DEF PlatformInv
<1> QED BY <1>1, <1>4, <1>5, ControlEffect DEF PlatformInv

LEMMA PlaneKeeps == PlatformInv /\ PlaneStep => PlatformInv'
<1> SUFFICES ASSUME PlatformInv, PlaneStep PROVE PlatformInv'
  OBVIOUS
<1>1. PlaneProofs!IInv' /\ PlaneProofs!RowInv'
  BY PlaneIsWorker, WorkerIInv DEF PlatformInv
<1>2. UNCHANGED <<tasksTopic, controlVars>>
  BY PlaneEffect DEF PlaneStep
<1>3. IInv'
  <2>1. CASE UNCHANGED tasks
    BY <1>2, <2>1 DEF controlVars, request, PlatformInv, IInv, TypeOK, Minted, PlanKept, Planned,
       CreatorAlone, ReleaseCovers, QueuedMeansPublished, Published, TaskRows
  <2>2. ASSUME NEW w \in Workers, Plane!UpdateTask(w) PROVE IInv'
    <3>1. PICK t \in Task, o \in Plane!Outcomes :
            tasks' \in {tasks, UpdateTaskOutcome(tasks, t, o)}
      BY <2>2, UpdateEffect
    <3>2. IInv /\ UNCHANGED tasksTopic /\ UNCHANGED controlVars
      BY <1>2 DEF PlatformInv
    <3> QED BY <3>1, <3>2, OutcomeKeepsControl
  <2> QED BY <2>1, <2>2, PlaneEffect
<1>4. ApprovalInv'
  BY <1>2 DEF controlVars, request, PlatformInv, ApprovalInv, DecisionSeen, PublishedSeen,
     AskedFor, Published, OnWire
<1>5. CountInv'
  <2>1. Landed' = Landed /\ Spent' = Spent
    BY <1>2 DEF controlVars, request, Passed, Releases, Spent, Landed
  <2>2. \A t \in Task : LandedOf(t)' = LandedOf(t) /\ Copies(t)' = Copies(t)
    BY <1>2, <2>1 DEF LandedOf, Copies
  <2>3. Started' = Started /\ \A h \in Handlers : Releaser(h)' <=> Releaser(h)
    BY <1>2 DEF controlVars, request, Started, Releaser, Releases
  <2> QED BY <1>2, <2>1, <2>2, <2>3 DEF controlVars, PlatformInv, CountInv
<1> QED BY <1>1, <1>3, <1>4, <1>5 DEF PlatformInv

LEMMA PlatformStep == PlatformInv /\ [PlatformNext]_platformVars => PlatformInv'
<1> SUFFICES ASSUME PlatformInv, UNCHANGED platformVars PROVE PlatformInv'
  BY ControlKeeps, PlaneKeeps DEF PlatformNext
<1>1. UNCHANGED vars /\ UNCHANGED <<tasks, tasksTopic, planeVars>>
  BY DEF platformVars, controlVars, vars, tables, topics
<1>2. IInv' /\ ApprovalInv' /\ CountInv'
  BY <1>1, NextIInv, ApprovalSteps, CountSteps DEF PlatformInv
<1>3. PlaneProofs!IInv' /\ PlaneProofs!RowInv'
  BY <1>1, RowsKeepPlane DEF PlatformInv, PlaneProofs!IInv, PlaneProofs!TypeOK, RowsReset
<1> QED BY <1>2, <1>3 DEF PlatformInv

LEMMA InitPlatformInv == PlatformInit => PlatformInv
<1> SUFFICES ASSUME PlatformInit PROVE PlatformInv
  OBVIOUS
<1>1. IInv /\ ApprovalInv /\ CountInv
  BY InitIInv, InitApprovalInv, InitCountInv DEF PlatformInit
<1>2. PlaneProofs!IInv /\ PlaneProofs!RowInv
  BY SameStates, WorkerAssumptions, PlaneProofs!InitIInv, PlaneProofs!InitRowInv
     DEF PlatformInit
<1> QED BY <1>1, <1>2 DEF PlatformInv

LEMMA PlatformInvariance == PlatformSpec => []PlatformInv
  BY InitPlatformInv, PlatformStep, PTL DEF PlatformSpec

\* Every variable of the composition keeps its type; in particular the requests and the
\* producer's repetitions never fill the topic past what the plane is bound to hold.
THEOREM PlatformTypeCorrect == PlatformSpec => []PlatformTypeOK
<1>1. PlatformInv => PlatformTypeOK
  BY SameStates DEF PlatformInv, IInv, PlaneProofs!IInv, PlatformTypeOK
<1> QED BY PlatformInvariance, <1>1, PTL

-----------------------------------------------------------------------------
(* The platform implements Moderation.                                      *)

ShownRows == [t \in Task |-> Shown(t)]

LEMMA PromiseVars ==
  ASSUME Cleared' = Cleared, Answers' = Answers, ShownRows' = ShownRows
  PROVE  UNCHANGED Promise!vars
  BY DEF Promise!vars, ShownRows

\* A message more, or none, makes no difference to the answers there are.
LEMMA AnswersKept ==
  ASSUME PlatformInv, UNCHANGED attempts,
         UNCHANGED tasksTopic \/ \E t \in Task : tasksTopic' = Append(tasksTopic, t)
  PROVE  Answers' = Answers
<1>1. \A k \in DOMAIN attempts : attempts[k].offset \in 1..Len(tasksTopic)
  <2> SUFFICES ASSUME NEW k \in DOMAIN attempts PROVE attempts[k].offset \in 1..Len(tasksTopic)
    OBVIOUS
  <2>1. attempts \in Seq([offset : 1..Len(tasksTopic), outcome : PlaneProofs!Outcomes])
    BY DEF PlatformInv, PlaneProofs!IInv, PlaneProofs!TypeOK
  <2>2. attempts[k] \in [offset : 1..Len(tasksTopic), outcome : PlaneProofs!Outcomes]
    BY <2>1, WorkerAssumptions, PlaneProofs!SeqElement
  <2> QED BY <2>2
<1>2. \A i \in 1..Len(tasksTopic) : tasksTopic'[i] = tasksTopic[i]
  <2>1. tasksTopic \in Seq(Task)
    BY DEF PlatformInv, IInv, TypeOK
  <2> QED BY <2>1
<1> QED BY <1>1, <1>2 DEF Answers

\* Rows show the same outcomes as long as none changes but from "absent" to "planned".
LEMMA ShownKept ==
  ASSUME \A t \in Task : \/ tasks'[t] = tasks[t]
                         \/ tasks[t].status = "absent" /\ tasks'[t].status = "planned"
  PROVE  ShownRows' = ShownRows
<1>1. ASSUME NEW t \in Task PROVE Shown(t)' = Shown(t)
  BY DEF Shown
<1> QED BY <1>1 DEF ShownRows

\* Until a request starts, or an approval is stored, no command is cleared.
LEMMA ClearedKept ==
  ASSUME UNCHANGED <<envelope, everApproved, op, cmd>>
  PROVE  Cleared' = Cleared
  BY DEF Cleared, AskedFor

LEMMA ClearStep ==
  ASSUME NEW c \in Commands, Cleared' \in {Cleared, Cleared \cup {c}},
         Answers' = Answers, ShownRows' = ShownRows
  PROVE  [Promise!Next]_(Promise!vars)
<1>1. CASE Cleared' = Cleared
  BY <1>1, PromiseVars
<1>2. CASE Cleared' = Cleared \cup {c}
  BY <1>2 DEF Promise!Next, Promise!Clear, ShownRows
<1> QED BY <1>1, <1>2

\* An idle handler takes up command c: nothing but c can be cleared by that.
LEMMA StartClears ==
  ASSUME IInv, NEW h \in Handlers, pc[h] = "idle", NEW c \in Commands, NEW o,
         op' = [op EXCEPT ![h] = o], cmd' = [cmd EXCEPT ![h] = c],
         \A d \in Commands : d # c => envelope'[d] = envelope[d],
         envelope[c] = NoEnvelope \/ envelope'[c] = envelope[c],
         UNCHANGED everApproved
  PROVE  Cleared' \in {Cleared, Cleared \cup {c}}
<1>1. /\ op'[h] = o /\ cmd'[h] = c
      /\ \A g \in Handlers : g # h => op'[g] = op[g] /\ cmd'[g] = cmd[g]
  BY DEF IInv, TypeOK
<1>2. cmd[h] = NoCommand /\ NoCommand \notin Commands
  BY NoCommandAssumption DEF IInv, Minted
<1>3. \A d \in Commands : d # c => (d \in Cleared' <=> d \in Cleared)
  BY <1>1, <1>2 DEF Cleared, AskedFor
<1>4. c \in Cleared => c \in Cleared'
  <2> SUFFICES ASSUME c \in Cleared PROVE c \in Cleared'
    OBVIOUS
  <2>1. CASE envelope[c] # NoEnvelope /\ ~envelope[c].approvalRequired
    BY <2>1 DEF Cleared, AskedFor
  <2>2. CASE c \in everApproved
    BY <2>2 DEF Cleared, AskedFor
  <2>3. ASSUME NEW g \in Handlers, cmd[g] = c /\ op[g] \in ReleaseOps \cup PublishOps
        PROVE  c \in Cleared'
    BY <1>1, <1>2, <2>3 DEF Cleared, AskedFor
  <2> QED BY <2>1, <2>2, <2>3 DEF Cleared, AskedFor
<1>5. Cleared \subseteq Commands /\ Cleared' \subseteq Commands
  BY DEF Cleared, AskedFor
<1> QED BY <1>3, <1>4, <1>5

LEMMA ControlKeepsPromise ==
  ASSUME PlatformInv, UNCHANGED planeVars, Next
  PROVE  [Promise!Next]_(Promise!vars)
<1> USE DEF tables, topics, request, Goto
<1>t. /\ IInv /\ tasks \in [Task -> TaskRow] /\ everApproved \subseteq Commands
      /\ approvals \in [Commands -> ApprovalStatuses] /\ todo \in [Handlers -> Seq(Task)]
      /\ \A g \in Handlers : pc[g] # "idle" => cmd[g] \in Commands /\ envelope[cmd[g]] # NoEnvelope
  BY DEF PlatformInv, IInv, TypeOK, Minted
<1>a. Answers' = Answers
  <2>1. UNCHANGED attempts
    BY DEF planeVars
  <2> QED BY <1>t, <2>1, ControlEffect, AnswersKept
<1>s. UNCHANGED tasks => ShownRows' = ShownRows
  BY ShownKept
<1>l. CASE Land
  <2>1. UNCHANGED <<envelope, everApproved, op, cmd, tasks>>
    BY <1>l DEF Land
  <2> QED BY <1>a, <1>s, <2>1, ClearedKept, PromiseVars
<1> SUFFICES ASSUME NEW h \in Handlers,
                    Create(h) \/ Serve(h) \/ PublishRaw(h) \/ Proceed(h) \/ Drop(h)
             PROVE  [Promise!Next]_(Promise!vars)
  BY <1>l DEF Next
<1>1. CASE Create(h)
  <2>1. PICK c \in Commands, e \in Envelope :
          /\ envelope[c] = NoEnvelope /\ envelope' = [envelope EXCEPT ![c] = e]
          /\ cmd' = [cmd EXCEPT ![h] = c]
    BY <1>1 DEF Create
  <2>2. /\ pc[h] = "idle" /\ op' = [op EXCEPT ![h] = "create"] /\ UNCHANGED <<tasks, everApproved>>
    BY <1>1 DEF Create
  <2>3. \A d \in Commands : d # c => envelope'[d] = envelope[d]
    BY <2>1 DEF PlatformInv, IInv, TypeOK
  <2>4. Cleared' \in {Cleared, Cleared \cup {c}}
    BY <1>t, <2>1, <2>2, <2>3, StartClears
  <2> QED BY <1>a, <1>s, <2>2, <2>4, ClearStep
<1>2. CASE Serve(h) \/ PublishRaw(h)
  <2>1. PICK c \in Commands :
          cmd' = [cmd EXCEPT ![h] = c] /\ \E o : op' = [op EXCEPT ![h] = o]
    BY <1>2 DEF Serve, PublishRaw
  <2>2. pc[h] = "idle" /\ UNCHANGED <<envelope, tasks, everApproved>>
    BY <1>2 DEF Serve, PublishRaw
  <2>3. Cleared' \in {Cleared, Cleared \cup {c}}
    BY <1>t, <2>1, <2>2, StartClears
  <2> QED BY <1>a, <1>s, <2>2, <2>3, ClearStep
<1>3. CASE Decide(h)
  <2>1. /\ pc[h] = "decide" /\ UNCHANGED <<envelope, op, cmd, tasks>>
        /\ everApproved' = {c \in Commands : approvals'[c] = "approved"} \cup everApproved
    BY <1>3 DEF Decide
  <2>2. \A c \in Commands : c # cmd[h] => approvals'[c] = approvals[c]
    BY <1>3, <1>t DEF Decide, UpdateApproval
  <2>3. \A c \in Commands : approvals[c] = "approved" => c \in everApproved
    BY DEF PlatformInv, ApprovalInv
  <2>4. everApproved' \in {everApproved, everApproved \cup {cmd[h]}} /\ cmd[h] \in Commands
    BY <1>t, <2>1, <2>2, <2>3
  <2>5. Cleared' \in {Cleared, Cleared \cup {cmd[h]}}
    BY <2>1, <2>4 DEF Cleared, AskedFor
  <2> QED BY <1>a, <1>s, <2>1, <2>4, <2>5, ClearStep
<1>4. CASE StoreTask(h)
  <2>1. UNCHANGED <<envelope, everApproved, op, cmd>> /\ todo[h] # <<>> /\ pc[h] = "storeTasks"
    BY <1>4 DEF StoreTask
  <2>2. Head(todo[h]) \in Task
    BY <1>t, <2>1, SeqRange
  <2>3. tasks' \in {tasks, InsertTask(tasks, envelope[cmd[h]].targets, Head(todo[h]))}
    BY <1>4 DEF StoreTask
  <2>4. ASSUME NEW t \in Task
        PROVE  \/ tasks'[t] = tasks[t]
               \/ tasks[t].status = "absent" /\ tasks'[t].status = "planned"
    <3>1. CASE tasks' = tasks
      BY <3>1
    <3>2. CASE /\ tasks[Head(todo[h])].status = "absent"
               /\ tasks' = [tasks EXCEPT ![Head(todo[h])] = PlannedRow]
      BY <1>t, <2>2, <3>2 DEF PlannedRow
    <3>3. tasks[Head(todo[h])].status # "absent" =>
            Head(todo[h]) \in TaskRows(tasks, CommandOf(Head(todo[h])))
      BY <2>2 DEF TaskRows
    <3> QED BY <2>3, <3>1, <3>2, <3>3 DEF InsertTask
  <2> QED BY <1>a, <2>1, <2>4, ClearedKept, ShownKept, PromiseVars
<1>5. CASE MarkQueued(h)
  <2>1. /\ UNCHANGED <<envelope, everApproved, op, cmd>> /\ pc[h] = "publishTasks"
        /\ tasks' \in {tasks, MarkTasksQueued(tasks, cmd[h])}
    BY <1>5 DEF MarkQueued
  <2>2. Cleared' = Cleared
    BY <2>1, ClearedKept
  <2>3. CASE tasks' = tasks
    BY <1>a, <1>s, <2>2, <2>3, PromiseVars
  <2>4. CASE tasks' = MarkTasksQueued(tasks, cmd[h])
    <3>1. cmd[h] \in Cleared
      <4>1. \/ cmd[h] \in everApproved \/ op[h] \in ReleaseOps
            \/ ~envelope[cmd[h]].approvalRequired
        BY <2>1 DEF PlatformInv, ApprovalInv, DecisionSeen, Releasing
      <4>2. cmd[h] \in Commands /\ envelope[cmd[h]] # NoEnvelope
        BY <1>t, <2>1
      <4> QED BY <4>1, <4>2 DEF Cleared, AskedFor
    <3>2. ASSUME NEW t \in Task
          PROVE  Shown(t)' = IF CommandOf(t) = cmd[h] THEN "none" ELSE Shown(t)
      <4>1. CASE t \in TaskRows(tasks, cmd[h])
        <5>1. tasks'[t].status = "queued" /\ CommandOf(t) = cmd[h]
          BY <2>4, <4>1 DEF MarkTasksQueued, TaskRows
        <5> QED BY <5>1 DEF Shown
      <4>2. CASE t \notin TaskRows(tasks, cmd[h])
        <5>1. tasks'[t] = tasks[t]
          BY <2>4, <4>2 DEF MarkTasksQueued
        <5>2. CommandOf(t) = cmd[h] => tasks[t].status = "absent"
          BY <4>2 DEF TaskRows
        <5> QED BY <5>1, <5>2 DEF Shown
      <4> QED BY <4>1, <4>2
    <3>3. ShownRows' = [t \in Task |-> IF [u \in Task |-> CommandOf(u)][t] = cmd[h]
                                       THEN "none" ELSE ShownRows[t]]
      BY <3>2 DEF ShownRows
    <3>4. Promise!Release
      BY <1>a, <2>2, <3>1, <3>3 DEF Promise!Release, ShownRows
    <3> QED BY <3>4 DEF Promise!Next
  <2> QED BY <2>1, <2>3, <2>4
<1>6. CASE \/ RecordCommand(h) \/ FinishStore(h) \/ CreateApproval(h) \/ GetApproval(h)
           \/ DecideStatus(h) \/ Reread(h) \/ RemoveApproval(h) \/ LoadTasks(h)
           \/ PublishCommand(h) \/ PublishTask(h) \/ SetStatus(h) \/ Drop(h)
  <2>1. UNCHANGED <<envelope, everApproved, op, cmd, tasks>>
    BY <1>6 DEF RecordCommand, FinishStore, CreateApproval, GetApproval, DecideStatus, Reread,
       RemoveApproval, LoadTasks, PublishCommand, PublishTask, SetStatus, Drop
  <2> QED BY <1>a, <1>s, <2>1, ClearedKept, PromiseVars
<1> QED BY <1>1, <1>2, <1>3, <1>4, <1>5, <1>6 DEF Proceed

LEMMA ExecuteKeepsPromise ==
  ASSUME PlatformInv, NEW w \in Workers, Plane!Execute(w),
         UNCHANGED <<tasksTopic, tasks, controlVars>>
  PROVE  [Promise!Next]_(Promise!vars)
<1>1. PICK outcome \in Plane!Outcomes :
        attempts' = Append(attempts, [offset |-> at[w], outcome |-> outcome])
  BY DEF Plane!Execute, Plane!OutcomesOf, Plane!Outcomes
<1>2. PlaneProofs!TypeOK /\ PlaneProofs!Holds(w) /\ call[w] = "execute"
  BY DEF PlatformInv, PlaneProofs!IInv, PlaneProofs!InHand, Plane!Execute
<1>3. at[w] \in DOMAIN tasksTopic /\ attempts \in Seq([offset : 1..Len(tasksTopic),
                                                       outcome : PlaneProofs!Outcomes])
  BY <1>2 DEF PlaneProofs!TypeOK, PlaneProofs!Holds, PlaneProofs!Busy
<1>4. PICK t \in Task : t = tasksTopic[at[w]]
  BY <1>3 DEF PlatformInv, IInv, TypeOK
<1>5. CommandOf(t) \in Cleared
  <2>1. t \in Published
    BY <1>3, <1>4 DEF Published, Range
  <2> QED BY <2>1 DEF PlatformInv, ApprovalInv, PublishedSeen, Cleared
<1>6. Answers' = Answers \cup {<<t, outcome>>}
  <2> DEFINE n == Len(attempts) + 1
  <2>1. /\ attempts'[n] = [offset |-> at[w], outcome |-> outcome]
        /\ DOMAIN attempts' = DOMAIN attempts \cup {n}
        /\ \A k \in DOMAIN attempts : attempts'[k] = attempts[k]
    BY <1>1, <1>3
  <2> QED BY <1>4, <2>1 DEF Answers
<1>7. Cleared' = Cleared /\ ShownRows' = ShownRows
  BY ClearedKept, ShownKept DEF controlVars, request
<1>8. Promise!Act
  BY <1>5, <1>6, <1>7 DEF Promise!Act, ShownRows
<1> QED BY <1>8 DEF Promise!Next

LEMMA UpdateKeepsPromise ==
  ASSUME PlatformInv, NEW w \in Workers, Plane!UpdateTask(w),
         UNCHANGED <<tasksTopic, attempts, controlVars>>
  PROVE  [Promise!Next]_(Promise!vars)
<1>1. PICK t \in Task, o \in Plane!Outcomes :
        <<t, o>> \in Answers /\ tasks' \in {tasks, UpdateTaskOutcome(tasks, t, o)}
  BY UpdateEffect
<1>2. Cleared' = Cleared /\ Answers' = Answers
  BY ClearedKept, AnswersKept DEF controlVars, request
<1>3. CASE tasks' = tasks
  BY <1>2, <1>3, ShownKept, PromiseVars
<1>4. CASE tasks' # tasks
  <2>1. /\ tasks' = [tasks EXCEPT ![t] = tasks'[t]] /\ tasks \in [Task -> TaskRow]
        /\ tasks'[t].status = IF o = "success" THEN "completed" ELSE "failed"
    BY <1>1, <1>4 DEF UpdateTaskOutcome, PlatformInv, IInv, TypeOK
  <2>2. \A u \in Task : Shown(u)' = IF u = t THEN o ELSE Shown(u)
    BY <2>1 DEF Shown, Plane!Outcomes
  <2>3. ShownRows' = [ShownRows EXCEPT ![t] = o]
    BY <2>2 DEF ShownRows
  <2>4. Promise!Show
    BY <1>1, <1>2, <2>3 DEF Promise!Show, ShownRows
  <2> QED BY <2>4 DEF Promise!Next
<1> QED BY <1>3, <1>4

LEMMA PromiseStep == PlatformInv /\ [PlatformNext]_platformVars => [Promise!Next]_(Promise!vars)
<1> SUFFICES ASSUME PlatformInv, [PlatformNext]_platformVars
             PROVE  [Promise!Next]_(Promise!vars)
  OBVIOUS
<1>q. ASSUME UNCHANGED <<tasksTopic, tasks, attempts, controlVars>>
      PROVE  [Promise!Next]_(Promise!vars)
  BY <1>q, ClearedKept, ShownKept, AnswersKept, PromiseVars DEF controlVars, request
<1>1. CASE ControlStep
  BY <1>1, ControlKeepsPromise DEF ControlStep
<1>2. CASE PlaneStep
  <2>1. UNCHANGED tasksTopic /\ UNCHANGED controlVars
    BY <1>2, PlaneEffect DEF PlaneStep
  <2>2. ASSUME NEW w \in Workers, Plane!Execute(w) PROVE [Promise!Next]_(Promise!vars)
    <3>1. UNCHANGED tasks
      BY <2>2 DEF Plane!Execute, Plane!evidence
    <3> QED BY <2>1, <2>2, <3>1, ExecuteKeepsPromise
  <2>3. ASSUME NEW w \in Workers, Plane!UpdateTask(w) PROVE [Promise!Next]_(Promise!vars)
    <3>1. UNCHANGED attempts
      BY <2>3 DEF Plane!UpdateTask
    <3> QED BY <2>1, <2>3, <3>1, UpdateKeepsPromise
  <2> QED BY <1>2, <1>q, <2>1, <2>2, <2>3, PlaneEffect
<1>3. CASE UNCHANGED platformVars
  BY <1>3, <1>q DEF platformVars, planeVars
<1> QED BY <1>1, <1>2, <1>3 DEF PlatformNext

LEMMA PromiseInit == PlatformInit => Promise!Init
<1> SUFFICES ASSUME PlatformInit PROVE Promise!Init
  OBVIOUS
<1>1. Cleared = {}
  BY DEF PlatformInit, Init, Cleared, AskedFor, ReleaseOps, PublishOps
<1>2. Answers = {}
  BY DEF PlatformInit, Plane!Init, Answers
<1>3. \A t \in Task : Shown(t) = "none"
  BY DEF PlatformInit, Init, Shown, NoTaskRow
<1> QED BY <1>1, <1>2, <1>3 DEF Promise!Init

\* The platform keeps the promise of Moderation: Discord acts only on tasks whose
\* command needs no approval, or was approved, or was released by an operator; and
\* a row that reads completed or failed shows an outcome that Discord gave for it.
\* It does so for any finite number of requests and for every number of commands,
\* targets, workers and regions, whatever calls fail and whichever workers crash.
THEOREM PlatformKeepsPromise == PlatformSpec => KeepsPromise
  BY PromiseInit, PromiseStep, PlatformInvariance, PTL
     DEF PlatformSpec, KeepsPromise, Promise!Spec

-----------------------------------------------------------------------------
(* What the parts keep true apart, they keep true together.                 *)

LEMMA SameProperties ==
  /\ PlaneProofs!ExecutedInOrder => Plane!ExecutedInOrder
  /\ PlaneProofs!EvidenceChain => Plane!EvidenceChain
  /\ PlaneProofs!RowIsBacked => Plane!RowIsBacked
<1>1. PlaneProofs!ExecutedInOrder => Plane!ExecutedInOrder
  BY DEF Plane!ExecutedInOrder, PlaneProofs!ExecutedInOrder, Plane!Handled, PlaneProofs!Handled
<1>2. PlaneProofs!EvidenceChain => Plane!EvidenceChain
  BY DEF Plane!EvidenceChain, PlaneProofs!EvidenceChain
<1>3. PlaneProofs!RowIsBacked => Plane!RowIsBacked
  <2>1. \A S : Plane!Cardinality(S) = PlaneProofs!Cardinality(S)
    BY DEF Plane!Cardinality, PlaneProofs!Cardinality
  <2> QED BY <2>1 DEF Plane!RowIsBacked, PlaneProofs!RowIsBacked, Plane!Task, PlaneProofs!Task,
                      Plane!ResultsOf, PlaneProofs!ResultsOf
<1> QED BY <1>1, <1>2, <1>3

\* What each plane keeps true by itself survives the composition: while requests
\* plan, queue and replay tasks that workers have in hand, rows that read queued are
\* published, no task is on the topic more often than its releases had it sent, Discord
\* is asked in the order of the topic, and the rows of a task and of an attempt stay
\* backed by results.
THEOREM PartsTogether ==
  PlatformSpec => [](/\ QueuedMeansPublished /\ SentOncePerRelease
                     /\ Plane!ExecutedInOrder /\ Plane!EvidenceChain /\ Plane!RowIsBacked)
<1>1. PlatformInv => QueuedMeansPublished /\ SentOncePerRelease
  BY CountsReleases DEF PlatformInv, IInv
<1>2. PlatformInv => Plane!ExecutedInOrder /\ Plane!EvidenceChain
  BY SameProperties DEF PlatformInv, PlaneProofs!IInv
<1>3. PlatformInv => Plane!RowIsBacked
  BY SameProperties, WorkerAssumptions, PlaneProofs!RowsBacked DEF PlatformInv
<1> QED BY PlatformInvariance, <1>1, <1>2, <1>3, PTL

-----------------------------------------------------------------------------
(* The workers of the composition implement the task log.                   *)

LEMMA SameLog ==
  /\ PlaneProofs!AbstractLog!Init => Plane!AbstractLog!Init
  /\ [PlaneProofs!AbstractLog!Next]_(PlaneProofs!AbstractLog!vars)
       => [Plane!AbstractLog!Next]_(Plane!AbstractLog!vars)
<1> USE DEF Plane!AbstractLog!vars, PlaneProofs!AbstractLog!vars, Plane!Handled, PlaneProofs!Handled,
     Plane!Task, PlaneProofs!Task
<1>1. PlaneProofs!AbstractLog!Init => Plane!AbstractLog!Init
  BY DEF PlaneProofs!AbstractLog!Init, Plane!AbstractLog!Init
<1>2. [PlaneProofs!AbstractLog!Next]_(PlaneProofs!AbstractLog!vars)
       => [Plane!AbstractLog!Next]_(Plane!AbstractLog!vars)
  BY DEF PlaneProofs!AbstractLog!Next, Plane!AbstractLog!Next,
    PlaneProofs!AbstractLog!Publish, Plane!AbstractLog!Publish,
    PlaneProofs!AbstractLog!Handle, Plane!AbstractLog!Handle,
    PlaneProofs!AbstractLog!Acknowledge, Plane!AbstractLog!Acknowledge
<1> QED BY <1>1, <1>2

\* What requests and workers do to the log: the requests publish to it or leave it
\* alone, whatever they write to the rows.
LEMMA LogStep ==
  PlatformInv /\ [PlatformNext]_platformVars
    => [PlaneProofs!AbstractLog!Next]_(PlaneProofs!AbstractLog!vars)
<1> SUFFICES ASSUME PlatformInv, [PlatformNext]_platformVars
             PROVE  [PlaneProofs!AbstractLog!Next]_(PlaneProofs!AbstractLog!vars)
  OBVIOUS
<1>1. ASSUME PlaneProofs!Next
      PROVE  [PlaneProofs!AbstractLog!Next]_(PlaneProofs!AbstractLog!vars)
  BY <1>1, WorkerAssumptions, PlaneProofs!AbstractStep DEF PlatformInv
<1>2. ASSUME UNCHANGED <<tasksTopic, planeVars>>
      PROVE  [PlaneProofs!AbstractLog!Next]_(PlaneProofs!AbstractLog!vars)
  BY <1>2 DEF PlaneProofs!AbstractLog!vars, planeVars, PlaneProofs!Handled
<1>3. CASE ControlStep
  <2>1. ASSUME NEW t \in Task, UNCHANGED tasks, tasksTopic' = Append(tasksTopic, t)
        PROVE  PlaneProofs!Publish
    BY <1>3, <2>1, ControlPublishes
  <2>2. \/ UNCHANGED tasksTopic
        \/ UNCHANGED tasks /\ \E t \in Task : tasksTopic' = Append(tasksTopic, t)
    BY <1>3, ControlEffect DEF ControlStep, PlatformInv
  <2> QED BY <1>1, <1>2, <1>3, <2>1, <2>2 DEF ControlStep, PlaneProofs!Next
<1>4. CASE PlaneStep
  BY <1>1, <1>4, PlaneIsWorker
<1>5. CASE UNCHANGED platformVars
  BY <1>2, <1>5 DEF platformVars
<1> QED BY <1>3, <1>4, <1>5 DEF PlatformNext

\* The workers keep the promise of the task log also among the requests: whatever
\* releases and replays write to the rows of tasks in hand, an offset is acknowledged
\* only when it and all before it have been recorded, refused or given up.
THEOREM PlatformKeepsTaskLog == PlatformSpec => Plane!ImplementsTaskLog
<1>1. PlatformInit => PlaneProofs!AbstractLog!Init
  BY SameStates DEF PlatformInit, PlaneProofs!Init, PlaneProofs!AbstractLog!Init
<1>2. PlatformInit => Plane!AbstractLog!Init
  BY <1>1, SameLog
<1>3. PlatformInv /\ [PlatformNext]_platformVars
        => [Plane!AbstractLog!Next]_(Plane!AbstractLog!vars)
  BY LogStep, SameLog
<1> QED BY <1>2, <1>3, PlatformInvariance, PTL
        DEF PlatformSpec, Plane!ImplementsTaskLog, Plane!AbstractLog!Spec

=============================================================================
