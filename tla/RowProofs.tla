------------------------------- MODULE RowProofs -------------------------------
(***************************************************************************)
(* The rows of table tasks are backed by results, for every number of      *)
(* workers, tasks and messages.  Result and row are written by two         *)
(* statements; the invariant counts the results whose row is still to come.*)
(***************************************************************************)
EXTENDS WorkerProofs, FiniteSetTheorems

\* The calls of a worker that has an answer and has not stored it.
Early == {"penalize", "publishResult", "publishAudit", "storeResult"}

\* Attempts between the two statements of record_task_result.
Pending == {attempt[w] : w \in {v \in Workers : pc[v] = "updateTask"}}

\* The results of task t that its row counts.
Counted(t) == ResultsOf(t) \ Pending

\* No two workers have one attempt in hand.
OwnAttempt == \A v, w \in Workers : attempt[v] # 0 /\ attempt[v] = attempt[w] => v = w

NotYet == \A w \in Workers : pc[w] \in Early => attempt[w] \notin taskResults

\* The status of a row is one of its results.
StatusBacked ==
  \A t \in Task :
    /\ tasks[t].status = "completed" =>
         \E k \in ResultsOf(t) : attempts[k].outcome = "success"
    /\ tasks[t].status = "failed" =>
         \E k \in ResultsOf(t) : attempts[k].outcome # "success"

CountBacked == \A t \in Task : tasks[t].attempts <= Cardinality(Counted(t))

RowInv == OwnAttempt /\ NotYet /\ StatusBacked /\ CountBacked

-----------------------------------------------------------------------------
(* Counting results.                                                        *)

\* Places of a sequence can be counted.
LEMMA PlacesFinite ==
  ASSUME NEW S, NEW s \in Seq(S), NEW X \in SUBSET DOMAIN s
  PROVE  IsFiniteSet(X) /\ Cardinality(X) \in Nat
<1>1. Len(s) \in Nat /\ DOMAIN s = 1..Len(s)
  OBVIOUS
<1>2. IsFiniteSet(DOMAIN s)
  BY <1>1, FS_Interval
<1> QED BY <1>2, FS_Subset, FS_CardinalityType

\* The results of a task, before a step and after it.
LEMMA ResultsFinite ==
  ASSUME TypeOK, NEW t
  PROVE  /\ IsFiniteSet(ResultsOf(t)) /\ Cardinality(ResultsOf(t)) \in Nat
         /\ IsFiniteSet(Counted(t)) /\ Cardinality(Counted(t)) \in Nat
<1>1. /\ attempts \in Seq([offset : 1..Len(tasksTopic), outcome : Outcomes])
      /\ ResultsOf(t) \in SUBSET DOMAIN attempts /\ Counted(t) \in SUBSET DOMAIN attempts
  BY DEF TypeOK, ResultsOf, Counted
<1> QED BY <1>1, PlacesFinite

LEMMA CountedFiniteNext ==
  ASSUME TypeOK', NEW t
  PROVE  IsFiniteSet(Counted(t)') /\ Cardinality(Counted(t)') \in Nat
<1>1. /\ attempts' \in Seq([offset : 1..Len(tasksTopic'), outcome : Outcomes])
      /\ Counted(t)' \in SUBSET DOMAIN attempts'
  BY DEF TypeOK, ResultsOf, Counted
<1> QED BY <1>1, PlacesFinite

\* Results stay results of their task, whatever is published or tried after them.
LEMMA ResultsKept ==
  ASSUME TypeOK, \A k \in DOMAIN attempts : attempts'[k] = attempts[k],
         \A i \in 1..Len(tasksTopic) : tasksTopic'[i] = tasksTopic[i],
         taskResults \subseteq taskResults', NEW t
  PROVE  /\ ResultsOf(t) \subseteq ResultsOf(t)'
         /\ \A k \in ResultsOf(t) : attempts'[k] = attempts[k]
<1>1. \A k \in taskResults : k \in DOMAIN attempts /\ attempts'[k] = attempts[k]
  BY DEF TypeOK
<1>2. ASSUME NEW k \in taskResults PROVE attempts[k].offset \in 1..Len(tasksTopic)
  <2>1. attempts \in Seq([offset : 1..Len(tasksTopic), outcome : Outcomes])
    BY DEF TypeOK
  <2>2. attempts[k] \in [offset : 1..Len(tasksTopic), outcome : Outcomes]
    BY <1>1, <2>1, SeqElement
  <2> QED BY <2>2
<1> QED BY <1>1, <1>2 DEF ResultsOf

LEMMA InitRowInv == Init => RowInv
<1> SUFFICES ASSUME Init PROVE RowInv
  OBVIOUS
<1>1. TypeOK
  BY InitIInv DEF IInv
<1>2. OwnAttempt /\ NotYet
  BY DEF Init, OwnAttempt, NotYet
<1>3. \A t \in Task : tasks[t].attempts = 0 /\ tasks[t].status \notin {"completed", "failed"}
  BY DEF Init, QueuedRow, NoTaskRow
<1>4. \A t \in Task : Cardinality(Counted(t)) >= 0
  BY <1>1, ResultsFinite
<1> QED BY <1>2, <1>3, <1>4 DEF RowInv, StatusBacked, CountBacked

-----------------------------------------------------------------------------
(* Steps that leave the rows alone.                                         *)

\* Rows that are not written stay backed as long as no result that was counted
\* comes to be pending.
LEMMA RowsKept ==
  ASSUME IInv, RowInv, TypeOK', UNCHANGED tasks,
         \A k \in DOMAIN attempts : attempts'[k] = attempts[k],
         \A i \in 1..Len(tasksTopic) : tasksTopic'[i] = tasksTopic[i],
         taskResults \subseteq taskResults',
         \A k \in taskResults : k \in Pending' => k \in Pending
  PROVE  StatusBacked' /\ CountBacked'
<1>t. TypeOK
  BY DEF IInv
<1>1. \A t \in Task : /\ ResultsOf(t) \subseteq ResultsOf(t)'
                      /\ \A k \in ResultsOf(t) : attempts'[k] = attempts[k]
  BY <1>t, ResultsKept
<1>2. StatusBacked'
  BY <1>1 DEF RowInv, StatusBacked
<1>3. ASSUME NEW t \in Task PROVE (tasks[t].attempts <= Cardinality(Counted(t)))'
  <2>1. Counted(t) \in SUBSET Counted(t)'
    BY <1>1 DEF Counted, ResultsOf
  <2>2. /\ IsFiniteSet(Counted(t)') /\ Cardinality(Counted(t)') \in Nat
        /\ Cardinality(Counted(t)) \in Nat
    BY <1>t, ResultsFinite, CountedFiniteNext
  <2>3. Cardinality(Counted(t)) <= Cardinality(Counted(t)')
    BY <2>1, <2>2, FS_Subset
  <2>4. tasks[t].attempts \in Nat /\ tasks[t].attempts <= Cardinality(Counted(t))
    BY <1>t DEF TypeOK, TaskRow, RowInv, CountBacked
  <2> QED BY <2>2, <2>3, <2>4
<1> QED BY <1>2, <1>3 DEF CountBacked

\* A step of worker w that writes no row: at most it stores the result in hand.
Quiet(w) ==
  /\ Grow(w) /\ UNCHANGED <<tasks, tasksTopic>>
  /\ attempt'[w] \in {attempt[w], 0, Len(attempts) + 1}
  /\ taskResults' \subseteq taskResults \cup {attempt[w]}
  /\ pc'[w] \in Early => attempt'[w] \notin taskResults'
  /\ pc'[w] = "updateTask" => attempt'[w] \notin taskResults

\* The attempts of the workers stay their own, and those in hand unstored.
LEMMA OwnKept ==
  ASSUME IInv, RowInv, NEW w \in Workers, Grow(w),
         attempt'[w] \in {attempt[w], 0, Len(attempts) + 1},
         taskResults' \subseteq taskResults \cup {attempt[w]},
         pc'[w] \in Early => attempt'[w] \notin taskResults'
  PROVE  OwnAttempt' /\ NotYet'
<1>1. Len(attempts) \in Nat /\ \A v \in Workers : attempt[v] \in 0..Len(attempts)
  BY DEF IInv, TypeOK
<1>2. \A v \in Workers \ {w} : pc'[v] = pc[v] /\ attempt'[v] = attempt[v]
  BY DEF Grow
<1>3. OwnAttempt'
  BY <1>1, <1>2 DEF RowInv, OwnAttempt
<1>4. ASSUME NEW v \in Workers, pc'[v] \in Early PROVE attempt'[v] \notin taskResults'
  <2>1. CASE v = w
    BY <1>4, <2>1
  <2>2. CASE v # w
    <3>1. pc[v] \in Early /\ attempt'[v] = attempt[v]
      BY <1>2, <1>4, <2>2
    <3>2. attempt[v] # 0
      BY <3>1 DEF IInv, InHand, Holds, Early, Reporting
    <3>3. attempt[v] # attempt[w] /\ attempt[v] \notin taskResults
      BY <2>2, <3>1, <3>2 DEF RowInv, OwnAttempt, NotYet
    <3> QED BY <3>1, <3>3
  <2> QED BY <2>1, <2>2
<1> QED BY <1>3, <1>4 DEF NotYet

LEMMA QuietKeeps ==
  ASSUME IInv, RowInv, TypeOK', NEW w \in Workers, Quiet(w)
  PROVE  RowInv'
<1>1. OwnAttempt' /\ NotYet'
  BY OwnKept DEF Quiet
<1>2. \A k \in taskResults : k \in Pending' => k \in Pending
  BY DEF Quiet, Grow, Pending
<1>3. StatusBacked' /\ CountBacked'
  BY <1>2, RowsKept DEF Quiet, Grow
<1> QED BY <1>1, <1>3 DEF RowInv

-----------------------------------------------------------------------------
(* The steps.                                                               *)

\* The steps in which no attempt is in hand afterwards, or none before.
LEMMA IdleQuiet ==
  ASSUME IInv, NEW w \in Workers,
         Crash(w) \/ Restart(w) \/ Receive(w) \/ SkipTask(w) \/ Panic(w) \/ Commit(w)
  PROVE  Quiet(w)
<1>t. TypeOK
  BY DEF IInv
<1>1. UNCHANGED <<attempts, evidence, tasksTopic>>
  BY DEF Crash, Restart, Receive, SkipTask, Panic, Commit, Die, Fixed
<1>2. pc'[w] \in {"recv", "down", "lease"} /\ attempt'[w] \in {attempt[w], 0}
  BY <1>t DEF Crash, Restart, Receive, SkipTask, Panic, Commit, Die, LetGo, TypeOK
<1>3. Grow(w)
  BY <1>t, <1>1 DEF Crash, Restart, Receive, SkipTask, Panic, Commit, Die, LetGo,
                    TypeOK, Grow, evidence, topics, rows
<1> QED BY <1>1, <1>2, <1>3 DEF Quiet, Early, evidence, rows

\* The calls that end as After says and write neither a result nor a row.
LEMMA CallQuiet ==
  ASSUME IInv, RowInv, NEW w \in Workers,
         \/ AcquireLease(w) \/ Pace(w) \/ Penalize(w) \/ PublishResult(w)
         \/ PublishAudit(w) \/ StoreAudit(w) \/ StoreObservation(w)
  PROVE  Quiet(w)
<1>t. TypeOK
  BY DEF IInv
<1>1. PICK l, r : /\ After(w, r, l) /\ l # "updateTask" /\ (l \in Early => pc[w] \in Early)
  BY DEF AcquireLease, Pace, Penalize, PublishResult, PublishAudit, StoreAudit,
         StoreObservation, Early
<1>2. /\ UNCHANGED <<attempts, tasksTopic, tasks, taskResults>>
      /\ resultsTopic \subseteq resultsTopic' /\ auditTopic \subseteq auditTopic'
      /\ auditEvents \subseteq auditEvents' /\ observations \subseteq observations'
  BY DEF AcquireLease, Pace, Penalize, PublishResult, PublishAudit, StoreAudit,
         StoreObservation, Record, Fixed, evidence, topics, rows
<1>3. Grow(w)
  BY <1>t, <1>1, <1>2 DEF After, LetGo, TypeOK, Grow
<1>4. \/ pc'[w] = l /\ attempt'[w] = attempt[w]
      \/ pc'[w] = "recv" /\ attempt'[w] = 0
  BY <1>t, <1>1 DEF After, LetGo, TypeOK
<1> QED BY <1>1, <1>2, <1>3, <1>4 DEF Quiet, Early, RowInv, NotYet

\* A new attempt has no result yet.
LEMMA ExecuteQuiet ==
  ASSUME IInv, NEW w \in Workers, Execute(w)
  PROVE  Quiet(w)
<1>t. TypeOK /\ Len(attempts) \in Nat /\ DOMAIN attempts = 1..Len(attempts)
  BY DEF IInv, TypeOK
<1>1. PICK outcome \in Outcomes :
        /\ attempts' = Append(attempts, [offset |-> at[w], outcome |-> outcome])
        /\ pc' = [pc EXCEPT ![w] = IF outcome = "success" THEN "publishResult"
                                                          ELSE "penalize"]
  BY DEF Execute, OutcomesOf, Outcomes
<1>2. /\ attempt' = [attempt EXCEPT ![w] = Len(attempts) + 1] /\ pc[w] = "execute"
      /\ UNCHANGED <<tasksTopic, at, evidence>>
  BY DEF Execute, Fixed
<1>3. \A k \in DOMAIN attempts : attempts'[k] = attempts[k]
  <2>1. [offset |-> at[w], outcome |-> outcome] \in [offset : 1..Len(tasksTopic), outcome : Outcomes]
    BY <1>2 DEF IInv, TypeOK, InHand, Holds, Busy
  <2> QED BY <1>t, <1>1, <2>1, AppendSeq DEF TypeOK
<1>4. Grow(w)
  BY <1>t, <1>1, <1>2, <1>3 DEF TypeOK, Grow, evidence, topics, rows
<1>5. pc'[w] # "updateTask" /\ attempt'[w] = Len(attempts) + 1
  BY <1>t, <1>1, <1>2 DEF TypeOK
<1>6. Len(attempts) + 1 \notin taskResults
  BY <1>t DEF TypeOK
<1> QED BY <1>2, <1>4, <1>5, <1>6 DEF Quiet, evidence, rows

\* The result is stored: its row is to come, or will never come.
LEMMA StoreQuiet ==
  ASSUME IInv, RowInv, NEW w \in Workers, StoreResult(w)
  PROVE  Quiet(w)
<1>t. TypeOK
  BY DEF IInv
<1>1. PICK r : After(w, r, "updateTask") /\ taskResults' = Record(taskResults, w, r)
  BY DEF StoreResult
<1>2. /\ UNCHANGED <<attempts, tasksTopic, tasks, topics, auditEvents, observations>>
      /\ pc[w] = "storeResult"
  BY DEF StoreResult, Fixed
<1>3. Grow(w)
  BY <1>t, <1>1, <1>2 DEF After, LetGo, TypeOK, Grow, Record, topics
<1>4. \/ pc'[w] = "updateTask" /\ attempt'[w] = attempt[w]
      \/ pc'[w] = "recv" /\ attempt'[w] = 0
  BY <1>t, <1>1 DEF After, LetGo, TypeOK
<1>5. attempt[w] \notin taskResults
  BY <1>2 DEF RowInv, NotYet, Early
<1> QED BY <1>1, <1>2, <1>3, <1>4, <1>5 DEF Quiet, Early, Record

\* The row is written: the result of the attempt in hand comes to be counted.
LEMMA UpdateStep ==
  ASSUME IInv, RowInv, TypeOK', NEW w \in Workers, UpdateTask(w)
  PROVE  RowInv'
<1> DEFINE k == attempt[w]  t == TaskAt(w)
<1>t. TypeOK /\ Holds(w) /\ HasReported(w)
  BY DEF IInv, InHand, Reported
<1>1. PICK r : /\ After(w, r, "storeAudit")
               /\ tasks' = IF r = "lost" THEN tasks
                           ELSE UpdateTaskOutcome(tasks, t, attempts[k].outcome)
  BY DEF UpdateTask
<1>2. /\ UNCHANGED <<attempts, tasksTopic, topics, rows>> /\ pc[w] = "updateTask"
  BY DEF UpdateTask, Fixed
<1>3. Grow(w)
  BY <1>t, <1>1, <1>2 DEF After, LetGo, TypeOK, Grow, topics, rows
<1>4. pc'[w] \in {"storeAudit", "recv"} /\ attempt'[w] \in {attempt[w], 0}
  BY <1>t, <1>1 DEF After, LetGo, TypeOK
<1>5. CASE tasks' = tasks
  BY <1>2, <1>3, <1>4, <1>5, QuietKeeps DEF Quiet, Early, rows
<1>6. CASE tasks' # tasks
  <2>1. /\ k # 0 /\ attempts[k].offset = at[w]
        /\ k \in taskResults /\ k \in Pending /\ k \in ResultsOf(t)
    BY <1>t, <1>2 DEF Holds, HasReported, Reporting, Pending, ResultsOf, TaskAt
  <2>2. Pending' \subseteq Pending \ {k}
    <3>1. \A v \in Workers \ {w} : attempt[v] # k
      BY <2>1 DEF RowInv, OwnAttempt
    <3> QED BY <1>3, <1>4, <3>1 DEF Pending, Grow
  <2>3. \A s : ResultsOf(s)' = ResultsOf(s)
    BY <1>2 DEF ResultsOf, rows
  <2>4. /\ t \in Task /\ tasks[t].attempts \in Nat
        /\ \A s \in Task \ {t} : tasks'[s] = tasks[s]
        /\ tasks'[t].status = IF attempts[k].outcome = "success" THEN "completed" ELSE "failed"
        /\ tasks'[t].attempts = tasks[t].attempts + 1
    <3>1. t \in Task
      <4>1. at[w] # 0
        BY <1>t, <1>2 DEF Holds, Busy, Reporting
      <4>2. tasksTopic \in Seq(Task) /\ at[w] \in 1..Len(tasksTopic)
        BY <1>t, <4>1 DEF TypeOK
      <4> QED BY <4>2 DEF TaskAt
    <3>2. tasks[t] \in TaskRow
      BY <1>t, <3>1 DEF TypeOK
    <3>3. tasks' = [tasks EXCEPT ![t] =
                      [status   |-> IF attempts[k].outcome = "success" THEN "completed"
                                                                       ELSE "failed",
                       attempts |-> tasks[t].attempts + 1,
                       retryAt  |-> attempts[k].outcome # "success"]]
      BY <1>1, <1>6 DEF UpdateTaskOutcome
    <3> QED BY <1>t, <3>1, <3>2, <3>3 DEF TypeOK, TaskRow
  <2>5. OwnAttempt' /\ NotYet'
    BY <1>2, <1>3, <1>4, OwnKept DEF Early, rows
  <2>6. StatusBacked'
    BY <1>2, <2>1, <2>3, <2>4 DEF RowInv, StatusBacked
  <2>7. ASSUME NEW s \in Task PROVE (tasks[s].attempts <= Cardinality(Counted(s)))'
    <3>1. /\ IsFiniteSet(Counted(s)) /\ Cardinality(Counted(s)) \in Nat
          /\ IsFiniteSet(Counted(s)') /\ Cardinality(Counted(s)') \in Nat
      BY <1>t, ResultsFinite, CountedFiniteNext
    <3>2. tasks[s].attempts \in Nat /\ tasks[s].attempts <= Cardinality(Counted(s))
      BY <1>t DEF TypeOK, TaskRow, RowInv, CountBacked
    <3>3. CASE s = t
      <4>1. k \notin Counted(s) /\ Counted(s) \cup {k} \in SUBSET Counted(s)'
        BY <2>1, <2>2, <2>3, <3>3 DEF Counted
      <4>2. Cardinality(Counted(s) \cup {k}) = Cardinality(Counted(s)) + 1
        BY <3>1, <4>1, FS_AddElement
      <4>3. Cardinality(Counted(s) \cup {k}) <= Cardinality(Counted(s)')
        BY <3>1, <4>1, FS_Subset
      <4> QED BY <2>4, <3>1, <3>2, <3>3, <4>2, <4>3
    <3>4. CASE s # t
      <4>1. Counted(s) \in SUBSET Counted(s)'
        BY <2>2, <2>3 DEF Counted
      <4>2. Cardinality(Counted(s)) <= Cardinality(Counted(s)')
        BY <3>1, <4>1, FS_Subset
      <4>3. tasks'[s] = tasks[s]
        BY <2>4, <3>4
      <4> QED BY <3>1, <3>2, <4>2, <4>3
    <3> QED BY <3>3, <3>4
  <2> QED BY <2>5, <2>6, <2>7 DEF RowInv, CountBacked
<1> QED BY <1>5, <1>6

\* The topic, the group and the clock touch neither attempts nor rows.
LEMMA EnvironmentKeeps ==
  ASSUME IInv, RowInv, TypeOK',
         \/ Publish \/ LeaseExpires \/ UNCHANGED vars
         \/ \E w \in Workers : Assign(w) \/ CommitLands(w)
  PROVE  RowInv'
<1>t. TypeOK
  BY DEF IInv
<1>1. UNCHANGED <<pc, attempt, attempts, taskResults, tasks>>
  BY DEF Publish, LeaseExpires, vars, Assign, CommitLands, evidence, rows
<1>2. \A i \in 1..Len(tasksTopic) : tasksTopic'[i] = tasksTopic[i]
  <2>1. CASE Publish
    BY <1>t, <2>1, AppendSeq DEF Publish, TypeOK
  <2>2. CASE UNCHANGED tasksTopic
    BY <2>2
  <2> QED BY <2>1, <2>2 DEF LeaseExpires, vars, Assign, CommitLands
<1>3. OwnAttempt' /\ NotYet' /\ Pending' = Pending
  BY <1>1 DEF RowInv, OwnAttempt, NotYet, Pending
<1>4. StatusBacked' /\ CountBacked'
  BY <1>1, <1>2, <1>3, RowsKept
<1> QED BY <1>3, <1>4 DEF RowInv

LEMMA RowStep == IInv /\ RowInv /\ TypeOK' /\ [Next]_vars => RowInv'
<1> SUFFICES ASSUME IInv, RowInv, TypeOK', [Next]_vars PROVE RowInv'
  OBVIOUS
<1>1. CASE \/ Publish \/ LeaseExpires \/ UNCHANGED vars
           \/ \E w \in Workers : Assign(w) \/ CommitLands(w)
  BY <1>1, EnvironmentKeeps
<1>2. ASSUME NEW w \in Workers,
             Crash(w) \/ Restart(w) \/ Receive(w) \/ SkipTask(w) \/ Panic(w) \/ Commit(w)
      PROVE  RowInv'
  BY <1>2, IdleQuiet, QuietKeeps
<1>3. ASSUME NEW w \in Workers,
             \/ AcquireLease(w) \/ Pace(w) \/ Penalize(w) \/ PublishResult(w)
             \/ PublishAudit(w) \/ StoreAudit(w) \/ StoreObservation(w)
      PROVE  RowInv'
  BY <1>3, CallQuiet, QuietKeeps
<1>4. ASSUME NEW w \in Workers, Execute(w) PROVE RowInv'
  BY <1>4, ExecuteQuiet, QuietKeeps
<1>5. ASSUME NEW w \in Workers, StoreResult(w) PROVE RowInv'
  BY <1>5, StoreQuiet, QuietKeeps
<1>6. ASSUME NEW w \in Workers, UpdateTask(w) PROVE RowInv'
  BY <1>6, UpdateStep
<1> QED BY <1>1, <1>2, <1>3, <1>4, <1>5, <1>6 DEF Next, HandleMessage

LEMMA RowsBacked == IInv /\ RowInv => RowIsBacked
<1> SUFFICES ASSUME IInv, RowInv, NEW t \in Task
             PROVE  tasks[t].attempts <= Cardinality(ResultsOf(t))
  BY DEF RowInv, StatusBacked, RowIsBacked
<1>1. TypeOK /\ Counted(t) \in SUBSET ResultsOf(t)
  BY DEF IInv, Counted
<1>2. /\ IsFiniteSet(ResultsOf(t)) /\ Cardinality(ResultsOf(t)) \in Nat
      /\ Cardinality(Counted(t)) \in Nat
  BY <1>1, ResultsFinite
<1>3. Cardinality(Counted(t)) <= Cardinality(ResultsOf(t))
  BY <1>1, <1>2, FS_Subset
<1>4. tasks[t].attempts \in Nat /\ tasks[t].attempts <= Cardinality(Counted(t))
  BY <1>1 DEF TypeOK, TaskRow, RowInv, CountBacked
<1> QED BY <1>2, <1>3, <1>4

\* The status of a task row is one of the task's results, and the row counts no
\* attempt without a result, whichever of the two statements of
\* record_task_result fail and however many workers have the task in hand.
THEOREM RowsAreBacked == Spec => []RowIsBacked
<1>1. IInv => TypeOK
  BY DEF IInv
<1> QED BY Inductive, InitRowInv, RowStep, RowsBacked, <1>1, PTL DEF Spec

=============================================================================
