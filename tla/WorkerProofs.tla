----------------------------- MODULE WorkerProofs -----------------------------
(***************************************************************************)
(* What the execution plane keeps true for every number of workers,        *)
(* regions, tasks and messages, and whatever fails: the worker implements  *)
(* the task log, Discord is asked in log order, and the records of an      *)
(* attempt keep their order.                                               *)
(***************************************************************************)
EXTENDS Worker, TLAPS

\* A worker in handle_message holds an offset, and from the answer of Discord on
\* the attempt it made on that offset.
Holds(w) ==
  /\ pc[w] \in Busy => at[w] # 0
  /\ pc[w] \in Reporting \cup {"commit"} =>
       attempt[w] # 0 /\ attempts[attempt[w]].offset = at[w]

InHand == \A w \in Workers : Holds(w)

\* What a worker has reported before its next call.
HasReported(w) ==
  /\ pc[w] = "publishAudit" => attempt[w] \in resultsTopic
  /\ pc[w] = "storeResult" => attempt[w] \in auditTopic
  /\ pc[w] \in {"updateTask", "storeAudit"} => attempt[w] \in taskResults
  /\ pc[w] = "storeObservation" => attempt[w] \in auditEvents
  /\ pc[w] = "commit" => attempt[w] \in observations

Reported == \A w \in Workers : HasReported(w)

\* All offsets up to n are handled.
Done(n) == \A i \in 1..n : Handled(i)

\* Offsets committed, or asked to be, and those before a message in hand.
Acked == Done(committed) /\ \A w \in Workers : \A i \in inflight[w] : Done(i)

InOrder == \A w \in Workers : pc[w] \in Busy => Done(at[w] - 1)

\* The owner has dealt with all it was given but for the message in hand.
OwnerDone ==
  owner # NoWorker =>
    Done(position) \/ (pc[owner] \in Busy /\ at[owner] = position /\ Done(position - 1))

IInv ==
  /\ TypeOK /\ InHand /\ Reported /\ EvidenceChain
  /\ Acked /\ InOrder /\ OwnerDone /\ ExecutedInOrder

-----------------------------------------------------------------------------
(* Lemmas about sequences and about what is handled.                        *)

\* What Append makes of a sequence.
LEMMA AppendSeq ==
  ASSUME NEW S, NEW s \in Seq(S), NEW e \in S
  PROVE  /\ Append(s, e) \in Seq(S)
         /\ Len(Append(s, e)) = Len(s) + 1
         /\ \A i \in 1..Len(s) : Append(s, e)[i] = s[i]
         /\ Append(s, e)[Len(s) + 1] = e
  OBVIOUS

\* A sequence stays one over a larger set.
LEMMA SeqWiden ==
  ASSUME NEW S, NEW T, S \subseteq T, NEW s \in Seq(S)
  PROVE  s \in Seq(T)
  OBVIOUS

\* What a sequence has at a place in it.
LEMMA SeqElement ==
  ASSUME NEW S, NEW s \in Seq(S), NEW i \in DOMAIN s
  PROVE  s[i] \in S
  OBVIOUS

\* A new call to Discord, or a new message, handles nothing by itself.
LEMMA HandledSame ==
  ASSUME TypeOK, UNCHANGED <<skipped, abandoned, observations>>,
         \A k \in DOMAIN attempts : attempts'[k] = attempts[k]
  PROVE  \A i : Handled(i)' <=> Handled(i)
<1>1. \A k \in observations : attempts'[k] = attempts[k]
  BY DEF TypeOK
<1> QED BY <1>1 DEF Handled

\* Offset n is skipped, given up or observed: nothing else becomes handled.
LEMMA HandledMore ==
  ASSUME TypeOK, UNCHANGED attempts, NEW n,
         skipped' \in {skipped, skipped \cup {n}},
         abandoned' \in {abandoned, abandoned \cup {n}},
         \/ observations' = observations
         \/ \E k : attempts[k].offset = n /\ observations' = observations \cup {k}
  PROVE  /\ \A i : Handled(i) => Handled(i)'
         /\ \A i : Handled(i)' => Handled(i) \/ i = n
         /\ n \in skipped' \cup abandoned' => Handled(n)'
  BY DEF Handled

-----------------------------------------------------------------------------

LEMMA InitIInv == Init => IInv
<1> SUFFICES ASSUME Init PROVE IInv
  OBVIOUS
<1>1. TypeOK
  BY BoundsAssumption DEF Init, TypeOK, TaskRow, NoTaskRow, QueuedRow, TaskStatuses
<1>2. InHand /\ Reported
  BY DEF Init, InHand, Holds, Reported, HasReported, Busy, Reporting
<1>3. EvidenceChain
  BY DEF Init, EvidenceChain
<1>4. Done(0)
  BY DEF Done
<1>5. Acked /\ OwnerDone
  BY <1>4 DEF Init, Acked, OwnerDone
<1>6. InOrder
  BY DEF Init, InOrder, Busy, Reporting
<1>7. ExecutedInOrder
  BY DEF Init, ExecutedInOrder
<1> QED BY <1>1, <1>2, <1>3, <1>5, <1>6, <1>7 DEF IInv

-----------------------------------------------------------------------------
(* The type invariant.                                                      *)

\* Giving up a message, or going on, keeps a worker's variables typed.
LEMMA AfterType ==
  ASSUME IInv, NEW w \in Workers, pc[w] \in Busy, NEW r, NEW label \in Busy,
         After(w, r, label)
  PROVE  /\ pc' \in [Workers -> Busy \cup {"recv", "down"}]
         /\ at' \in [Workers -> 0..Len(tasksTopic)]
         /\ attempt' \in [Workers -> 0..Len(attempts)]
         /\ abandoned' \subseteq 1..Len(tasksTopic)
<1>t. TypeOK /\ at[w] \in 1..Len(tasksTopic) /\ Len(tasksTopic) \in Nat /\ Len(attempts) \in Nat
  BY DEF IInv, TypeOK, InHand, Holds
<1>1. CASE /\ r = "ok" /\ pc' = [pc EXCEPT ![w] = label]
           /\ UNCHANGED <<at, attempt, abandoned>>
  BY <1>t, <1>1 DEF TypeOK
<1>2. CASE /\ LetGo(w, "recv") /\ abandoned' = abandoned \cup {at[w]}
  <2>1. pc' = [pc EXCEPT ![w] = "recv"] /\ at' = [at EXCEPT ![w] = 0]
        /\ attempt' = [attempt EXCEPT ![w] = 0]
    BY <1>2 DEF LetGo
  <2>2. 0 \in 0..Len(tasksTopic) /\ 0 \in 0..Len(attempts)
    BY <1>t
  <2>3. /\ pc \in [Workers -> Busy \cup {"recv", "down"}]
        /\ at \in [Workers -> 0..Len(tasksTopic)]
        /\ attempt \in [Workers -> 0..Len(attempts)]
        /\ abandoned \subseteq 1..Len(tasksTopic)
    BY <1>t DEF TypeOK
  <2> QED BY <1>t, <1>2, <2>1, <2>2, <2>3
<1> QED BY <1>1, <1>2 DEF After

\* A record is of an attempt that was made.
LEMMA RecordType ==
  ASSUME IInv, NEW w \in Workers, pc[w] \in Reporting, NEW r,
         NEW set, set \subseteq DOMAIN attempts
  PROVE  Record(set, w, r) \subseteq DOMAIN attempts
  BY DEF IInv, TypeOK, InHand, Holds, Record

LEMMA TypeStep == IInv /\ [Next]_vars => TypeOK'
<1> SUFFICES ASSUME IInv, [Next]_vars PROVE TypeOK'
  OBVIOUS
<1>t. TypeOK
  BY DEF IInv
<1>1. CASE Publish
  <2>1. PICK t \in Task : tasksTopic' = Append(tasksTopic, t)
    BY <1>1 DEF Publish
  <2>2. /\ Len(tasksTopic) \in Nat /\ Len(tasksTopic') = Len(tasksTopic) + 1
        /\ tasksTopic' \in Seq(Task) /\ Len(tasksTopic') <= MaxLog
    BY <1>1, <1>t, <2>1, BoundsAssumption, AppendSeq DEF Publish, TypeOK
  <2>3. attempts \in Seq([offset : 1..Len(tasksTopic'), outcome : Outcomes])
    <3>1. [offset : 1..Len(tasksTopic), outcome : Outcomes]
            \subseteq [offset : 1..Len(tasksTopic'), outcome : Outcomes]
      BY <2>2
    <3>2. attempts \in Seq([offset : 1..Len(tasksTopic), outcome : Outcomes])
      BY <1>t DEF TypeOK
    <3> QED BY <3>1, <3>2, SeqWiden
  <2> QED BY <1>1, <1>t, <2>2, <2>3
          DEF Publish, TypeOK, group, evidence, topics, rows, history
<1>2. CASE LeaseExpires
  BY <1>2, <1>t DEF LeaseExpires, TypeOK, group, evidence, topics, rows, history
<1>3. ASSUME NEW w \in Workers, Assign(w) PROVE TypeOK'
  <2>1. disruptions' \in 0..MaxDisruptions
    BY <1>3, <1>t, BoundsAssumption DEF Assign, TypeOK
  <2>2. owner' \in Workers /\ position' \in 0..Len(tasksTopic)
    BY <1>3, <1>t DEF Assign, StartOffset, TypeOK
  <2>3. UNCHANGED <<tasksTopic, lease, committed, inflight, pc, at, attempt, attempts,
                    evidence, history>>
    BY <1>3 DEF Assign
  <2> QED BY <1>t, <2>1, <2>2, <2>3 DEF TypeOK, evidence, topics, rows, history
<1>4. ASSUME NEW w \in Workers, CommitLands(w) PROVE TypeOK'
  <2>1. committed' \in 0..Len(tasksTopic) /\ inflight' \in [Workers -> SUBSET (1..Len(tasksTopic))]
    BY <1>4, <1>t DEF CommitLands, TypeOK
  <2>2. UNCHANGED <<tasksTopic, lease, owner, position, pc, at, attempt, attempts, evidence,
                    history, disruptions>>
    BY <1>4 DEF CommitLands
  <2> QED BY <1>t, <2>1, <2>2 DEF TypeOK, evidence, topics, rows, history
<1>5. ASSUME NEW w \in Workers, Crash(w) PROVE TypeOK'
  BY <1>5, <1>t, BoundsAssumption
     DEF Crash, Die, LetGo, TypeOK, evidence, topics, rows, history
<1>6. ASSUME NEW w \in Workers, Restart(w) PROVE TypeOK'
  BY <1>6, <1>t DEF Restart, TypeOK, group, evidence, topics, rows, history
<1>7. ASSUME NEW w \in Workers, Receive(w) PROVE TypeOK'
  BY <1>7, <1>t DEF Receive, TypeOK, Busy, evidence, topics, rows, history
<1>8. ASSUME NEW w \in Workers, AcquireLease(w) PROVE TypeOK'
  <2>1. PICK r \in Replies : After(w, r, "pace") /\ lease' = IF r = "lost" THEN lease ELSE LeaseRegion(w)
    BY <1>8 DEF AcquireLease
  <2>2. LeaseRegion(w) \in Regions
    <3>1. TaskAt(w) \in Task
      BY <1>8, <1>t DEF AcquireLease, TaskAt, TypeOK, IInv, InHand, Holds, Busy
    <3> QED BY <3>1, RegionAssumption DEF LeaseRegion
  <2>3. pc[w] \in Busy /\ "pace" \in Busy
    BY <1>8 DEF AcquireLease, Busy
  <2> QED BY <1>8, <1>t, <2>1, <2>2, <2>3, AfterType
          DEF AcquireLease, TypeOK, Fixed, group, evidence, topics, rows
<1>9. ASSUME NEW w \in Workers, SkipTask(w) PROVE TypeOK'
  <2>1. at[w] \in 1..Len(tasksTopic)
    BY <1>9, <1>t DEF SkipTask, TypeOK, IInv, InHand, Holds, Busy
  <2>2. /\ pc' = [pc EXCEPT ![w] = "recv"] /\ at' = [at EXCEPT ![w] = 0]
        /\ attempt' = [attempt EXCEPT ![w] = 0] /\ inflight' = [inflight EXCEPT ![w] = @ \cup {at[w]}]
        /\ skipped' = skipped \cup {at[w]}
        /\ UNCHANGED <<tasksTopic, lease, group, attempts, evidence, abandoned, disruptions>>
    BY <1>9 DEF SkipTask, LetGo, AckOffset
  <2>3. attempt' \in [Workers -> 0..Len(attempts)] /\ at' \in [Workers -> 0..Len(tasksTopic)]
        /\ inflight' \in [Workers -> SUBSET (1..Len(tasksTopic))]
    BY <1>t, <2>1, <2>2 DEF TypeOK
  <2> QED BY <1>t, <2>1, <2>2, <2>3 DEF TypeOK, group, evidence, topics, rows
<1>10. ASSUME NEW w \in Workers, Pace(w) \/ Penalize(w) PROVE TypeOK'
  <2>1. PICK l \in {"execute", "publishResult"} : \E r : After(w, r, l)
    BY <1>10 DEF Pace, Penalize
  <2>2. pc[w] \in Busy /\ l \in Busy
    BY <1>10 DEF Pace, Penalize, Busy, Reporting
  <2>3. UNCHANGED <<Fixed, lease, inflight, attempts, evidence>>
    BY <1>10 DEF Pace, Penalize
  <2> QED BY <1>t, <2>1, <2>2, <2>3, AfterType
          DEF TypeOK, Fixed, group, evidence, topics, rows
<1>11. ASSUME NEW w \in Workers, Panic(w) PROVE TypeOK'
  BY <1>11, <1>t DEF Panic, Die, LetGo, TypeOK, evidence, topics, rows, history
<1>12. ASSUME NEW w \in Workers, Execute(w) PROVE TypeOK'
  <2>1. PICK outcome \in Outcomes :
          /\ attempts' = Append(attempts, [offset |-> at[w], outcome |-> outcome])
          /\ pc' = [pc EXCEPT ![w] = IF outcome = "success" THEN "publishResult"
                                                            ELSE "penalize"]
    BY <1>12 DEF Execute, OutcomesOf, Outcomes
  <2>2. at[w] \in 1..Len(tasksTopic)
    BY <1>12, <1>t DEF Execute, TypeOK, IInv, InHand, Holds, Busy
  <2>3. /\ attempts' \in Seq([offset : 1..Len(tasksTopic), outcome : Outcomes])
        /\ Len(attempts') = Len(attempts) + 1 /\ Len(attempts) \in Nat
    BY <1>t, <2>1, <2>2 DEF TypeOK
  <2>4. /\ attempt' = [attempt EXCEPT ![w] = Len(attempts) + 1]
        /\ UNCHANGED <<Fixed, at, abandoned, lease, inflight, evidence>>
    BY <1>12 DEF Execute
  <2>5. attempt' \in [Workers -> 0..Len(attempts')] /\ DOMAIN attempts \subseteq DOMAIN attempts'
    <3>1. attempt \in [Workers -> 0..Len(attempts)]
      BY <1>t DEF TypeOK
    <3>2. 0..Len(attempts) \subseteq 0..Len(attempts') /\ Len(attempts) + 1 \in 0..Len(attempts')
      BY <2>3
    <3>3. DOMAIN attempts = 1..Len(attempts) /\ DOMAIN attempts' = 1..Len(attempts')
      BY <1>t, <2>3 DEF TypeOK
    <3> QED BY <2>3, <2>4, <3>1, <3>2, <3>3
  <2>6. pc' \in [Workers -> Busy \cup {"recv", "down"}]
    BY <1>t, <2>1 DEF TypeOK, Busy, Reporting
  <2> QED BY <1>t, <2>3, <2>4, <2>5, <2>6
          DEF TypeOK, Fixed, group, evidence, topics, rows
<1>13. ASSUME NEW w \in Workers, PublishResult(w) \/ PublishAudit(w) \/ StoreResult(w)
                                  \/ StoreAudit(w) \/ StoreObservation(w)
       PROVE  TypeOK'
  <2>1. PICK l \in Busy : \E r :
          /\ After(w, r, l)
          /\ resultsTopic' \in {resultsTopic, Record(resultsTopic, w, r)}
          /\ auditTopic' \in {auditTopic, Record(auditTopic, w, r)}
          /\ taskResults' \in {taskResults, Record(taskResults, w, r)}
          /\ auditEvents' \in {auditEvents, Record(auditEvents, w, r)}
          /\ observations' \in {observations, Record(observations, w, r)}
    <3>1. {"publishAudit", "storeResult", "updateTask", "storeObservation", "commit"} \subseteq Busy
      BY DEF Busy, Reporting
    <3>2. CASE PublishResult(w)
      BY <3>1, <3>2 DEF PublishResult, rows
    <3>3. CASE PublishAudit(w)
      BY <3>1, <3>3 DEF PublishAudit, rows
    <3>4. CASE StoreResult(w)
      BY <3>1, <3>4 DEF StoreResult, topics
    <3>5. CASE StoreAudit(w)
      BY <3>1, <3>5 DEF StoreAudit, topics
    <3>6. CASE StoreObservation(w)
      BY <3>1, <3>6 DEF StoreObservation, topics
    <3> QED BY <1>13, <3>2, <3>3, <3>4, <3>5, <3>6
  <2>2. pc[w] \in Busy /\ pc[w] \in Reporting
    BY <1>13 DEF PublishResult, PublishAudit, StoreResult, StoreAudit, StoreObservation,
                 Busy, Reporting
  <2>3. UNCHANGED <<Fixed, lease, inflight, attempts, tasks>>
    BY <1>13 DEF PublishResult, PublishAudit, StoreResult, StoreAudit, StoreObservation
  <2> QED BY <1>t, <2>1, <2>2, <2>3, AfterType, RecordType
          DEF TypeOK, Fixed, group
<1>14. ASSUME NEW w \in Workers, UpdateTask(w) PROVE TypeOK'
  <2>1. PICK r \in Replies :
          /\ After(w, r, "storeAudit")
          /\ tasks' = IF r = "lost" THEN tasks
                      ELSE UpdateTaskOutcome(tasks, TaskAt(w), attempts[attempt[w]].outcome)
    BY <1>14 DEF UpdateTask
  <2>2. pc[w] \in Busy /\ "storeAudit" \in Busy
    BY <1>14 DEF UpdateTask, Busy, Reporting
  <2>3. tasks' \in [Task -> TaskRow]
    <3>1. TaskAt(w) \in Task
      BY <1>14, <1>t, <2>2 DEF TaskAt, TypeOK, IInv, InHand, Holds
    <3>2. tasks[TaskAt(w)].attempts + 1 \in Nat
      BY <1>t, <3>1 DEF TypeOK, TaskRow
    <3> QED BY <1>t, <2>1, <3>1, <3>2 DEF TypeOK, UpdateTaskOutcome, TaskRow, TaskStatuses
  <2> QED BY <1>14, <1>t, <2>1, <2>2, <2>3, AfterType
          DEF UpdateTask, TypeOK, Fixed, group, topics, rows
<1>15. ASSUME NEW w \in Workers, Commit(w) PROVE TypeOK'
  <2>1. at[w] \in 1..Len(tasksTopic)
    BY <1>15, <1>t DEF Commit, TypeOK, IInv, InHand, Holds, Busy
  <2>2. /\ pc' = [pc EXCEPT ![w] = "recv"] /\ at' = [at EXCEPT ![w] = 0]
        /\ attempt' = [attempt EXCEPT ![w] = 0]
        /\ inflight' = [inflight EXCEPT ![w] = @ \cup {at[w]}]
        /\ UNCHANGED <<Fixed, abandoned, lease, attempts, evidence>>
    BY <1>15 DEF Commit, LetGo, AckOffset
  <2> QED BY <1>t, <2>1, <2>2 DEF TypeOK, Fixed, group, evidence, topics, rows
<1>16. CASE UNCHANGED vars
  BY <1>16, <1>t DEF vars, TypeOK, group, evidence, topics, rows, history
<1> QED BY <1>1, <1>2, <1>3, <1>4, <1>5, <1>6, <1>7, <1>8, <1>9, <1>10, <1>11, <1>12,
           <1>13, <1>14, <1>15, <1>16 DEF Next, HandleMessage

-----------------------------------------------------------------------------
(* What a worker has in hand, and its records.                              *)

\* The workers that do not step, and the records, which only grow.
Grow(w) ==
  /\ \A v \in Workers \ {w} : pc'[v] = pc[v] /\ at'[v] = at[v] /\ attempt'[v] = attempt[v]
  /\ \A k \in DOMAIN attempts : attempts'[k] = attempts[k]
  /\ resultsTopic \subseteq resultsTopic' /\ auditTopic \subseteq auditTopic'
  /\ taskResults \subseteq taskResults' /\ auditEvents \subseteq auditEvents'
  /\ observations \subseteq observations'

\* It is enough to look at the worker that steps.
LEMMA OthersKept ==
  ASSUME IInv, NEW w \in Workers, Grow(w), Holds(w)', HasReported(w)'
  PROVE  InHand' /\ Reported'
<1> SUFFICES ASSUME NEW v \in Workers PROVE Holds(v)' /\ HasReported(v)'
  BY DEF InHand, Reported
<1>1. CASE v = w
  BY <1>1
<1>2. CASE v # w
  <2>1. attempt[v] # 0 => attempt[v] \in DOMAIN attempts
    BY DEF IInv, TypeOK
  <2>2. Holds(v) /\ HasReported(v)
    BY DEF IInv, InHand, Reported
  <2>3. pc'[v] = pc[v] /\ at'[v] = at[v] /\ attempt'[v] = attempt[v]
    BY <1>2 DEF Grow
  <2>4. Holds(v)'
    BY <2>1, <2>2, <2>3 DEF Holds, Grow
  <2>5. HasReported(v)'
    BY <2>2, <2>3 DEF HasReported, Grow
  <2> QED BY <2>4, <2>5
<1> QED BY <1>1, <1>2

\* A worker without a message has nothing to show.
LEMMA EmptyHanded ==
  ASSUME NEW w \in Workers, pc'[w] \in {"recv", "down", "lease", "pace", "execute"},
         pc'[w] \in {"recv", "down"} \/ at'[w] # 0
  PROVE  Holds(w)' /\ HasReported(w)'
  BY DEF Holds, HasReported, Busy, Reporting

LEMMA RecordsStep == IInv /\ [Next]_vars => InHand' /\ Reported' /\ EvidenceChain'
<1> SUFFICES ASSUME IInv, [Next]_vars PROVE InHand' /\ Reported' /\ EvidenceChain'
  OBVIOUS
<1>t. TypeOK /\ InHand /\ Reported /\ EvidenceChain
  BY DEF IInv
<1>1. CASE Publish \/ LeaseExpires \/ UNCHANGED vars
  <2>1. UNCHANGED <<pc, at, attempt, attempts, evidence>>
    BY <1>1 DEF Publish, LeaseExpires, vars
  <2> QED BY <1>t, <2>1 DEF InHand, Holds, Reported, HasReported, EvidenceChain,
                            evidence, topics, rows
<1>2. ASSUME NEW w \in Workers, Assign(w) \/ CommitLands(w)
      PROVE  InHand' /\ Reported' /\ EvidenceChain'
  <2>1. UNCHANGED <<pc, at, attempt, attempts, evidence>>
    BY <1>2 DEF Assign, CommitLands
  <2> QED BY <1>t, <2>1 DEF InHand, Holds, Reported, HasReported, EvidenceChain,
                            evidence, topics, rows
<1>3. ASSUME NEW w \in Workers,
             Crash(w) \/ Restart(w) \/ Receive(w) \/ SkipTask(w) \/ Panic(w) \/ Commit(w)
      PROVE  InHand' /\ Reported' /\ EvidenceChain'
  <2>1. UNCHANGED <<attempts, evidence>>
    BY <1>3 DEF Crash, Restart, Receive, SkipTask, Panic, Commit, Die
  <2>2. Grow(w)
    BY <1>3, <1>t, <2>1 DEF Crash, Restart, Receive, SkipTask, Panic, Commit, Die, LetGo,
                            TypeOK, Grow, evidence, topics, rows
  <2>3. Holds(w)' /\ HasReported(w)'
    <3>1. CASE Receive(w)
      BY <1>t, <3>1, EmptyHanded DEF Receive, TypeOK
    <3>2. CASE ~Receive(w)
      <4>1. pc'[w] \in {"recv", "down"}
        BY <1>3, <1>t, <3>2 DEF Crash, Restart, SkipTask, Panic, Commit, Die, LetGo, TypeOK
      <4> QED BY <4>1, EmptyHanded
    <3> QED BY <3>1, <3>2
  <2> QED BY <1>t, <2>1, <2>2, <2>3, OthersKept DEF EvidenceChain, evidence, topics, rows
<1>4. ASSUME NEW w \in Workers, AcquireLease(w) \/ Pace(w) \/ Penalize(w) \/ UpdateTask(w)
      PROVE  InHand' /\ Reported' /\ EvidenceChain'
  <2>1. PICK l, r : After(w, r, l) /\ (pc[w] = "lease" => l = "pace")
                    /\ (pc[w] = "pace" => l = "execute")
                    /\ (pc[w] = "penalize" => l = "publishResult")
                    /\ (pc[w] = "updateTask" => l = "storeAudit")
    BY <1>4 DEF AcquireLease, Pace, Penalize, UpdateTask
  <2>2. /\ UNCHANGED <<attempts, topics, rows>>
        /\ pc[w] \in {"lease", "pace", "penalize", "updateTask"}
    BY <1>4 DEF AcquireLease, Pace, Penalize, UpdateTask, evidence
  <2>3. Grow(w)
    BY <1>t, <2>1, <2>2 DEF After, LetGo, TypeOK, Grow, topics, rows
  <2>4. Holds(w)' /\ HasReported(w)'
    <3>1. CASE r = "ok"
      <4>1. pc'[w] = l /\ at'[w] = at[w] /\ attempt'[w] = attempt[w]
        BY <1>t, <2>1, <3>1 DEF After, TypeOK
      <4>2. Holds(w) /\ HasReported(w)
        BY <1>t DEF InHand, Reported
      <4> QED BY <2>1, <2>2, <4>1, <4>2 DEF Holds, HasReported, Busy, Reporting, topics, rows
    <3>2. CASE r # "ok"
      <4>1. pc'[w] = "recv"
        BY <1>t, <2>1, <3>2 DEF After, LetGo, TypeOK
      <4> QED BY <4>1, EmptyHanded
    <3> QED BY <3>1, <3>2
  <2> QED BY <1>t, <2>2, <2>3, <2>4, OthersKept DEF EvidenceChain, topics, rows
<1>5. ASSUME NEW w \in Workers, Execute(w)
      PROVE  InHand' /\ Reported' /\ EvidenceChain'
  <2>1. PICK outcome \in Outcomes :
          /\ attempts' = Append(attempts, [offset |-> at[w], outcome |-> outcome])
          /\ pc' = [pc EXCEPT ![w] = IF outcome = "success" THEN "publishResult"
                                                            ELSE "penalize"]
    BY <1>5 DEF Execute, OutcomesOf, Outcomes
  <2>2. /\ attempt' = [attempt EXCEPT ![w] = Len(attempts) + 1]
        /\ pc[w] = "execute" /\ UNCHANGED <<at, evidence>>
    BY <1>5 DEF Execute
  <2>3. /\ Len(attempts) \in Nat /\ attempts'[Len(attempts) + 1].offset = at[w]
        /\ \A k \in DOMAIN attempts : attempts'[k] = attempts[k]
    <3>1. [offset |-> at[w], outcome |-> outcome] \in [offset : 1..Len(tasksTopic), outcome : Outcomes]
      BY <1>t, <2>2 DEF TypeOK, InHand, Holds, Busy
    <3> QED BY <1>t, <2>1, <3>1, AppendSeq DEF TypeOK
  <2>4. Grow(w)
    BY <1>t, <2>1, <2>2, <2>3 DEF TypeOK, Grow, evidence, topics, rows
  <2>5. pc'[w] \in {"publishResult", "penalize"} /\ attempt'[w] = Len(attempts) + 1
        /\ at'[w] = at[w] /\ at[w] # 0
    BY <1>t, <2>1, <2>2 DEF TypeOK, InHand, Holds, Busy
  <2>6. Holds(w)' /\ HasReported(w)'
    BY <2>3, <2>5 DEF Holds, HasReported
  <2> QED BY <1>t, <2>2, <2>4, <2>6, OthersKept DEF EvidenceChain, evidence, topics, rows
<1>6. ASSUME NEW w \in Workers, NEW r, NEW l, pc[w] \in Reporting, UNCHANGED attempts,
             After(w, r, l), l \in Reporting \cup {"commit"},
             resultsTopic \subseteq resultsTopic', auditTopic \subseteq auditTopic',
             taskResults \subseteq taskResults', auditEvents \subseteq auditEvents',
             observations \subseteq observations', (r = "ok" /\ pc'[w] = l) => HasReported(w)'
      PROVE  InHand' /\ Reported'
  <2>1. Grow(w)
    BY <1>t, <1>6 DEF After, LetGo, TypeOK, Grow
  <2>2. CASE r = "ok"
    <3>1. pc'[w] = l /\ at'[w] = at[w] /\ attempt'[w] = attempt[w]
      BY <1>t, <1>6, <2>2 DEF After, TypeOK
    <3>2. Holds(w)
      BY <1>t DEF InHand
    <3> QED BY <1>6, <2>1, <2>2, <3>1, <3>2, OthersKept DEF Holds, Busy
  <2>3. CASE r # "ok"
    <3>1. pc'[w] = "recv"
      BY <1>t, <1>6, <2>3 DEF After, LetGo, TypeOK
    <3> QED BY <2>1, <3>1, EmptyHanded, OthersKept
  <2> QED BY <2>2, <2>3
<1>7. ASSUME NEW w \in Workers, PublishResult(w)
      PROVE  InHand' /\ Reported' /\ EvidenceChain'
  <2>1. PICK r : After(w, r, "publishAudit") /\ resultsTopic' = Record(resultsTopic, w, r)
    BY <1>7 DEF PublishResult
  <2>2. pc[w] = "publishResult" /\ UNCHANGED <<attempts, auditTopic, rows>>
    BY <1>7 DEF PublishResult
  <2>3. r = "ok" => attempt'[w] \in resultsTopic'
    BY <2>1 DEF After, Record
  <2>4. InHand' /\ Reported'
    BY <1>6, <2>1, <2>2, <2>3 DEF Record, Reporting, HasReported, rows
  <2> QED BY <1>t, <2>1, <2>2, <2>4 DEF EvidenceChain, Record, rows
<1>8. ASSUME NEW w \in Workers, PublishAudit(w)
      PROVE  InHand' /\ Reported' /\ EvidenceChain'
  <2>1. PICK r : After(w, r, "storeResult") /\ auditTopic' = Record(auditTopic, w, r)
    BY <1>8 DEF PublishAudit
  <2>2. pc[w] = "publishAudit" /\ UNCHANGED <<attempts, resultsTopic, rows>>
    BY <1>8 DEF PublishAudit
  <2>3. r = "ok" => attempt'[w] \in auditTopic'
    BY <2>1 DEF After, Record
  <2>4. InHand' /\ Reported'
    BY <1>6, <2>1, <2>2, <2>3 DEF Record, Reporting, HasReported, rows
  <2>5. attempt[w] \in resultsTopic
    BY <1>t, <2>2 DEF Reported, HasReported
  <2> QED BY <1>t, <2>1, <2>2, <2>4, <2>5 DEF EvidenceChain, Record, rows
<1>9. ASSUME NEW w \in Workers, StoreResult(w)
      PROVE  InHand' /\ Reported' /\ EvidenceChain'
  <2>1. PICK r : After(w, r, "updateTask") /\ taskResults' = Record(taskResults, w, r)
    BY <1>9 DEF StoreResult
  <2>2. pc[w] = "storeResult" /\ UNCHANGED <<attempts, topics, auditEvents, observations>>
    BY <1>9 DEF StoreResult
  <2>3. r = "ok" => attempt'[w] \in taskResults'
    BY <2>1 DEF After, Record
  <2>4. InHand' /\ Reported'
    BY <1>6, <2>1, <2>2, <2>3 DEF Record, Reporting, HasReported, topics
  <2>5. attempt[w] \in auditTopic
    BY <1>t, <2>2 DEF Reported, HasReported
  <2> QED BY <1>t, <2>1, <2>2, <2>4, <2>5 DEF EvidenceChain, Record, topics
<1>10. ASSUME NEW w \in Workers, StoreAudit(w)
       PROVE  InHand' /\ Reported' /\ EvidenceChain'
  <2>1. PICK r : After(w, r, "storeObservation") /\ auditEvents' = Record(auditEvents, w, r)
    BY <1>10 DEF StoreAudit
  <2>2. pc[w] = "storeAudit" /\ UNCHANGED <<attempts, topics, taskResults, observations>>
    BY <1>10 DEF StoreAudit
  <2>3. r = "ok" => attempt'[w] \in auditEvents'
    BY <2>1 DEF After, Record
  <2>4. InHand' /\ Reported'
    BY <1>6, <2>1, <2>2, <2>3 DEF Record, Reporting, HasReported, topics
  <2>5. attempt[w] \in taskResults
    BY <1>t, <2>2 DEF Reported, HasReported
  <2> QED BY <1>t, <2>1, <2>2, <2>4, <2>5 DEF EvidenceChain, Record, topics
<1>11. ASSUME NEW w \in Workers, StoreObservation(w)
       PROVE  InHand' /\ Reported' /\ EvidenceChain'
  <2>1. PICK r : After(w, r, "commit") /\ observations' = Record(observations, w, r)
    BY <1>11 DEF StoreObservation
  <2>2. pc[w] = "storeObservation" /\ UNCHANGED <<attempts, topics, taskResults, auditEvents>>
    BY <1>11 DEF StoreObservation
  <2>3. r = "ok" => attempt'[w] \in observations'
    BY <2>1 DEF After, Record
  <2>4. InHand' /\ Reported'
    BY <1>6, <2>1, <2>2, <2>3 DEF Record, Reporting, HasReported, topics
  <2>5. attempt[w] \in auditEvents
    BY <1>t, <2>2 DEF Reported, HasReported
  <2> QED BY <1>t, <2>1, <2>2, <2>4, <2>5 DEF EvidenceChain, Record, topics
<1> QED BY <1>1, <1>2, <1>3, <1>4, <1>5, <1>7, <1>8, <1>9, <1>10, <1>11
        DEF Next, HandleMessage

-----------------------------------------------------------------------------
(* What is handled, and in what order.                                      *)

\* A call of handle_message by w touches only what w has in hand, and lets go
\* of offset n when it is handled or when the process dies.
Effect(w, n) ==
  /\ n = at[w]
  /\ UNCHANGED <<tasksTopic, position, committed>>
  /\ pc[w] \in Busy
  /\ \A v \in Workers \ {w} : pc'[v] = pc[v] /\ at'[v] = at[v] /\ inflight'[v] = inflight[v]
  /\ \/ pc'[w] \in Busy /\ at'[w] = at[w] /\ UNCHANGED owner
     \/ pc'[w] \notin Busy /\ Handled(n)' /\ UNCHANGED owner
     \/ pc'[w] \notin Busy /\ owner' = IF owner = w THEN NoWorker ELSE owner
  /\ inflight'[w] \in {inflight[w], {}} \/ (inflight'[w] = inflight[w] \cup {n} /\ Handled(n)')
  /\ \A i : Handled(i) => Handled(i)'
  /\ \A i : Handled(i)' => Handled(i) \/ i = n
  /\ \/ UNCHANGED attempts
     \/ \E outcome \in Outcomes :
          attempts' = Append(attempts, [offset |-> at[w], outcome |-> outcome])

\* The calls that end in After.
LEMMA CallEffect ==
  ASSUME IInv, NEW w \in Workers, pc[w] \in Busy, NEW n, n = at[w], NEW r, NEW label \in Busy,
         After(w, r, label), UNCHANGED <<Fixed, inflight, attempts>>,
         \/ observations' = observations
         \/ attempts[attempt[w]].offset = at[w] /\ observations' = observations \cup {attempt[w]}
  PROVE  Effect(w, n)
<1>t. TypeOK
  BY DEF IInv
<1>1. /\ UNCHANGED <<tasksTopic, position, committed, owner, inflight, attempts>>
      /\ skipped' = skipped
  BY DEF Fixed, group
<1>2. abandoned' \in {abandoned, abandoned \cup {at[w]}}
  BY DEF After
<1>3. /\ \A i : Handled(i) => Handled(i)'
      /\ \A i : Handled(i)' => Handled(i) \/ i = n
      /\ n \in skipped' \cup abandoned' => Handled(n)'
  BY <1>t, <1>1, <1>2, HandledMore
<1>4. \A v \in Workers \ {w} : pc'[v] = pc[v] /\ at'[v] = at[v]
  BY <1>t DEF After, LetGo, TypeOK
<1>5. \/ pc'[w] \in Busy /\ at'[w] = at[w]
      \/ pc'[w] \notin Busy /\ Handled(n)'
  <2>1. CASE r = "ok"
    BY <1>t, <2>1 DEF After, TypeOK
  <2>2. CASE r # "ok"
    <3>1. pc'[w] = "recv" /\ n \in abandoned'
      BY <1>t, <2>2 DEF After, LetGo, TypeOK
    <3> QED BY <1>3, <3>1 DEF Busy, Reporting
  <2> QED BY <2>1, <2>2
<1> QED BY <1>1, <1>3, <1>4, <1>5 DEF Effect

LEMMA StepEffect ==
  ASSUME IInv, NEW w \in Workers, HandleMessage(w), NEW n, n = at[w]
  PROVE  Effect(w, n)
<1>t. TypeOK /\ Holds(w) /\ HasReported(w)
  BY DEF IInv, InHand, Reported
<1>1. CASE AcquireLease(w) \/ Pace(w) \/ Penalize(w) \/ PublishResult(w) \/ PublishAudit(w)
           \/ StoreResult(w) \/ UpdateTask(w) \/ StoreAudit(w)
  <2>1. /\ UNCHANGED <<Fixed, inflight, attempts, observations>> /\ pc[w] \in Busy
    BY <1>1 DEF AcquireLease, Pace, Penalize, PublishResult, PublishAudit, StoreResult,
                UpdateTask, StoreAudit, evidence, rows, Busy, Reporting
  <2>2. PICK l \in {"pace", "execute", "publishResult", "publishAudit", "storeResult",
                    "updateTask", "storeAudit", "storeObservation"} : \E r : After(w, r, l)
    BY <1>1 DEF AcquireLease, Pace, Penalize, PublishResult, PublishAudit, StoreResult,
                UpdateTask, StoreAudit
  <2>3. l \in Busy
    BY <2>2 DEF Busy, Reporting
  <2> QED BY <2>1, <2>2, <2>3, CallEffect
<1>2. CASE StoreObservation(w)
  <2>1. PICK r : After(w, r, "commit") /\ observations' = Record(observations, w, r)
    BY <1>2 DEF StoreObservation
  <2>2. /\ pc[w] = "storeObservation" /\ pc[w] \in Busy /\ "commit" \in Busy
        /\ UNCHANGED <<Fixed, inflight, attempts>>
    BY <1>2 DEF StoreObservation, Busy, Reporting
  <2>3. attempts[attempt[w]].offset = at[w]
    BY <1>t, <2>2 DEF Holds, Reporting
  <2> QED BY <2>1, <2>2, <2>3, CallEffect DEF Record
<1>3. CASE SkipTask(w)
  <2>1. /\ pc' = [pc EXCEPT ![w] = "recv"] /\ at' = [at EXCEPT ![w] = 0]
        /\ inflight' = [inflight EXCEPT ![w] = @ \cup {at[w]}] /\ skipped' = skipped \cup {at[w]}
        /\ pc[w] = "lease" /\ UNCHANGED <<tasksTopic, group, attempts, evidence, abandoned>>
    BY <1>3 DEF SkipTask, LetGo, AckOffset
  <2>2. /\ \A i : Handled(i) => Handled(i)'
        /\ \A i : Handled(i)' => Handled(i) \/ i = n
        /\ Handled(n)'
    BY <1>t, <2>1, HandledMore DEF evidence, rows
  <2>3. pc'[w] = "recv" /\ inflight'[w] = inflight[w] \cup {at[w]}
        /\ \A v \in Workers \ {w} : pc'[v] = pc[v] /\ at'[v] = at[v] /\ inflight'[v] = inflight[v]
    BY <1>t, <2>1 DEF TypeOK
  <2> QED BY <2>1, <2>2, <2>3 DEF Effect, group, Busy, Reporting
<1>4. CASE Panic(w)
  <2>1. /\ pc' = [pc EXCEPT ![w] = "down"] /\ at' = [at EXCEPT ![w] = 0]
        /\ inflight' = [inflight EXCEPT ![w] = {}]
        /\ owner' = IF owner = w THEN NoWorker ELSE owner
        /\ pc[w] \in {"pace", "execute"}
        /\ UNCHANGED <<tasksTopic, position, committed, attempts, evidence, history>>
    BY <1>4 DEF Panic, Die, LetGo
  <2>2. \A i : Handled(i)' <=> Handled(i)
    BY <1>t, <2>1, HandledSame DEF evidence, rows, history
  <2>3. pc'[w] = "down" /\ inflight'[w] = {}
        /\ \A v \in Workers \ {w} : pc'[v] = pc[v] /\ at'[v] = at[v] /\ inflight'[v] = inflight[v]
    BY <1>t, <2>1 DEF TypeOK
  <2> QED BY <2>1, <2>2, <2>3 DEF Effect, Busy, Reporting
<1>5. CASE Execute(w)
  <2>1. PICK outcome \in Outcomes :
          /\ attempts' = Append(attempts, [offset |-> at[w], outcome |-> outcome])
          /\ pc' = [pc EXCEPT ![w] = IF outcome = "success" THEN "publishResult"
                                                            ELSE "penalize"]
    BY <1>5 DEF Execute, OutcomesOf, Outcomes
  <2>2. /\ pc[w] = "execute" /\ UNCHANGED <<Fixed, at, abandoned, inflight, evidence>>
    BY <1>5 DEF Execute
  <2>3. \A k \in DOMAIN attempts : attempts'[k] = attempts[k]
    <3>1. [offset |-> at[w], outcome |-> outcome] \in [offset : 1..Len(tasksTopic), outcome : Outcomes]
      BY <1>t, <2>2 DEF TypeOK, Holds, Busy
    <3> QED BY <1>t, <2>1, <3>1, AppendSeq DEF TypeOK
  <2>4. \A i : Handled(i)' <=> Handled(i)
    BY <1>t, <2>2, <2>3, HandledSame DEF evidence, rows, Fixed
  <2>5. pc'[w] \in Busy /\ pc[w] \in Busy /\ \A v \in Workers \ {w} : pc'[v] = pc[v]
    BY <1>t, <2>1, <2>2 DEF TypeOK, Busy, Reporting
  <2> QED BY <2>1, <2>2, <2>4, <2>5 DEF Effect, Fixed, group
<1>6. CASE Commit(w)
  <2>1. /\ pc' = [pc EXCEPT ![w] = "recv"] /\ at' = [at EXCEPT ![w] = 0]
        /\ inflight' = [inflight EXCEPT ![w] = @ \cup {at[w]}]
        /\ pc[w] = "commit" /\ UNCHANGED <<Fixed, abandoned, attempts, evidence>>
    BY <1>6 DEF Commit, LetGo, AckOffset
  <2>2. \A i : Handled(i)' <=> Handled(i)
    BY <1>t, <2>1, HandledSame DEF evidence, rows, Fixed
  <2>3. Handled(at[w])
    BY <1>t, <2>1 DEF Holds, HasReported, Handled
  <2>4. pc'[w] = "recv" /\ inflight'[w] = inflight[w] \cup {at[w]}
        /\ \A v \in Workers \ {w} : pc'[v] = pc[v] /\ at'[v] = at[v] /\ inflight'[v] = inflight[v]
    BY <1>t, <2>1 DEF TypeOK
  <2> QED BY <2>1, <2>2, <2>3, <2>4 DEF Effect, Fixed, group, Busy, Reporting
<1> QED BY <1>1, <1>2, <1>3, <1>4, <1>5, <1>6 DEF HandleMessage

\* What the order of the log asks of a state.
OrderInv == Acked /\ InOrder /\ OwnerDone /\ ExecutedInOrder

\* Nothing that the order depends on changes.
LEMMA QuietStep ==
  ASSUME IInv,
         UNCHANGED <<committed, position, owner, inflight, at, attempts>>,
         UNCHANGED <<skipped, abandoned, observations>>,
         \A v \in Workers : pc'[v] = pc[v] \/ (pc[v] \notin Busy /\ pc'[v] \notin Busy)
  PROVE  OrderInv'
<1>1. \A i : Handled(i)' <=> Handled(i)
  BY HandledSame DEF IInv
<1>2. Acked' /\ ExecutedInOrder'
  BY <1>1 DEF IInv, Acked, ExecutedInOrder, Done
<1>3. InOrder'
  BY <1>1 DEF IInv, InOrder, Done
<1>4. OwnerDone'
  BY <1>1 DEF IInv, TypeOK, OwnerDone, Done
<1> QED BY <1>2, <1>3, <1>4 DEF OrderInv

\* A call of handle_message.
LEMMA CallStep ==
  ASSUME IInv, NEW w \in Workers, NEW n, Effect(w, n)
  PROVE  OrderInv'
<1>t. TypeOK /\ Acked /\ InOrder /\ OwnerDone /\ ExecutedInOrder
  BY DEF IInv
<1>1. n \in 1..Len(tasksTopic) /\ Len(tasksTopic) \in Nat
  BY <1>t DEF Effect, IInv, InHand, Holds, TypeOK
<1>2. \A i \in 1..(n - 1) : Handled(i)
  BY <1>t DEF Effect, InOrder, Done
<1>3. \A i : Handled(i) => Handled(i)'
  BY DEF Effect
<1>4. Acked'
  <2>1. \A i \in 1..committed' : Handled(i)'
    BY <1>t, <1>3 DEF Effect, Acked, Done
  <2>2. ASSUME NEW v \in Workers, NEW m \in inflight'[v], NEW i \in 1..m PROVE Handled(i)'
    <3>1. CASE m \in inflight[v]
      BY <1>t, <1>3, <3>1 DEF Acked, Done
    <3>2. CASE m = n /\ Handled(n)'
      BY <1>1, <1>2, <1>3, <2>2, <3>2
    <3> QED BY <2>2, <3>1, <3>2 DEF Effect
  <2> QED BY <2>1, <2>2 DEF Acked, Done
<1>5. InOrder'
  <2>1. ASSUME NEW v \in Workers, pc'[v] \in Busy PROVE pc[v] \in Busy /\ at'[v] = at[v]
    BY <2>1 DEF Effect
  <2> QED BY <1>t, <1>3, <2>1 DEF InOrder, Done
<1>6. OwnerDone'
  <2> SUFFICES ASSUME owner' # NoWorker
               PROVE  \/ \A i \in 1..position' : Handled(i)'
                      \/ /\ pc'[owner'] \in Busy /\ at'[owner'] = position'
                         /\ \A i \in 1..(position' - 1) : Handled(i)'
    BY DEF OwnerDone, Done
  <2>1. UNCHANGED <<owner, position>>
    BY DEF Effect
  <2>2. CASE Done(position)
    BY <1>3, <2>1, <2>2 DEF Done
  <2>3. CASE pc[owner] \in Busy /\ at[owner] = position /\ Done(position - 1)
    <3>1. CASE pc'[owner] \in Busy /\ at'[owner] = at[owner]
      BY <1>3, <2>1, <2>3, <3>1 DEF Done
    <3>2. CASE owner = w /\ Handled(n)'
      BY <1>1, <1>2, <1>3, <2>1, <2>3, <3>2 DEF Effect
    <3>3. owner \in Workers
      BY <1>t, <2>1 DEF TypeOK
    <3> QED BY <2>1, <2>3, <3>1, <3>2, <3>3 DEF Effect
  <2> QED BY <1>t, <2>1, <2>2, <2>3 DEF OwnerDone
<1>7. ExecutedInOrder'
  <2> SUFFICES ASSUME NEW k \in DOMAIN attempts', NEW i \in 1..(attempts'[k].offset - 1)
               PROVE  Handled(i)'
    BY DEF ExecutedInOrder
  <2>1. CASE k \in DOMAIN attempts /\ attempts'[k] = attempts[k]
    BY <1>t, <1>3, <2>1 DEF ExecutedInOrder
  <2>2. CASE attempts'[k].offset = n
    BY <1>2, <1>3, <2>2
  <2>3. CASE \E outcome \in Outcomes :
               attempts' = Append(attempts, [offset |-> n, outcome |-> outcome])
    <3>1. PICK outcome \in Outcomes :
            attempts' = Append(attempts, [offset |-> n, outcome |-> outcome])
      BY <2>3
    <3>2. [offset |-> n, outcome |-> outcome] \in [offset : 1..Len(tasksTopic), outcome : Outcomes]
      BY <1>1
    <3>3. /\ DOMAIN attempts = 1..Len(attempts) /\ DOMAIN attempts' = 1..(Len(attempts) + 1)
          /\ \A j \in 1..Len(attempts) : attempts'[j] = attempts[j]
          /\ attempts'[Len(attempts) + 1] = [offset |-> n, outcome |-> outcome]
          /\ Len(attempts) \in Nat
      <4>1. attempts \in Seq([offset : 1..Len(tasksTopic), outcome : Outcomes])
        BY <1>t DEF TypeOK
      <4> QED BY <3>1, <3>2, <4>1, AppendSeq
    <3> QED BY <2>1, <2>2, <3>3
  <2> QED BY <2>1, <2>3 DEF Effect
<1> QED BY <1>4, <1>5, <1>6, <1>7 DEF OrderInv

LEMMA OrderStep == IInv /\ [Next]_vars => OrderInv'
<1> SUFFICES ASSUME IInv, [Next]_vars PROVE OrderInv'
  OBVIOUS
<1>t. TypeOK /\ Acked /\ InOrder /\ OwnerDone /\ ExecutedInOrder
  BY DEF IInv
<1>1. CASE Publish \/ LeaseExpires \/ UNCHANGED vars \/ \E w \in Workers : Restart(w)
  <2>1. /\ UNCHANGED <<group, inflight, at, attempts, evidence, history>>
        /\ UNCHANGED pc \/ \E w \in Workers : pc[w] = "down" /\ pc' = [pc EXCEPT ![w] = "recv"]
    BY <1>1 DEF Publish, LeaseExpires, Restart, vars
  <2>2. \A v \in Workers : pc'[v] = pc[v] \/ (pc[v] \notin Busy /\ pc'[v] \notin Busy)
    BY <1>t, <2>1 DEF TypeOK, Busy, Reporting
  <2> QED BY <2>1, <2>2, QuietStep DEF group, evidence, rows, history
<1>2. ASSUME NEW w \in Workers, Assign(w) PROVE OrderInv'
  <2>1. /\ UNCHANGED <<committed, inflight, pc, at, attempts, evidence, history>>
        /\ owner' = w /\ position' = committed
    BY <1>2 DEF Assign, StartOffset
  <2>2. \A i : Handled(i)' <=> Handled(i)
    BY <1>t, <2>1, HandledSame DEF evidence, rows, history
  <2>3. Acked' /\ ExecutedInOrder'
    BY <1>t, <2>1, <2>2 DEF Acked, ExecutedInOrder, Done
  <2>4. InOrder' /\ OwnerDone'
    BY <1>t, <2>1, <2>2 DEF Acked, InOrder, OwnerDone, Done
  <2> QED BY <2>3, <2>4 DEF OrderInv
<1>3. ASSUME NEW w \in Workers, CommitLands(w) PROVE OrderInv'
  <2>1. /\ UNCHANGED <<owner, position, pc, at, attempts, evidence, history>>
        /\ \E i \in inflight[w] : /\ committed' \in {committed, i}
                                 /\ inflight' = [inflight EXCEPT ![w] = @ \ {i}]
    BY <1>3 DEF CommitLands
  <2>2. \A i : Handled(i)' <=> Handled(i)
    BY <1>t, <2>1, HandledSame DEF evidence, rows, history
  <2>3. \A v \in Workers : inflight'[v] \subseteq inflight[v]
    BY <1>t, <2>1 DEF TypeOK
  <2>4. Acked'
    BY <1>t, <2>1, <2>2, <2>3 DEF Acked, Done
  <2>5. InOrder' /\ OwnerDone' /\ ExecutedInOrder'
    BY <1>t, <2>1, <2>2 DEF InOrder, OwnerDone, ExecutedInOrder, Done
  <2> QED BY <2>4, <2>5 DEF OrderInv
<1>4. ASSUME NEW w \in Workers, Crash(w) PROVE OrderInv'
  <2>1. /\ UNCHANGED <<position, committed, attempts, evidence, history>>
        /\ owner' = IF owner = w THEN NoWorker ELSE owner
        /\ pc' = [pc EXCEPT ![w] = "down"] /\ at' = [at EXCEPT ![w] = 0]
        /\ inflight' = [inflight EXCEPT ![w] = {}]
    BY <1>4 DEF Crash, Die, LetGo
  <2>2. \A i : Handled(i)' <=> Handled(i)
    BY <1>t, <2>1, HandledSame DEF evidence, rows, history
  <2>3. /\ \A v \in Workers : inflight'[v] \subseteq inflight[v]
        /\ \A v \in Workers \ {w} : pc'[v] = pc[v] /\ at'[v] = at[v]
        /\ pc'[w] \notin Busy
    BY <1>t, <2>1 DEF TypeOK, Busy, Reporting
  <2>4. Acked' /\ ExecutedInOrder'
    BY <1>t, <2>1, <2>2, <2>3 DEF Acked, ExecutedInOrder, Done
  <2>5. InOrder'
    BY <1>t, <2>2, <2>3 DEF InOrder, Done
  <2>6. OwnerDone'
    BY <1>t, <2>1, <2>2, <2>3 DEF TypeOK, OwnerDone, Done
  <2> QED BY <2>4, <2>5, <2>6 DEF OrderInv
<1>5. ASSUME NEW w \in Workers, Receive(w) PROVE OrderInv'
  <2>1. /\ UNCHANGED <<owner, committed, inflight, attempts, evidence, history>>
        /\ pc[w] = "recv" /\ owner = w /\ position' = position + 1
        /\ pc' = [pc EXCEPT ![w] = "lease"] /\ at' = [at EXCEPT ![w] = position + 1]
    BY <1>5 DEF Receive
  <2>2. \A i : Handled(i)' <=> Handled(i)
    BY <1>t, <2>1, HandledSame DEF evidence, rows, history
  <2>3. /\ \A v \in Workers \ {w} : pc'[v] = pc[v] /\ at'[v] = at[v]
        /\ pc'[w] \in Busy /\ at'[w] = position + 1
    BY <1>t, <2>1 DEF TypeOK, Busy
  <2>4. \A i \in 1..position : Handled(i)
    BY <1>t, <2>1, WorkersAssumption DEF OwnerDone, Done, Busy, Reporting
  <2>5. position \in Nat /\ (position + 1) - 1 = position
    BY <1>t DEF TypeOK
  <2>6. Acked' /\ ExecutedInOrder'
    BY <1>t, <2>1, <2>2 DEF Acked, ExecutedInOrder, Done
  <2>7. InOrder'
    BY <1>t, <2>2, <2>3, <2>4, <2>5 DEF InOrder, Done
  <2>8. OwnerDone'
    BY <2>1, <2>2, <2>3, <2>4, <2>5 DEF OwnerDone, Done
  <2> QED BY <2>6, <2>7, <2>8 DEF OrderInv
<1>6. ASSUME NEW w \in Workers, HandleMessage(w) PROVE OrderInv'
  BY <1>6, StepEffect, CallStep
<1> QED BY <1>1, <1>2, <1>3, <1>4, <1>5, <1>6 DEF Next

-----------------------------------------------------------------------------

\* The invariant is inductive.
LEMMA Inductive == Spec => []IInv
<1>1. IInv /\ [Next]_vars => IInv'
  BY TypeStep, RecordsStep, OrderStep DEF IInv, OrderInv
<1> QED BY InitIInv, <1>1, PTL DEF Spec

\* Every variable of the execution plane keeps its type: no worker ever holds or
\* acknowledges an offset, and no table ever has a row of an attempt, that does
\* not exist.
THEOREM WorkerTypeCorrect == Spec => []TypeOK
<1>1. IInv => TypeOK
  BY DEF IInv
<1> QED BY Inductive, <1>1, PTL

\* The rows and messages of an attempt are never ahead of one another, whichever
\* calls of handle_message fail and whoever makes them.
THEOREM EvidenceIsChained == Spec => []EvidenceChain
<1>1. IInv => EvidenceChain
  BY DEF IInv
<1> QED BY Inductive, <1>1, PTL

\* Discord is asked to act on a message only when all before it are dealt with,
\* across any number of workers, crashes and rebalances.
THEOREM DiscordInOrder == Spec => []ExecutedInOrder
<1>1. IInv => ExecutedInOrder
  BY DEF IInv
<1> QED BY Inductive, <1>1, PTL

-----------------------------------------------------------------------------
(* The worker implements the task log.                                      *)

\* The offsets that have been dealt with.
AllHandled == {i \in 1..Len(tasksTopic) : Handled(i)}

\* Only offsets of the log are handled.
LEMMA HandledRange ==
  ASSUME TypeOK, NEW i, Handled(i)
  PROVE  i \in 1..Len(tasksTopic)
<1>1. \A k \in observations : attempts[k] \in [offset : 1..Len(tasksTopic), outcome : Outcomes]
  <2>1. attempts \in Seq([offset : 1..Len(tasksTopic), outcome : Outcomes])
    BY DEF TypeOK
  <2>2. observations \subseteq DOMAIN attempts
    BY DEF TypeOK
  <2> QED BY <2>1, <2>2, SeqElement
<1>2. \A k \in observations : attempts[k].offset \in 1..Len(tasksTopic)
  BY <1>1
<1> QED BY <1>2 DEF TypeOK, Handled

LEMMA AbstractStep == IInv /\ [Next]_vars => [AbstractLog!Next]_(AbstractLog!vars)
<1> SUFFICES ASSUME IInv, [Next]_vars PROVE [AbstractLog!Next]_(AbstractLog!vars)
  OBVIOUS
<1>t. TypeOK /\ Acked /\ InOrder /\ Len(tasksTopic) \in Nat
  BY DEF IInv, TypeOK
<1>a. ASSUME UNCHANGED <<tasksTopic, committed>>, AllHandled' = AllHandled
      PROVE  [AbstractLog!Next]_(AbstractLog!vars)
  BY <1>a DEF AbstractLog!vars, AllHandled
<1>b. ASSUME UNCHANGED <<tasksTopic, attempts, skipped, abandoned, observations>>
      PROVE  AllHandled' = AllHandled
  BY <1>b, <1>t, HandledSame DEF AllHandled
<1>1. CASE Publish
  <2>1. PICK t \in Task : tasksTopic' = Append(tasksTopic, t)
    BY <1>1 DEF Publish
  <2>2. UNCHANGED <<committed, attempts, skipped, abandoned, observations>>
    BY <1>1 DEF Publish, group, evidence, rows, history
  <2>3. \A i : Handled(i)' <=> Handled(i)
    BY <1>t, <2>2, HandledSame
  <2>4. Len(tasksTopic') = Len(tasksTopic) + 1
    BY <1>t, <2>1, AppendSeq DEF TypeOK
  <2>5. AllHandled' = AllHandled
    BY <1>t, <2>3, <2>4, HandledRange DEF AllHandled
  <2> QED BY <2>1, <2>2, <2>5 DEF AbstractLog!Next, AbstractLog!Publish, AllHandled
<1>2. CASE LeaseExpires \/ UNCHANGED vars
           \/ \E w \in Workers : Assign(w) \/ Crash(w) \/ Restart(w) \/ Receive(w)
  <2>1. UNCHANGED <<tasksTopic, committed, attempts, evidence, history>>
    BY <1>2 DEF LeaseExpires, vars, Assign, Crash, Die, Restart, Receive, group
  <2> QED BY <1>a, <1>b, <2>1 DEF evidence, rows, history
<1>3. ASSUME NEW w \in Workers, CommitLands(w) PROVE [AbstractLog!Next]_(AbstractLog!vars)
  <2>1. /\ UNCHANGED <<tasksTopic, attempts, evidence, history>>
        /\ committed' \in {committed} \cup inflight[w]
    BY <1>3 DEF CommitLands
  <2>2. AllHandled' = AllHandled
    BY <1>b, <2>1 DEF evidence, rows, history
  <2>3. committed' \in 0..Len(tasksTopic)
    BY <1>t, <2>1 DEF TypeOK
  <2>4. 1..committed' \subseteq AllHandled
    BY <1>t, <2>1, <2>3 DEF Acked, Done, AllHandled
  <2> QED BY <2>1, <2>2, <2>3, <2>4 DEF AbstractLog!Next, AbstractLog!Acknowledge, AllHandled
<1>4. ASSUME NEW w \in Workers, HandleMessage(w) PROVE [AbstractLog!Next]_(AbstractLog!vars)
  <2>1. PICK m : m = at[w] /\ Effect(w, m)
    BY <1>4, StepEffect
  <2>2. UNCHANGED <<tasksTopic, committed>> /\ m \in 1..Len(tasksTopic)
    BY <1>t, <2>1 DEF Effect, IInv, InHand, Holds, TypeOK
  <2>3. 1..(m - 1) \subseteq AllHandled
    BY <1>t, <2>1, <2>2 DEF Effect, InOrder, Done, AllHandled
  <2>4. AllHandled' = AllHandled \/ AllHandled' = AllHandled \cup {m}
    BY <2>1, <2>2 DEF Effect, AllHandled
  <2> QED BY <1>a, <2>2, <2>3, <2>4 DEF AbstractLog!Next, AbstractLog!Handle, AllHandled
<1> QED BY <1>1, <1>2, <1>3, <1>4 DEF Next

\* The workers as a group keep the promise of the task log: an offset of
\* platform.tasks is acknowledged only when it and all before it have been
\* recorded, refused or given up, and they are dealt with in their order.
THEOREM WorkerImplementsTaskLog == Spec => ImplementsTaskLog
<1>1. Init => AbstractLog!Init
  BY DEF Init, AbstractLog!Init
<1>2. IInv /\ [Next]_vars => [AbstractLog!Next]_(AbstractLog!vars)
  BY AbstractStep
<1> QED BY <1>1, <1>2, Inductive, PTL DEF Spec, ImplementsTaskLog, AbstractLog!Spec

=============================================================================
