--------------------------- MODULE ReleaseCountProofs ---------------------------
(***************************************************************************)
(* How often a release puts a task on platform.tasks, for every number of  *)
(* handlers, commands and targets: each message is counted against one of  *)
(* the times it was sent, by a request that is done with its task.         *)
(***************************************************************************)
EXTENDS CommandReleaseProofs

Past == {"publishTasks", "setStatus", "done", "dropped"}

\* The requests that release the command of task t and have no more to do with t.
Passed(t) ==
  {h \in Releases(CommandOf(t)) :
     pc[h] \in Past /\ (pc[h] = "publishTasks" => t \notin Range(todo[h]))}

Spent == {p \in Handlers \X Task : p[1] \in Passed(p[2])}

\* Of the times such a message was sent, those that no longer travel.
Landed == {x \in Spent \X (1..MaxSends) : x[2] > wire[x[1]]}
LandedOf(t) == {x \in Landed : x[1][2] = t}

\* The requests served so far: finitely many, of whatever number there may be.
Started == {h \in Handlers : pc[h] # "idle"}

\* Only a request that may release its command gets as far as publishing.
Releaser(h) ==
  /\ pc[h] = "load" => op[h] \in {"approve", "release", "replay"}
  /\ pc[h] \in Releasing =>
       op[h] \in {"create", "approve", "release", "replay"} /\ h \in Releases(cmd[h])

Once(list) == \A i, j \in 1..Len(list) : list[i] = list[j] => i = j

CountInv ==
  /\ IsFiniteSet(Started)
  /\ \A h \in Handlers : Releaser(h) /\ Once(todo[h])
  /\ \A p \in Handlers \X Task : wire[p] > 0 => p \in Spent
  /\ \A t \in Task : Copies(t) <= Cardinality(LandedOf(t))
  /\ Len(tasksTopic) <= Cardinality(Landed)

-----------------------------------------------------------------------------
(* Lists without repetition, and the size of sets of pairs.                 *)

LEMMA TailOnce ==
  ASSUME NEW S, NEW s \in Seq(S), s # <<>>, Once(s)
  PROVE  Once(Tail(s)) /\ Head(s) \notin Range(Tail(s))
<1>1. /\ Len(s) \in Nat /\ Len(s) # 0 /\ Head(s) = s[1]
      /\ Tail(s) \in Seq(S) /\ Len(Tail(s)) = Len(s) - 1
      /\ \A i \in 1..(Len(s) - 1) : Tail(s)[i] = s[i + 1]
  BY HeadTailProperties
<1>2. \A i \in 1..(Len(s) - 1) : i + 1 \in 1..Len(s) /\ i + 1 # 1 /\ 1 \in 1..Len(s)
  BY <1>1
<1>3. \A i \in 1..(Len(s) - 1) : s[i + 1] # s[1]
  BY <1>2 DEF Once
<1>4. ASSUME NEW i \in 1..(Len(s) - 1), NEW j \in 1..(Len(s) - 1), Tail(s)[i] = Tail(s)[j]
      PROVE  i = j
  <2>1. i + 1 = j + 1
    BY <1>1, <1>2, <1>4 DEF Once
  <2> QED BY <1>1, <2>1
<1>5. DOMAIN Tail(s) = 1..(Len(s) - 1)
  BY <1>1
<1> QED BY <1>1, <1>3, <1>4, <1>5 DEF Once, Range

LEMMA PlanOnce ==
  ASSUME NEW c \in Commands, NEW targets \in TargetLists
  PROVE  Once(PlanTasks(c, targets))
<1>1. Len(targets) \in Nat
  BY PlanRange, MaxTargetsAssumption
<1>2. PlanTasks(c, targets) = [i \in 1..Len(targets) |-> <<c, i>>]
  BY DEF PlanTasks
<1>3. Len(PlanTasks(c, targets)) = Len(targets)
  BY <1>1, <1>2
<1> QED BY <1>2, <1>3 DEF Once

LEMMA OrderOnce ==
  ASSUME NEW c \in Commands, NEW list \in RowOrders(c)
  PROVE  Once(list)
<1>1. list \in Seq(Task)
  BY OrderRange
<1>2. DOMAIN list = 1..Cardinality(TaskRows(tasks, c))
      /\ \A i, j \in 1..Cardinality(TaskRows(tasks, c)) : list[i] = list[j] => i = j
  BY DEF RowOrders, Bijection, Injection, IsInjective
<1>3. DOMAIN list = 1..Len(list)
  BY <1>1
<1> QED BY <1>2, <1>3 DEF Once

\* Requests that each have one command meet no more than MaxTargets tasks each.
LEMMA PairsBounded ==
  ASSUME NEW H, IsFiniteSet(H), NEW S, NEW f,
         \A p \in S : /\ p = <<p[1], p[2]>> /\ p[1] \in H /\ p[2] \in Task
                      /\ CommandOf(p[2]) = f[p[1]]
  PROVE  /\ IsFiniteSet(S) /\ Cardinality(S) \in Nat /\ Cardinality(H) \in Nat
         /\ Cardinality(S) <= Cardinality(H) * MaxTargets
<1> DEFINE place == [p \in S |-> <<p[1], p[2][2]>>]
           Grid == H \X (1..MaxTargets)
<1>1. \A t \in Task : t = <<t[1], t[2]>> /\ t[2] \in 1..MaxTargets
  BY DEF Task
<1>2. place \in [S -> Grid]
  BY <1>1
<1>3. ASSUME NEW p \in S, NEW q \in S, place[p] = place[q] PROVE p = q
  <2>1. p[1] = q[1] /\ p[2][2] = q[2][2]
    BY <1>3
  <2>2. p[2][1] = q[2][1]
    BY <2>1 DEF CommandOf
  <2>3. p[2] = q[2]
    BY <1>1, <2>1, <2>2
  <2> QED BY <2>1, <2>3
<1>4. IsInjective(place) /\ place \in Injection(S, Grid)
  BY <1>2, <1>3 DEF IsInjective, Injection
<1>5. IsFiniteSet(1..MaxTargets) /\ Cardinality(1..MaxTargets) = MaxTargets
  BY FS_Interval, MaxTargetsAssumption
<1>6. IsFiniteSet(Grid) /\ Cardinality(Grid) = Cardinality(H) * MaxTargets
  BY <1>5, FS_Product
<1>7. IsFiniteSet(S) /\ Cardinality(S) <= Cardinality(Grid)
  BY <1>4, <1>6, FS_Injection
<1> QED BY <1>6, <1>7, FS_CardinalityType

-----------------------------------------------------------------------------
(* The counts, before a step and after it.                                  *)

LEMMA SpentBounded ==
  ASSUME NEW H, IsFiniteSet(H), Started \subseteq H
  PROVE  /\ IsFiniteSet(Spent) /\ Cardinality(Spent) \in Nat
         /\ Cardinality(H) \in Nat /\ Cardinality(Spent) <= Cardinality(H) * MaxTargets
<1>1. \A p \in Spent : /\ p = <<p[1], p[2]>> /\ p[1] \in H /\ p[2] \in Task
                       /\ CommandOf(p[2]) = cmd[p[1]]
  BY DEF Spent, Passed, Releases, Started, Past
<1> QED BY <1>1, PairsBounded

LEMMA SpentFiniteNext ==
  ASSUME IsFiniteSet(Started')
  PROVE  IsFiniteSet(Spent') /\ Cardinality(Spent') \in Nat
<1>1. \A p \in Spent' : /\ p = <<p[1], p[2]>> /\ p[1] \in Started' /\ p[2] \in Task
                        /\ CommandOf(p[2]) = cmd'[p[1]]
  BY DEF Spent, Passed, Releases, Started, Past
<1> QED BY <1>1, PairsBounded

LEMMA LandedBounded ==
  ASSUME IsFiniteSet(Spent)
  PROVE  /\ IsFiniteSet(Landed) /\ Cardinality(Landed) \in Nat /\ Cardinality(Spent) \in Nat
         /\ Cardinality(Landed) <= Cardinality(Spent) * MaxSends
<1>1. IsFiniteSet(1..MaxSends) /\ Cardinality(1..MaxSends) = MaxSends
  BY FS_Interval, MaxSendsAssumption
<1>2. /\ IsFiniteSet(Spent \X (1..MaxSends))
      /\ Cardinality(Spent \X (1..MaxSends)) = Cardinality(Spent) * MaxSends
  BY <1>1, FS_Product
<1>3. Landed \subseteq Spent \X (1..MaxSends)
  BY DEF Landed
<1> QED BY <1>2, <1>3, FS_Subset, FS_CardinalityType

LEMMA LandedFiniteNext ==
  ASSUME IsFiniteSet(Started')
  PROVE  /\ IsFiniteSet(Landed') /\ Cardinality(Landed') \in Nat
         /\ \A t : IsFiniteSet(LandedOf(t)') /\ Cardinality(LandedOf(t)') \in Nat
<1>1. IsFiniteSet(Spent')
  BY SpentFiniteNext
<1>2. IsFiniteSet(1..MaxSends)
  BY FS_Interval, MaxSendsAssumption
<1>3. IsFiniteSet(Spent' \X (1..MaxSends))
  BY <1>1, <1>2, FS_Product
<1>4. Landed' \subseteq Spent' \X (1..MaxSends)
  BY DEF Landed
<1>5. IsFiniteSet(Landed')
  BY <1>3, <1>4, FS_Subset
<1>6. \A t : LandedOf(t)' \subseteq Landed'
  BY DEF LandedOf
<1> QED BY <1>5, <1>6, FS_Subset, FS_CardinalityType

\* One handler more is at work, at most.
LEMMA StartedNext ==
  ASSUME IsFiniteSet(Started), NEW h, Started' \subseteq Started \cup {h}
  PROVE  IsFiniteSet(Started')
  BY FS_AddElement, FS_Subset

\* A place is added to the places of its task and to no others.
LEMMA CopiesNext ==
  ASSUME tasksTopic \in Seq(Task), NEW u \in Task, tasksTopic' = Append(tasksTopic, u),
         NEW t \in Task
  PROVE  /\ Copies(t) \in Nat
         /\ Copies(t)' = IF t = u THEN Copies(t) + 1 ELSE Copies(t)
<1> DEFINE places == {i \in DOMAIN tasksTopic : tasksTopic[i] = t}
           n == Len(tasksTopic) + 1
<1>1. /\ DOMAIN tasksTopic = 1..Len(tasksTopic) /\ Len(tasksTopic) \in Nat
      /\ DOMAIN tasksTopic' = 1..n /\ tasksTopic'[n] = u
      /\ \A i \in DOMAIN tasksTopic : tasksTopic'[i] = tasksTopic[i]
  OBVIOUS
<1>2. 1..n = DOMAIN tasksTopic \cup {n} /\ n \notin DOMAIN tasksTopic
  BY <1>1
<1>3. IsFiniteSet(places)
  <2>1. IsFiniteSet(DOMAIN tasksTopic)
    BY <1>1, FS_Interval
  <2> QED BY <2>1, FS_Subset
<1>4. {i \in DOMAIN tasksTopic' : tasksTopic'[i] = t}
        = IF t = u THEN places \cup {n} ELSE places
  BY <1>1, <1>2
<1>5. Cardinality(places \cup {n}) = Cardinality(places) + 1 /\ Cardinality(places) \in Nat
  BY <1>2, <1>3, FS_AddElement, FS_CardinalityType
<1> QED BY <1>4, <1>5 DEF Copies

\* No message is counted away, and one that arrives is counted for the first time.
LEMMA CountsFollow ==
  ASSUME IInv, CountInv, IsFiniteSet(Started'),
         wire' \in [Handlers \X Task -> 0..MaxSends],
         Spent \subseteq Spent', \A p \in Spent : wire'[p] <= wire[p],
         \/ UNCHANGED tasksTopic
         \/ \E u \in Task, p \in Spent', k \in 1..MaxSends :
              /\ tasksTopic' = Append(tasksTopic, u) /\ p[2] = u
              /\ k > wire'[p] /\ (p \in Spent => k <= wire[p])
  PROVE  /\ \A t \in Task : Copies(t)' <= Cardinality(LandedOf(t)')
         /\ Len(tasksTopic)' <= Cardinality(Landed')
<1>t. /\ wire \in [Handlers \X Task -> 0..MaxSends] /\ tasksTopic \in Seq(Task)
      /\ MaxSends \in Nat
  BY MaxSendsAssumption DEF IInv, TypeOK
<1>1. Landed \subseteq Landed'
  <2> SUFFICES ASSUME NEW x \in Landed PROVE x \in Landed'
    OBVIOUS
  <2>1. x = <<x[1], x[2]>> /\ x[1] \in Spent /\ x[2] \in 1..MaxSends /\ x[2] > wire[x[1]]
    BY DEF Landed
  <2>2. x[1] \in Handlers \X Task
    BY <2>1 DEF Spent
  <2>3. wire[x[1]] \in 0..MaxSends /\ wire'[x[1]] \in 0..MaxSends /\ wire'[x[1]] <= wire[x[1]]
    BY <1>t, <2>1, <2>2
  <2>4. x[2] > wire'[x[1]]
    BY <1>t, <2>1, <2>3
  <2> QED BY <2>1, <2>4 DEF Landed
<1>2. /\ IsFiniteSet(Landed') /\ Cardinality(Landed') \in Nat
      /\ \A t : IsFiniteSet(LandedOf(t)') /\ Cardinality(LandedOf(t)') \in Nat
  BY LandedFiniteNext
<1>3. \A t : LandedOf(t) \subseteq LandedOf(t)'
  BY <1>1 DEF LandedOf
<1>4. /\ IsFiniteSet(Landed) /\ Cardinality(Landed) \in Nat
      /\ Cardinality(Landed) <= Cardinality(Landed')
  BY <1>1, <1>2, FS_Subset, FS_CardinalityType
<1>5. \A t : /\ IsFiniteSet(LandedOf(t)) /\ Cardinality(LandedOf(t)) \in Nat
             /\ Cardinality(LandedOf(t)) <= Cardinality(LandedOf(t)')
  BY <1>2, <1>3, FS_Subset, FS_CardinalityType
<1>6. CASE UNCHANGED tasksTopic
  <2>1. ASSUME NEW t \in Task PROVE Copies(t)' <= Cardinality(LandedOf(t)')
    <3>1. Copies(t)' = Copies(t)
      BY <1>6 DEF Copies
    <3>2. Copies(t) \in Nat
      <4>1. IsFiniteSet(DOMAIN tasksTopic)
        BY <1>t, FS_Interval
      <4> QED BY <4>1, FS_Subset, FS_CardinalityType DEF Copies
    <3>3. Copies(t) <= Cardinality(LandedOf(t))
      BY DEF CountInv
    <3> QED BY <1>2, <1>5, <3>1, <3>2, <3>3
  <2>2. Len(tasksTopic)' = Len(tasksTopic) /\ Len(tasksTopic) \in Nat
    BY <1>t, <1>6
  <2> QED BY <1>2, <1>4, <2>1, <2>2 DEF CountInv
<1>7. ASSUME NEW u \in Task, NEW p \in Spent', NEW k \in 1..MaxSends,
             tasksTopic' = Append(tasksTopic, u), p[2] = u,
             k > wire'[p], p \in Spent => k <= wire[p]
      PROVE  /\ \A t \in Task : Copies(t)' <= Cardinality(LandedOf(t)')
             /\ Len(tasksTopic)' <= Cardinality(Landed')
  <2>1. <<p, k>> \in Landed'
    BY <1>7 DEF Landed
  <2>2. <<p, k>> \notin Landed
    <3>1. ASSUME p \in Spent PROVE ~(k > wire[p])
      <4>1. p \in Handlers \X Task
        BY <3>1 DEF Spent
      <4> QED BY <1>t, <1>7, <3>1, <4>1
    <3> QED BY <3>1 DEF Landed
  <2>3. ASSUME NEW t \in Task PROVE Copies(t)' <= Cardinality(LandedOf(t)')
    <3>1. /\ Copies(t) \in Nat /\ Copies(t) <= Cardinality(LandedOf(t))
          /\ Copies(t)' = IF t = u THEN Copies(t) + 1 ELSE Copies(t)
      BY <1>t, <1>7, CopiesNext DEF CountInv
    <3>2. CASE t = u
      <4>1. <<p, k>> \notin LandedOf(t) /\ LandedOf(t) \cup {<<p, k>>} \subseteq LandedOf(t)'
        BY <1>3, <1>7, <2>1, <2>2, <3>2 DEF LandedOf
      <4>2. Cardinality(LandedOf(t) \cup {<<p, k>>}) = Cardinality(LandedOf(t)) + 1
        BY <1>5, <4>1, FS_AddElement
      <4>3. Cardinality(LandedOf(t) \cup {<<p, k>>}) <= Cardinality(LandedOf(t)')
        BY <1>2, <4>1, FS_Subset
      <4> QED BY <1>2, <1>5, <3>1, <3>2, <4>2, <4>3
    <3>3. CASE t # u
      BY <1>2, <1>5, <3>1, <3>3
    <3> QED BY <3>2, <3>3
  <2>4. Cardinality(Landed \cup {<<p, k>>}) = Cardinality(Landed) + 1
    BY <1>4, <2>2, FS_AddElement
  <2>5. Cardinality(Landed \cup {<<p, k>>}) <= Cardinality(Landed')
    <3>1. Landed \cup {<<p, k>>} \subseteq Landed'
      BY <1>1, <2>1
    <3> QED BY <1>2, <3>1, FS_Subset
  <2>6. Len(tasksTopic)' = Len(tasksTopic) + 1 /\ Len(tasksTopic) \in Nat
    BY <1>t, <1>7
  <2>7. Len(tasksTopic) <= Cardinality(Landed)
    BY DEF CountInv
  <2>8. Len(tasksTopic)' <= Cardinality(Landed')
    BY <1>2, <1>4, <2>4, <2>5, <2>6, <2>7
  <2> QED BY <2>3, <2>8
<1> QED BY <1>6, <1>7

\* What any step of a handler comes to: what has been passed stays so, and a task
\* is sent only by a request that is thereby done with it.
LEMMA CountStep ==
  ASSUME IInv, CountInv, NEW h \in Handlers,
         pc' = [pc EXCEPT ![h] = pc'[h]], op' = [op EXCEPT ![h] = op'[h]],
         cmd' = [cmd EXCEPT ![h] = cmd'[h]], todo' = [todo EXCEPT ![h] = todo'[h]],
         pc[h] = "idle" \/ UNCHANGED <<op, cmd>>,
         \A c \in Commands : envelope[c] # NoEnvelope => envelope'[c] = envelope[c],
         pc[h] \in Past =>
           pc'[h] \in Past /\ (pc'[h] = "publishTasks" =>
             pc[h] = "publishTasks" /\ Range(todo'[h]) \subseteq Range(todo[h])),
         Releaser(h)', Once(todo'[h]),
         \/ UNCHANGED <<tasksTopic, wire>>
         \/ \E u \in Task, n \in 0..MaxSends :
              /\ Sent(h, u, n) /\ h \notin Passed(u) /\ h \in Passed(u)'
              /\ \/ UNCHANGED tasksTopic
                 \/ tasksTopic' = Append(tasksTopic, u) /\ n < MaxSends
  PROVE  CountInv'
<1>t. /\ pc \in [Handlers -> Labels] /\ op \in [Handlers -> Ops \cup {"none"}]
      /\ cmd \in [Handlers -> Commands \cup {NoCommand}]
      /\ todo \in [Handlers -> Seq(Task)]
      /\ wire \in [Handlers \X Task -> 0..MaxSends]
      /\ \A g \in Handlers : pc[g] # "idle" => cmd[g] \in Commands /\ envelope[cmd[g]] # NoEnvelope
  BY DEF IInv, TypeOK, Minted
<1>1. \A g \in Handlers : g # h => /\ pc'[g] = pc[g] /\ op'[g] = op[g]
                                   /\ cmd'[g] = cmd[g] /\ todo'[g] = todo[g]
  BY <1>t
<1>2. IsFiniteSet(Started')
  <2>1. Started' \subseteq Started \cup {h}
    BY <1>1 DEF Started
  <2> QED BY <2>1, StartedNext DEF CountInv
<1>3. ASSUME NEW g \in Handlers, NEW c, g \in Releases(c), pc[g] # "idle"
      PROVE  g \in Releases(c)'
  <2>1. cmd[g] = c /\ c \in Commands /\ envelope'[c] = envelope[c]
    BY <1>t, <1>3 DEF Releases
  <2>2. cmd'[g] = cmd[g] /\ op'[g] = op[g]
    BY <1>1, <1>3
  <2> QED BY <1>3, <2>1, <2>2 DEF Releases
<1>4. ASSUME NEW g \in Handlers PROVE Releaser(g)' /\ Once(todo'[g])
  <2>1. CASE g = h
    BY <2>1
  <2>2. CASE g # h
    <3>1. Releaser(g) /\ Once(todo[g])
      BY DEF CountInv
    <3>2. pc[g] \in Releasing => pc[g] # "idle"
      BY DEF Releasing
    <3> QED BY <1>1, <1>3, <2>2, <3>1, <3>2 DEF Releaser
  <2> QED BY <2>1, <2>2
<1>5. ASSUME NEW t \in Task PROVE Passed(t) \subseteq Passed(t)'
  <2> SUFFICES ASSUME NEW g \in Passed(t) PROVE g \in Passed(t)'
    OBVIOUS
  <2>1. /\ g \in Handlers /\ g \in Releases(CommandOf(t)) /\ pc[g] \in Past
        /\ pc[g] = "publishTasks" => t \notin Range(todo[g])
    BY DEF Passed, Releases
  <2>2. g \in Releases(CommandOf(t))'
    BY <1>3, <2>1 DEF Past
  <2>3. pc'[g] \in Past /\ (pc'[g] = "publishTasks" => t \notin Range(todo'[g]))
    BY <1>1, <2>1
  <2> QED BY <2>2, <2>3 DEF Passed
<1>6. Spent \subseteq Spent'
  BY <1>5 DEF Spent
<1>7. CASE UNCHANGED <<tasksTopic, wire>>
  <2>1. \A p \in Spent : p \in Handlers \X Task
    BY DEF Spent
  <2>2. /\ wire' \in [Handlers \X Task -> 0..MaxSends]
        /\ \A p \in Spent : wire'[p] <= wire[p]
        /\ \A p \in Handlers \X Task : wire'[p] > 0 => p \in Spent'
    BY <1>t, <1>6, <1>7, <2>1 DEF CountInv
  <2>3. /\ \A t \in Task : Copies(t)' <= Cardinality(LandedOf(t)')
        /\ Len(tasksTopic)' <= Cardinality(Landed')
    BY <1>2, <1>6, <1>7, <2>2, CountsFollow
  <2> QED BY <1>2, <1>4, <2>2, <2>3 DEF CountInv
<1>8. ASSUME NEW u \in Task, NEW n \in 0..MaxSends, Sent(h, u, n),
             h \notin Passed(u), h \in Passed(u)',
             UNCHANGED tasksTopic \/ (tasksTopic' = Append(tasksTopic, u) /\ n < MaxSends)
      PROVE  CountInv'
  <2>p. PICK p : p = <<h, u>> /\ p \in Handlers \X Task /\ p[2] = u
    <3>1. <<h, u>> \in Handlers \X Task /\ <<h, u>>[2] = u
      OBVIOUS
    <3> QED BY <3>1
  <2>1. /\ wire' \in [Handlers \X Task -> 0..MaxSends] /\ wire'[p] = n
        /\ \A q \in Handlers \X Task : q # p => wire'[q] = wire[q]
    BY <1>t, <1>8, <2>p, WireNext DEF Sent
  <2>2. p \notin Spent /\ p \in Spent'
    BY <1>8, <2>p DEF Spent
  <2>3. \A q \in Spent : q # p /\ q \in Handlers \X Task
    BY <2>2 DEF Spent
  <2>4. \A q \in Spent : wire'[q] <= wire[q]
    BY <1>t, <2>1, <2>3
  <2>5. \A q \in Handlers \X Task : wire'[q] > 0 => q \in Spent'
    BY <1>6, <2>1, <2>2 DEF CountInv
  <2>6. n < MaxSends => MaxSends \in 1..MaxSends /\ MaxSends > wire'[p]
    BY <2>1, MaxSendsAssumption
  <2>7. /\ \A t \in Task : Copies(t)' <= Cardinality(LandedOf(t)')
        /\ Len(tasksTopic)' <= Cardinality(Landed')
    BY <1>2, <1>6, <1>8, <2>p, <2>1, <2>2, <2>4, <2>6, CountsFollow
  <2> QED BY <1>2, <1>4, <2>5, <2>7 DEF CountInv
<1> QED BY <1>7, <1>8

LEMMA LandCountStep ==
  ASSUME IInv, CountInv, Land
  PROVE  CountInv'
<1>t. wire \in [Handlers \X Task -> 0..MaxSends] /\ MaxSends \in Nat
  BY MaxSendsAssumption DEF IInv, TypeOK
<1>1. PICK p \in Handlers \X Task :
        /\ wire[p] > 0 /\ wire' = [wire EXCEPT ![p] = wire[p] - 1]
        /\ tasksTopic' = Append(tasksTopic, p[2])
  BY DEF Land
<1>2. UNCHANGED <<envelope, op, cmd, pc, todo>>
  BY DEF Land, request
<1>3. Started' = Started /\ Spent' = Spent
      /\ \A h \in Handlers : Releaser(h)' /\ Once(todo'[h])
  BY <1>2 DEF Started, Spent, Passed, Releases, Releaser, CountInv
<1>4. p \in Spent /\ p[2] \in Task
  BY <1>1 DEF CountInv
<1>5. /\ wire' \in [Handlers \X Task -> 0..MaxSends] /\ wire'[p] = wire[p] - 1
      /\ \A q \in Handlers \X Task : q # p => wire'[q] = wire[q]
  BY <1>t, <1>1, WireNext
<1>6. wire[p] \in 1..MaxSends /\ wire[p] > wire'[p]
  BY <1>t, <1>1, <1>5
<1>7. \A q \in Handlers \X Task : wire'[q] <= wire[q] /\ (wire'[q] > 0 => wire[q] > 0)
  BY <1>t, <1>1, <1>5
<1>8. \A q \in Spent : wire'[q] <= wire[q]
  BY <1>7 DEF Spent
<1>9. \A q \in Handlers \X Task : wire'[q] > 0 => q \in Spent'
  BY <1>3, <1>7 DEF CountInv
<1>10. IsFiniteSet(Started')
  BY <1>3 DEF CountInv
<1>11. /\ \A t \in Task : Copies(t)' <= Cardinality(LandedOf(t)')
       /\ Len(tasksTopic)' <= Cardinality(Landed')
  <2>1. \E u \in Task, q \in Spent', k \in 1..MaxSends :
          /\ tasksTopic' = Append(tasksTopic, u) /\ q[2] = u
          /\ k > wire'[q] /\ (q \in Spent => k <= wire[q])
    BY <1>1, <1>3, <1>4, <1>6
  <2> QED BY <1>3, <1>5, <1>8, <1>10, <2>1, CountsFollow
<1> QED BY <1>3, <1>9, <1>10, <1>11 DEF CountInv

-----------------------------------------------------------------------------
(* The steps of a handler.                                                  *)

LEMMA InitCountInv == Init => CountInv
<1> SUFFICES ASSUME Init PROVE CountInv
  OBVIOUS
<1>1. Started = {} /\ Cardinality({}) = 0 /\ IsFiniteSet({})
  BY FS_EmptySet DEF Init, Started
<1>2. \A h \in Handlers : Releaser(h) /\ Once(todo[h])
  BY DEF Init, Releaser, Releasing, Once
<1>3. \A t \in Task : Copies(t) = 0 /\ Passed(t) = {}
  BY <1>1 DEF Init, Copies, Passed, Past, Releases
<1>4. Spent = {} /\ Len(tasksTopic) = 0
  BY <1>3 DEF Init, Spent
<1>5. Landed = {} /\ \A t \in Task : LandedOf(t) = {}
  BY <1>4 DEF Landed, LandedOf
<1>6. \A t \in Task : Copies(t) <= Cardinality(LandedOf(t))
  BY <1>1, <1>3, <1>5
<1>7. Len(tasksTopic) <= Cardinality(Landed)
  BY <1>1, <1>4, <1>5
<1>8. \A p \in Handlers \X Task : ~(wire[p] > 0)
  <2>1. \A p \in Handlers \X Task : wire[p] = 0
    BY DEF Init
  <2> QED BY <2>1
<1>9. IsFiniteSet(Started)
  BY <1>1
<1> QED BY <1>2, <1>6, <1>7, <1>8, <1>9 DEF CountInv

\* A request at work goes on to l and publishes nothing.
LEMMA QuietStep ==
  ASSUME IInv, CountInv, NEW h \in Handlers,
         pc[h] # "idle", NEW l, pc' = [pc EXCEPT ![h] = l],
         UNCHANGED <<envelope, request, tasksTopic, wire>>,
         todo' = [todo EXCEPT ![h] = todo'[h]], Once(todo'[h]),
         pc[h] \in Past => l \in Past \ {"publishTasks"},
         l \in Releasing =>
           op[h] \in {"create", "approve", "release", "replay"} /\ h \in Releases(cmd[h]),
         l = "load" => op[h] = "approve"
  PROVE  CountInv'
<1>t. /\ pc \in [Handlers -> Labels] /\ op \in [Handlers -> Ops \cup {"none"}]
      /\ cmd \in [Handlers -> Commands \cup {NoCommand}]
  BY DEF IInv, TypeOK
<1>1. pc' = [pc EXCEPT ![h] = pc'[h]] /\ pc'[h] = l /\ op' = op /\ cmd' = cmd
      /\ op' = [op EXCEPT ![h] = op'[h]] /\ cmd' = [cmd EXCEPT ![h] = cmd'[h]]
  BY <1>t DEF request
<1>2. Releases(cmd[h])' = Releases(cmd[h])
  BY <1>1 DEF Releases
<1>3. Releaser(h)'
  BY <1>1, <1>2 DEF Releaser, Releases
<1> QED BY <1>1, <1>3, CountStep DEF request

LEMMA CountSteps ==
  ASSUME IInv, CountInv, [Next]_vars
  PROVE  CountInv'
<1> USE DEF tables, topics, Goto
<1>t. /\ pc \in [Handlers -> Labels] /\ op \in [Handlers -> Ops \cup {"none"}]
      /\ cmd \in [Handlers -> Commands \cup {NoCommand}]
      /\ todo \in [Handlers -> Seq(Task)] /\ tasksTopic \in Seq(Task)
      /\ envelope \in [Commands -> Envelope \cup {NoEnvelope}]
      /\ \A h \in Handlers : /\ pc[h] = "idle" => cmd[h] = NoCommand
                             /\ pc[h] # "idle" => cmd[h] \in Commands
                                                  /\ envelope[cmd[h]] \in Envelope
  BY DEF IInv, TypeOK, Minted
<1>o. \A h \in Handlers : Releaser(h) /\ Once(todo[h])
  BY DEF CountInv
<1>e. Once(<<>>)
  BY DEF Once
<1>s. \A h \in Handlers : todo' = todo => todo' = [todo EXCEPT ![h] = todo'[h]] /\ Once(todo'[h])
  BY <1>t, <1>o
<1>1. ASSUME NEW h \in Handlers, Create(h) PROVE CountInv'
  <2>1. PICK c \in Commands, e \in Envelope :
          /\ envelope[c] = NoEnvelope /\ envelope' = [envelope EXCEPT ![c] = e]
          /\ cmd' = [cmd EXCEPT ![h] = c]
          /\ todo' = [todo EXCEPT ![h] = PlanTasks(c, e.targets)]
    BY <1>1 DEF Create
  <2>2. /\ pc[h] = "idle" /\ pc' = [pc EXCEPT ![h] = "recordCommand"]
        /\ op' = [op EXCEPT ![h] = "create"] /\ UNCHANGED <<tasksTopic, wire>>
    BY <1>1 DEF Create
  <2>3. Once(PlanTasks(c, e.targets))
    BY PlanOnce DEF Envelope
  <2>4. /\ pc' = [pc EXCEPT ![h] = pc'[h]] /\ op' = [op EXCEPT ![h] = op'[h]]
        /\ cmd' = [cmd EXCEPT ![h] = cmd'[h]] /\ todo' = [todo EXCEPT ![h] = todo'[h]]
        /\ todo'[h] = PlanTasks(c, e.targets) /\ pc'[h] = "recordCommand"
        /\ \A d \in Commands : envelope[d] # NoEnvelope => envelope'[d] = envelope[d]
    BY <1>t, <2>1, <2>2
  <2>5. Releaser(h)' /\ pc[h] \notin Past
    BY <2>2, <2>4 DEF Releaser, Releasing, Past
  <2> QED BY <2>2, <2>3, <2>4, <2>5, CountStep
<1>2. ASSUME NEW h \in Handlers, Serve(h) PROVE CountInv'
  <2>1. PICK o \in Ops \ (PublishOps \cup {"create"}), c \in Commands :
          /\ op' = [op EXCEPT ![h] = o] /\ cmd' = [cmd EXCEPT ![h] = c]
          /\ pc' = [pc EXCEPT ![h] = FirstLabel(o)]
    BY <1>2 DEF Serve
  <2>2. FirstLabel(o) = "getApproval" \/ (FirstLabel(o) = "load" /\ o \in {"release", "replay"})
    BY DEF FirstLabel, ReleaseOps
  <2>3. pc[h] = "idle" /\ UNCHANGED <<envelope, tasksTopic, wire, todo>>
    BY <1>2 DEF Serve
  <2>4. /\ pc' = [pc EXCEPT ![h] = pc'[h]] /\ op' = [op EXCEPT ![h] = op'[h]]
        /\ cmd' = [cmd EXCEPT ![h] = cmd'[h]] /\ pc'[h] = FirstLabel(o) /\ op'[h] = o
    BY <1>t, <2>1
  <2>5. Releaser(h)' /\ pc[h] \notin Past
    BY <2>2, <2>3, <2>4 DEF Releaser, Releasing, Past
  <2> QED BY <1>s, <2>3, <2>4, <2>5, CountStep
<1>3. ASSUME NEW h \in Handlers, PublishRaw(h) PROVE CountInv'
  <2>1. PICK c \in Commands :
          /\ envelope[c] # NoEnvelope /\ cmd' = [cmd EXCEPT ![h] = c]
          /\ \/ op' = [op EXCEPT ![h] = "publishCommand"] /\ UNCHANGED wire
             \/ /\ op' = [op EXCEPT ![h] = "publishTask"]
                /\ \E i \in DOMAIN envelope[c].targets : Sent(h, <<c, i>>, MaxSends)
    BY <1>3 DEF PublishRaw
  <2>2. /\ pc[h] = "idle" /\ pc' = [pc EXCEPT ![h] = "done"]
        /\ UNCHANGED <<envelope, tasksTopic, todo>>
    BY <1>3 DEF PublishRaw
  <2>3. /\ pc' = [pc EXCEPT ![h] = pc'[h]] /\ op' = [op EXCEPT ![h] = op'[h]]
        /\ cmd' = [cmd EXCEPT ![h] = cmd'[h]] /\ pc'[h] = "done" /\ cmd'[h] = c
    BY <1>t, <2>1, <2>2
  <2>4. Releaser(h)' /\ pc[h] \notin Past
    BY <2>2, <2>3 DEF Releaser, Releasing, Past
  <2>5. \/ UNCHANGED <<tasksTopic, wire>>
        \/ \E u \in Task, n \in 0..MaxSends :
             /\ Sent(h, u, n) /\ h \notin Passed(u) /\ h \in Passed(u)'
             /\ UNCHANGED tasksTopic
    <3>1. ASSUME NEW i \in DOMAIN envelope[c].targets, Sent(h, <<c, i>>, MaxSends),
                 op' = [op EXCEPT ![h] = "publishTask"]
          PROVE  \E u \in Task, n \in 0..MaxSends :
                   /\ Sent(h, u, n) /\ h \notin Passed(u) /\ h \in Passed(u)'
                   /\ UNCHANGED tasksTopic
      <4>1. envelope[c].targets \in TargetLists
        BY <1>t, <2>1 DEF Envelope
      <4>2. PICK n \in 0..MaxTargets : envelope[c].targets \in [1..n -> Targets]
        BY <4>1 DEF TargetLists
      <4>3. <<c, i>> \in Task /\ CommandOf(<<c, i>>) = c
        BY <3>1, <4>2, MaxTargetsAssumption DEF Task, CommandOf
      <4>4. op'[h] = "publishTask"
        BY <1>t, <3>1
      <4>5. h \in Passed(<<c, i>>)'
        BY <2>3, <4>3, <4>4 DEF Passed, Releases, Past
      <4>6. h \notin Passed(<<c, i>>)
        BY <2>4 DEF Passed
      <4> QED BY <2>2, <3>1, <4>3, <4>5, <4>6, SendsBounded
    <3> QED BY <2>1, <2>2, <3>1
  <2> QED BY <1>s, <2>2, <2>3, <2>4, <2>5, CountStep
<1>4. ASSUME NEW h \in Handlers, RecordCommand(h) \/ CreateApproval(h) \/ RemoveApproval(h)
      PROVE  CountInv'
  <2>1. PICK l \in {"storeTasks", "done"} : pc' = [pc EXCEPT ![h] = l]
    BY <1>4 DEF RecordCommand, CreateApproval, RemoveApproval
  <2>2. /\ pc[h] \in {"recordCommand", "createApproval", "deleteApproval"}
        /\ UNCHANGED <<envelope, request, tasksTopic, wire, todo>>
    BY <1>4 DEF RecordCommand, CreateApproval, RemoveApproval
  <2>3. l \notin Releasing /\ pc[h] \notin Past
    BY <2>2 DEF Releasing, Past
  <2> QED BY <1>s, <2>1, <2>2, <2>3, QuietStep
<1>5. ASSUME NEW h \in Handlers, StoreTask(h) PROVE CountInv'
  <2>1. /\ pc[h] = "storeTasks" /\ pc' = [pc EXCEPT ![h] = "storeTasks"]
        /\ UNCHANGED <<envelope, request, tasksTopic, wire>> /\ todo[h] # <<>>
    BY <1>5, <1>t DEF StoreTask
  <2>2. PICK l \in {Tail(todo[h]), <<>>} : todo' = [todo EXCEPT ![h] = l]
    BY <1>5 DEF StoreTask
  <2>3. Once(l)
    BY <1>t, <1>o, <1>e, <2>1, TailOnce
  <2>4. todo' = [todo EXCEPT ![h] = todo'[h]] /\ Once(todo'[h])
    BY <1>t, <2>2, <2>3
  <2>5. "storeTasks" \notin Releasing \cup Past
    BY DEF Releasing, Past
  <2> QED BY <2>1, <2>4, <2>5, QuietStep
<1>6. ASSUME NEW h \in Handlers, FinishStore(h) PROVE CountInv'
  <2>1. /\ pc[h] = "storeTasks" /\ pc' = [pc EXCEPT ![h] = AfterStore(envelope[cmd[h]])]
        /\ UNCHANGED <<envelope, request, tasksTopic, wire>>
        /\ todo' = [todo EXCEPT ![h] = PlanTasks(cmd[h], envelope[cmd[h]].targets)]
    BY <1>6 DEF FinishStore
  <2>2. op[h] = "create" /\ cmd[h] \in Commands /\ envelope[cmd[h]] \in Envelope
    BY <1>t, <2>1 DEF IInv, CreatorAlone, Storing
  <2>3. Once(PlanTasks(cmd[h], envelope[cmd[h]].targets))
    BY <2>2, PlanOnce DEF Envelope
  <2>4. todo' = [todo EXCEPT ![h] = todo'[h]] /\ Once(todo'[h])
    BY <1>t, <2>1, <2>3
  <2>5. AfterStore(envelope[cmd[h]]) \in Releasing =>
          ~envelope[cmd[h]].approvalRequired /\ h \in Releases(cmd[h])
    BY <2>2 DEF AfterStore, Releasing, Releases, Envelope
  <2>6. pc[h] \notin Past \cup {"idle"} /\ AfterStore(envelope[cmd[h]]) # "load"
    BY <2>1, <2>2 DEF Past, AfterStore, Envelope
  <2> QED BY <2>1, <2>2, <2>4, <2>5, <2>6, QuietStep
<1>7. ASSUME NEW h \in Handlers, GetApproval(h) \/ Decide(h) \/ DecideStatus(h) \/ Reread(h)
      PROVE  CountInv'
  <2>1. /\ pc[h] \in {"getApproval", "decide", "decideStatus", "reread"}
        /\ UNCHANGED <<envelope, request, tasksTopic, wire, todo>>
    BY <1>7 DEF GetApproval, Decide, DecideStatus, Reread
  <2>2. PICK l \in {"done", "deleteApproval", "decide", "decideStatus", "reread", "load"} :
          pc' = [pc EXCEPT ![h] = l] /\ (l = "load" => op[h] = "approve")
    <3>1. CASE GetApproval(h)
      <4>1. PICK r \in Replies :
              pc' = [pc EXCEPT ![h] =
                IF approvals[cmd[h]] = "absent" THEN "done"
                ELSE LabelAfter(r, IF op[h] = "delete" THEN "deleteApproval" ELSE "decide")]
        BY <3>1 DEF GetApproval
      <4> QED BY <4>1 DEF LabelAfter
    <3>2. CASE Decide(h) \/ DecideStatus(h)
      BY <3>2 DEF Decide, DecideStatus, LabelAfter
    <3>3. CASE Reread(h)
      <4>1. PICK r \in Replies :
              pc' = [pc EXCEPT ![h] = IF approvals[cmd[h]] # "absent" /\ op[h] = "approve"
                                      THEN LabelAfter(r, "load") ELSE "done"]
        BY <3>3 DEF Reread
      <4> QED BY <4>1 DEF LabelAfter
    <3> QED BY <1>7, <3>1, <3>2, <3>3
  <2>3. l \notin Releasing /\ pc[h] \notin Past \cup {"idle"}
    BY <2>1 DEF Releasing, Past
  <2> QED BY <1>s, <2>1, <2>2, <2>3, QuietStep
<1>8. ASSUME NEW h \in Handlers, LoadTasks(h) PROVE CountInv'
  <2>1. pc[h] = "load" /\ UNCHANGED <<envelope, request, tasksTopic, wire>>
    BY <1>8 DEF LoadTasks
  <2>2. pc[h] \notin Past /\ cmd[h] \in Commands
    BY <1>t, <2>1 DEF Past
  <2>3. op[h] \in {"approve", "release", "replay"} /\ h \in Releases(cmd[h])
    BY <1>o, <2>1 DEF Releaser, Releases
  <2>4. CASE pc' = [pc EXCEPT ![h] = "done"] /\ UNCHANGED todo
    BY <1>s, <2>1, <2>2, <2>4, QuietStep DEF Releasing
  <2>5. ASSUME NEW list \in RowOrders(cmd[h]), todo' = [todo EXCEPT ![h] = list],
               pc' = [pc EXCEPT ![h] = "publishCommand"]
        PROVE  CountInv'
    <3>1. todo' = [todo EXCEPT ![h] = todo'[h]] /\ Once(todo'[h])
      BY <1>t, <2>2, <2>5, OrderOnce
    <3> QED BY <2>1, <2>2, <2>3, <2>5, <3>1, QuietStep
  <2> QED BY <1>8, <2>4, <2>5 DEF LoadTasks
<1>9. ASSUME NEW h \in Handlers, PublishCommand(h) \/ MarkQueued(h) \/ SetStatus(h)
      PROVE  CountInv'
  <2>1. /\ pc[h] \in Releasing /\ UNCHANGED <<envelope, request, tasksTopic, wire, todo>>
    BY <1>9 DEF PublishCommand, MarkQueued, SetStatus, Releasing
  <2>2. PICK l \in {"publishTasks", "setStatus", "done"} :
          pc' = [pc EXCEPT ![h] = l] /\ (pc[h] \in Past => l # "publishTasks")
    BY <1>9 DEF PublishCommand, MarkQueued, SetStatus, LabelAfter, Past
  <2>3. op[h] \in {"create", "approve", "release", "replay"} /\ h \in Releases(cmd[h])
    BY <1>o, <2>1 DEF Releaser
  <2>4. pc[h] # "idle" /\ l \in Past /\ l # "load"
    BY <2>1 DEF Releasing, Past
  <2> QED BY <1>s, <2>1, <2>2, <2>3, <2>4, QuietStep
<1>10. ASSUME NEW h \in Handlers, NEW u, u = Head(todo[h]),
              pc[h] = "publishTasks", todo[h] # <<>>, UNCHANGED <<envelope, op, cmd>>,
              NEW n \in 0..MaxSends, Sent(h, u, n),
              NEW l \in {"publishTasks", "done", "dropped"}, pc' = [pc EXCEPT ![h] = l],
              NEW list \in {todo[h], Tail(todo[h])}, todo' = [todo EXCEPT ![h] = list],
              l = "publishTasks" => list = Tail(todo[h]),
              UNCHANGED tasksTopic \/ (tasksTopic' = Append(tasksTopic, u) /\ n < MaxSends)
       PROVE  CountInv'
  <2>3. /\ u \in Task /\ u \in Range(todo[h]) /\ CommandOf(u) = cmd[h]
        /\ Range(Tail(todo[h])) \subseteq Range(todo[h])
    BY <1>t, <1>10, SeqRange DEF IInv, PlanKept
  <2>4. Once(Tail(todo[h])) /\ u \notin Range(Tail(todo[h]))
    BY <1>t, <1>o, <1>10, TailOnce
  <2>5. /\ pc' = [pc EXCEPT ![h] = pc'[h]] /\ pc'[h] = l
        /\ op' = [op EXCEPT ![h] = op'[h]] /\ cmd' = [cmd EXCEPT ![h] = cmd'[h]]
        /\ todo' = [todo EXCEPT ![h] = todo'[h]] /\ todo'[h] = list /\ Once(list)
        /\ op'[h] = op[h] /\ cmd'[h] = cmd[h] /\ envelope' = envelope
    BY <1>t, <1>o, <1>10, <2>4
  <2>6. op[h] \in {"create", "approve", "release", "replay"} /\ h \in Releases(cmd[h])
    BY <1>o, <1>10 DEF Releaser, Releasing
  <2>7. h \in Releases(cmd[h])'
    BY <2>5, <2>6 DEF Releases
  <2>8. Releaser(h)'
    BY <1>10, <2>5, <2>6, <2>7 DEF Releaser
  <2>9. h \notin Passed(u) /\ h \in Passed(u)'
    BY <1>10, <2>3, <2>4, <2>5, <2>7 DEF Passed, Past
  <2>10. pc'[h] \in Past
    BY <1>10, <2>5 DEF Past
  <2> QED BY <1>10, <2>3, <2>5, <2>8, <2>9, <2>10, CountStep
<1>11. ASSUME NEW h \in Handlers, PublishTask(h) PROVE CountInv'
  <2>1. /\ pc[h] = "publishTasks" /\ todo[h] # <<>> /\ UNCHANGED <<envelope, op, cmd>>
        /\ todo' = [todo EXCEPT ![h] = Tail(todo[h])]
    BY <1>11 DEF PublishTask, request
  <2>2. PICK n \in 0..MaxSends, l \in {"publishTasks", "done"} :
          /\ Sent(h, Head(todo[h]), n) /\ pc' = [pc EXCEPT ![h] = l]
          /\ \/ UNCHANGED tasksTopic
             \/ tasksTopic' = Append(tasksTopic, Head(todo[h])) /\ n < MaxSends
    <3>1. pc' = pc => pc' = [pc EXCEPT ![h] = "publishTasks"]
      BY <1>t, <2>1
    <3>2. MaxSends - 1 < MaxSends
      BY MaxSendsAssumption
    <3> QED BY <1>11, <3>1, <3>2, SendsBounded DEF PublishTask
  <2> QED BY <1>10, <2>1, <2>2
<1>12. ASSUME NEW h \in Handlers, Drop(h) PROVE CountInv'
  <2>1. /\ pc[h] \notin Ended /\ pc' = [pc EXCEPT ![h] = "dropped"]
        /\ UNCHANGED <<envelope, request, tasksTopic, todo>>
    BY <1>12 DEF Drop
  <2>2. pc[h] # "idle" /\ "dropped" \in Past \ {"publishTasks"} /\ "dropped" \notin Releasing
    BY <2>1 DEF Ended, Past, Releasing
  <2>3. CASE UNCHANGED wire
    BY <1>s, <2>1, <2>2, <2>3, QuietStep
  <2>4. CASE pc[h] = "publishTasks" /\ todo[h] # <<>> /\ Sent(h, Head(todo[h]), MaxSends)
    <3>1. todo' = [todo EXCEPT ![h] = todo[h]] /\ UNCHANGED <<envelope, op, cmd>>
      BY <1>t, <2>1 DEF request
    <3>2. PICK list \in {todo[h], Tail(todo[h])} :
            list = todo[h] /\ todo' = [todo EXCEPT ![h] = list]
      BY <3>1
    <3>3. PICK l \in {"publishTasks", "done", "dropped"} :
            l = "dropped" /\ pc' = [pc EXCEPT ![h] = l]
      BY <2>1
    <3>4. l # "publishTasks" /\ MaxSends \in 0..MaxSends /\ tasksTopic' = tasksTopic
      BY <2>1, <3>3, SendsBounded
    <3> QED BY <1>10, <2>4, <3>1, <3>2, <3>3, <3>4
  <2> QED BY <1>12, <2>3, <2>4 DEF Drop
<1>13. CASE UNCHANGED vars
  BY <1>13 DEF vars, request, CountInv, Started, Releaser, Releases, Copies, Passed, Spent,
               Landed, LandedOf
<1> QED BY <1>1, <1>2, <1>3, <1>4, <1>5, <1>6, <1>7, <1>8, <1>9, <1>11, <1>12, <1>13,
           LandCountStep
        DEF Next, Proceed

-----------------------------------------------------------------------------
(* No release sends a task more often than the producer.                    *)

LEMMA CountsReleases == IInv /\ CountInv => SentOncePerRelease
<1> SUFFICES ASSUME IInv, CountInv, NEW t \in Published
             PROVE  Copies(t) <= MaxSends * Cardinality(Releases(CommandOf(t)))
  BY DEF SentOncePerRelease
<1>1. t \in Task
  BY SeqRange DEF IInv, TypeOK, Published
<1> DEFINE R == Releases(CommandOf(t))
           sends == (R \X {t}) \X (1..MaxSends)
<1>2. CommandOf(t) \in Commands
  BY <1>1 DEF Task, CommandOf
<1>3. R \subseteq Started
  BY <1>2, NoCommandAssumption DEF Releases, Started, IInv, Minted
<1>4. IsFiniteSet(R) /\ Cardinality(R) \in Nat
  BY <1>3, FS_Subset, FS_CardinalityType DEF CountInv
<1>5. LandedOf(t) \subseteq sends
  BY DEF LandedOf, Landed, Spent, Passed
<1>6. IsFiniteSet(sends) /\ Cardinality(sends) = Cardinality(R) * MaxSends
  <2>1. IsFiniteSet({t}) /\ Cardinality({t}) = 1
    BY FS_Singleton
  <2>2. IsFiniteSet(R \X {t}) /\ Cardinality(R \X {t}) = Cardinality(R) * 1
    BY <1>4, <2>1, FS_Product
  <2>3. IsFiniteSet(1..MaxSends) /\ Cardinality(1..MaxSends) = MaxSends
    BY FS_Interval, MaxSendsAssumption
  <2>4. /\ IsFiniteSet(sends)
        /\ Cardinality(sends) = Cardinality(R \X {t}) * MaxSends
    BY <2>2, <2>3, FS_Product
  <2> QED BY <1>4, <2>2, <2>4
<1> HIDE DEF R, sends
<1>7. Cardinality(LandedOf(t)) <= Cardinality(sends) /\ Cardinality(LandedOf(t)) \in Nat
      /\ Cardinality(sends) \in Nat
  BY <1>5, <1>6, FS_Subset, FS_CardinalityType
<1>8. Copies(t) <= Cardinality(LandedOf(t)) /\ Copies(t) \in Nat
  <2>1. IsFiniteSet(DOMAIN tasksTopic)
    BY FS_Interval DEF IInv, TypeOK
  <2> QED BY <1>1, <2>1, FS_Subset, FS_CardinalityType DEF CountInv, Copies
<1>9. Cardinality(R) * MaxSends = MaxSends * Cardinality(R)
  BY <1>4, MaxSendsAssumption
<1> QED BY <1>6, <1>7, <1>8, <1>9 DEF R

\* Nothing but a creation, an approval, a release, a replay or a publication that
\* releases its command puts a task on platform.tasks, and none of them more often
\* than the producer sends one message: however many of them run concurrently,
\* whatever orders the rows are read back in, and whichever requests are dropped,
\* fail, or have a message arrive after an error was reported.
THEOREM PublishedOncePerRelease == Spec => []SentOncePerRelease
<1>1. IInv /\ CountInv /\ [Next]_vars => CountInv'
  BY CountSteps
<1> QED BY InitCountInv, Invariance, CountsReleases, <1>1, PTL DEF Spec

=============================================================================
