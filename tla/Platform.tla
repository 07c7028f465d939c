------------------------------- MODULE Platform -------------------------------
(***************************************************************************)
(* The platform from a request at the gateway to the call to Discord: the  *)
(* control plane of CommandRelease and, as Plane, the workers of one guild.*)
(* They meet in the topic platform.tasks and in table tasks.               *)
(*                                                                         *)
(* A step is a call of a handler or a step of the execution plane.  What   *)
(* one plane keeps to itself the other leaves alone; the topic is filled   *)
(* by the handlers and by nothing else.                                    *)
(***************************************************************************)
EXTENDS CommandRelease

CONSTANTS Workers, NoWorker, Regions, NoRegion, RegionOf, LeaseRegionOf, Shape,
          MaxLog, MaxAttempts, MaxDisruptions

VARIABLES
  lease, owner, position, committed, inflight, call, at, attempt, attempts,
  resultsTopic, auditTopic, taskResults, auditEvents, observations,
  skipped, abandoned, disruptions

\* The worker's next call is named call here; no row exists before a creation
\* stores it.
Plane == INSTANCE Worker WITH pc <- call, StoredTasks <- {}

\* What Worker assumes of its constants.
ASSUME PlaneAssumption ==
  /\ NoWorker \notin Workers /\ NoRegion \notin Regions
  /\ RegionOf \in [Workers -> Regions]
  /\ LeaseRegionOf \in [Task -> Regions \cup {NoRegion}]
  /\ Shape \in [Task -> Plane!Shapes]
  /\ MaxLog \in Nat /\ MaxAttempts \in Nat /\ MaxDisruptions \in Nat

\* Every request publishes each task of its command once at most and the producer
\* sends it MaxSends times at most, so that the bound on the messages of the plane
\* holds nothing back.
ASSUME MaxLogAssumption ==
  IsFiniteSet(Handlers) /\ MaxLog >= Cardinality(Handlers) * MaxTargets * MaxSends

controlVars == <<envelope, commands, approvals, commandsTopic, wire, request, pc, todo,
                 everApproved>>
planeVars == <<lease, owner, position, committed, inflight, call, at, attempt, attempts,
               resultsTopic, auditTopic, taskResults, auditEvents, observations, skipped,
               abandoned, disruptions>>
platformVars == <<tasks, tasksTopic, controlVars, planeVars>>

PlatformTypeOK == TypeOK /\ Plane!TypeOK

PlatformInit == Init /\ Plane!Init

ControlStep == Next /\ UNCHANGED planeVars

\* Every step of the workers but Plane!Publish, whose place the handlers take.
WorkerStep(w) ==
  \/ Plane!Assign(w) \/ Plane!CommitLands(w) \/ Plane!Crash(w) \/ Plane!Restart(w)
  \/ Plane!Receive(w) \/ Plane!HandleMessage(w)

PlaneStep ==
  /\ Plane!LeaseExpires \/ \E w \in Workers : WorkerStep(w)
  /\ UNCHANGED controlVars

PlatformNext == ControlStep \/ PlaneStep

PlatformSpec == PlatformInit /\ [][PlatformNext]_platformVars

\* A request is polled until it is answered or dropped, workers run on and are
\* restarted, and a partition without an owner is given to a member.  Nothing
\* makes a message arrive that publish_json did not see delivered.
PlatformFairSpec ==
  /\ PlatformSpec
  /\ \A h \in Handlers : WF_platformVars(Proceed(h) /\ UNCHANGED planeVars)
  /\ \A w \in Workers :
       /\ WF_platformVars((Plane!Receive(w) \/ Plane!HandleMessage(w)) /\ UNCHANGED controlVars)
       /\ WF_platformVars(Plane!Restart(w) /\ UNCHANGED controlVars)
  /\ WF_platformVars(Plane!Failover /\ UNCHANGED controlVars)

-----------------------------------------------------------------------------
(* What the platform keeps true.                                            *)

\* The commands someone has cleared: a creation found that no approval is needed,
\* an approver approved, or an operator asked queue-service for a release, a
\* replay or a publication.
Cleared ==
  {c \in Commands : \/ envelope[c] # NoEnvelope /\ ~envelope[c].approvalRequired
                    \/ c \in everApproved
                    \/ AskedFor(c)}

Answers == {<<tasksTopic[attempts[k].offset], attempts[k].outcome>> : k \in DOMAIN attempts}

Shown(t) == CASE tasks[t].status = "completed" -> "success"
              [] tasks[t].status = "failed" -> "failed"
              [] OTHER -> "none"

\* The platform implements what Moderation promises: Discord acts on a task only
\* when its command needs no approval or has been cleared, however late the
\* approval row, the rows of the tasks or the worker are; and a row that reads
\* completed or failed shows an outcome of its own task, whatever releases set
\* it back in between.
Promise == INSTANCE Moderation WITH
  Command <- Commands, Outcome <- Plane!Outcomes, None <- "none",
  CommandOfTask <- [t \in Task |-> CommandOf(t)],
  cleared <- Cleared, answers <- Answers, shown <- [t \in Task |-> Shown(t)]

KeepsPromise == Promise!Spec

\* A message of task t has been dealt with.
Dealt(t) == \E i \in DOMAIN tasksTopic : tasksTopic[i] = t /\ Plane!Handled(i)

\* A command that reads "accepted" comes to have every stored task dealt with by
\* a worker, unless it is rejected after all or one of its requests is dropped:
\* neither two approvers nor an approver and a rejecter leave one of its tasks
\* unpublished or unread.
AcceptedIsExecuted ==
  \A c \in Commands :
    commands[c] = "accepted" ~>
      \/ commands[c] = "rejected"
      \/ \E h \in Handlers : cmd[h] = c /\ pc[h] = "dropped"
      \/ \A t \in TaskRows(tasks, c) : Dealt(t)

-----------------------------------------------------------------------------
(* What the documentation promises and the code does not keep.              *)

\* No one has anything left to do: every request is answered and every message
\* has been recorded, refused or given up by an idle group.
Settled ==
  /\ \A h \in Handlers : pc[h] \in Ended
  /\ \A i \in DOMAIN tasksTopic : Plane!Handled(i)
  /\ \A w \in Workers : call[w] \in {"recv", "down"}

\* Postgres is the source of truth for tasks: when all has settled, a task whose
\* result is stored does not read "queued".
RecordedIsShown ==
  Settled => \A t \in Task : Plane!ResultsOf(t) # {} => tasks[t].status # "queued"

=============================================================================
