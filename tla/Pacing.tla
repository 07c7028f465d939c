-------------------------------- MODULE Pacing --------------------------------
(***************************************************************************)
(* libs/rate-limit and the worker's use of it: the bucket of each route in *)
(* Redis, the wait before a call to Discord and the penalty after it.      *)
(*                                                                         *)
(* One action is one command to Redis, one look at the clock or one answer *)
(* of Discord; time passes between any two of them.  Several workers are at*)
(* one route when the partition changes hands (Worker).  All machines read *)
(* one clock.                                                              *)
(***************************************************************************)
EXTENDS Discord, Integers, FiniteSets

CONSTANTS
  Workers,
  Tasks,         \* the tasks to perform, which preview_task accepts
  NoTask,
  Second,        \* units of the clock in a second
  RetryAfters,   \* the values of retry_after in Discord's answers
  MaxTime,       \* bound on the clock
  MaxDisruptions \* bound on deaths of workers and replies lost

ASSUME TasksAssumption ==
  /\ \A task \in Tasks : task \in DiscordTask /\ PreviewVerdict(task) = "ok"
  /\ NoTask \notin Tasks
ASSUME TimeAssumption ==
  /\ Second \in Nat \ {0}
  /\ RetryAfters \subseteq Nat
  /\ MaxTime \in Nat /\ MaxDisruptions \in Nat

\* route_key
Key(task) == Route(task)
Keys == {Key(task) : task \in Tasks}

\* acquire(_, 1, 1_000); a failure that names no retry_after counts as much.
DefaultLimit == 1
Window == Second

\* How much of a penalty is served at least: a part of a second that follows a
\* full one is lost with the hash.
Served(duration) == IF duration < Second THEN duration ELSE duration - (duration % Second)

\* Longer than any behaviour: a hash that has no time to live.
Never == MaxTime + 1

\* The fields of a hash in Redis. `None` is a field that is not there.
None == -1
NoHash == [remaining |-> None, reset |-> None, expiry |-> 0]

\* The calls that `recent` keeps of a key, or none.
NoCall == [asked |-> None, at |-> None]
NoCalls == [last |-> NoCall, second |-> NoCall, third |-> NoCall]

VARIABLES
  now,
  redis,       \* the hash at each key
  pc, task,    \* of each worker: its next step and the task in hand
  asked,       \* of each worker: the clock as acquire read it
  remaining,   \* of each worker: the fields acquire has read, and then the
  reset,       \*   bucket it returned
  penalty,     \* of each worker: the penalty to store
  called,      \* of each worker: the clock as update_retry_after read it
  recent,      \* history: of the last call at each key, the one before and the one
               \*   before that, when acquire was asked for it and when it was made,
               \*   since the last answer that asked for less than a window
  disruptions, \* how many there were
  owed         \* history: when the last penalty stored at each key is served

local == <<task, asked, remaining, reset, penalty, called>>
history == <<recent, owed>>
vars == <<now, redis, pc, local, disruptions, history>>

Labels == {"idle", "readRemaining", "readReset", "write", "expire", "call", "penalize",
           "expirePenalty"}

Init ==
  /\ now = 0
  /\ redis = [k \in Keys |-> NoHash]
  /\ pc = [w \in Workers |-> "idle"]
  /\ task = [w \in Workers |-> NoTask]
  /\ asked = [w \in Workers |-> 0]
  /\ remaining = [w \in Workers |-> None]
  /\ reset = [w \in Workers |-> None]
  /\ penalty = [w \in Workers |-> 0]
  /\ recent = [k \in Keys |-> NoCalls]
  /\ called = [w \in Workers |-> 0]
  /\ owed = [k \in Keys |-> 0]
  /\ disruptions = 0

Tick ==
  /\ now < MaxTime
  /\ now' = now + 1
  /\ UNCHANGED <<redis, pc, local, disruptions, history>>

-----------------------------------------------------------------------------
(* Commands to Redis.                                                       *)

\* The hash at key k as a command finds it now.
Hash(k) == IF now < redis[k].expiry THEN redis[k] ELSE NoHash

Goto(w, label) == pc' = [pc EXCEPT ![w] = label]

\* handle_message returns, or goes on to what does not concern Redis.
LetGo(w) ==
  /\ Goto(w, "idle")
  /\ task' = [task EXCEPT ![w] = NoTask]
  /\ asked' = [asked EXCEPT ![w] = 0]
  /\ remaining' = [remaining EXCEPT ![w] = None]
  /\ reset' = [reset EXCEPT ![w] = None]
  /\ penalty' = [penalty EXCEPT ![w] = 0]
  /\ called' = [called EXCEPT ![w] = 0]

\* hset_multiple; a hash that is there keeps its time to live.
SetHash(k, left, at) ==
  redis' = [redis EXCEPT ![k] =
              [remaining |-> left, reset |-> at,
               expiry |-> IF Hash(k) = NoHash THEN Never ELSE Hash(k).expiry]]

\* Mutant of TimeToLive: every hash lives for a second.
OneSecond(duration) == Second

\* Whole seconds, rounded down, and at least one.
TimeToLive(duration) ==
  (IF duration \div Second > 0 THEN duration \div Second ELSE 1) * Second

\* expire, which finds no hash to change once the old time to live is over.
SetExpiry(k, duration) ==
  redis' = IF Hash(k) = NoHash THEN redis
           ELSE [redis EXCEPT ![k].expiry = now + TimeToLive(duration)]

-----------------------------------------------------------------------------
(* acquire.                                                                 *)

Begin(w) ==
  /\ pc[w] = "idle"
  /\ \E t \in Tasks : task' = [task EXCEPT ![w] = t]
  /\ asked' = [asked EXCEPT ![w] = now]
  /\ Goto(w, "readRemaining")
  /\ UNCHANGED <<now, redis, remaining, reset, penalty, called, disruptions, history>>

ReadRemaining(w) ==
  /\ pc[w] = "readRemaining"
  /\ remaining' = [remaining EXCEPT ![w] = Hash(Key(task[w])).remaining]
  /\ Goto(w, "readReset")
  /\ UNCHANGED <<now, redis, task, asked, reset, penalty, called, disruptions, history>>

ReadReset(w) ==
  /\ pc[w] = "readReset"
  /\ reset' = [reset EXCEPT ![w] = Hash(Key(task[w])).reset]
  /\ Goto(w, "write")
  /\ UNCHANGED <<now, redis, task, asked, remaining, penalty, called, disruptions, history>>

ResetAt(w) == IF reset[w] = None THEN asked[w] + Window ELSE reset[w]

\* Mutant of CurrentRemaining: an absent field is not the full limit.
AsStored(w) == IF asked[w] >= ResetAt(w) THEN DefaultLimit ELSE remaining[w]

CurrentRemaining(w) ==
  IF asked[w] >= ResetAt(w) \/ remaining[w] = None THEN DefaultLimit ELSE remaining[w]

\* Mutant of NextReset: a request that finds the bucket empty asks for the
\* window after the current one.
QueuedReset(w) ==
  IF asked[w] >= ResetAt(w) THEN asked[w] + Window
  ELSE IF CurrentRemaining(w) = 0 THEN ResetAt(w) + Window ELSE ResetAt(w)

NextReset(w) == IF asked[w] >= ResetAt(w) THEN asked[w] + Window ELSE ResetAt(w)

\* Mutant of Taken: the permit is not taken.
LeaveThere(n) == n

Taken(n) == IF n > 0 THEN n - 1 ELSE 0

Write(w) ==
  /\ pc[w] = "write"
  /\ SetHash(Key(task[w]), Taken(CurrentRemaining(w)), NextReset(w))
  /\ remaining' = [remaining EXCEPT ![w] = CurrentRemaining(w)]
  /\ reset' = [reset EXCEPT ![w] = NextReset(w)]
  /\ Goto(w, "expire")
  /\ UNCHANGED <<now, task, asked, penalty, called, disruptions, history>>

Expire(w) ==
  /\ pc[w] = "expire"
  /\ SetExpiry(Key(task[w]), Window)
  /\ Goto(w, "call")
  /\ UNCHANGED <<now, local, disruptions, history>>

-----------------------------------------------------------------------------
(* handle_message: the wait, the call, the penalty.                         *)

\* What a failed call costs the route: a rate limit what Discord says, any other
\* failure a second.
Penalties == {Second} \cup RetryAfters

\* is_available when the bucket is acquired, or the sleep until its reset is
\* over; the bucket is not asked again.
Available(w) == remaining[w] > 0 \/ now >= reset[w]

MayCall(w) == pc[w] = "call" /\ Available(w)

Calls(w) == MayCall(w) /\ ExecuteVerdict(task[w]) = "ok"

\* The call is made, now at the latest, and answered: with a penalty, or with none.
Answer(w, p) ==
  recent' = [recent EXCEPT ![Key(task[w])] =
               IF p \in 0..(Window - 1) THEN NoCalls
               ELSE [last |-> [asked |-> asked[w], at |-> now],
                     second |-> @.last, third |-> @.second]]

\* execute_task succeeds: what is left of handle_message leaves Redis alone.
Succeed(w) ==
  /\ Calls(w)
  /\ Answer(w, None)
  /\ LetGo(w)
  /\ UNCHANGED <<now, redis, disruptions, owed>>

\* Discord refuses or limits the call.
Falter(w) ==
  /\ Calls(w)
  /\ \E p \in Penalties :
       Answer(w, p) /\ penalty' = [penalty EXCEPT ![w] = p]
  /\ called' = [called EXCEPT ![w] = now]
  /\ Goto(w, "penalize")
  /\ UNCHANGED <<now, redis, task, asked, remaining, reset, disruptions, owed>>

\* execute_task refuses the task: a failure like any other, without a call.
Refuse(w) ==
  /\ MayCall(w) /\ ExecuteVerdict(task[w]) = "error"
  /\ penalty' = [penalty EXCEPT ![w] = Second]
  /\ Goto(w, "penalize")
  /\ called' = [called EXCEPT ![w] = now]
  /\ UNCHANGED <<now, redis, task, asked, remaining, reset, disruptions, history>>

\* update_retry_after, which read the clock before it was connected.
Penalize(w) ==
  /\ pc[w] = "penalize"
  /\ SetHash(Key(task[w]), 0, called[w] + penalty[w])
  /\ Goto(w, "expirePenalty")
  /\ UNCHANGED <<now, local, disruptions, history>>

ExpirePenalty(w) ==
  LET k == Key(task[w]) IN
  /\ pc[w] = "expirePenalty"
  /\ SetExpiry(k, penalty[w])
  /\ owed' = IF Hash(k) = NoHash THEN owed
             ELSE [owed EXCEPT ![k] = called[w] + Served(penalty[w])]
  /\ LetGo(w)
  /\ UNCHANGED <<now, recent, disruptions>>

\* A command fails and handle_message returns.
Fail(w) ==
  /\ pc[w] \in {"readRemaining", "readReset", "write", "expire", "penalize",
               "expirePenalty"}
  /\ LetGo(w)
  /\ UNCHANGED <<now, redis, disruptions, history>>

\* The worker dies, or a command is carried out and its reply lost; a call it has
\* just made is not answered.
Disrupt(w) ==
  /\ pc[w] # "idle"
  /\ UNCHANGED recent \/ (Calls(w) /\ Answer(w, None))
  /\ disruptions < MaxDisruptions
  /\ disruptions' = disruptions + 1
  /\ LetGo(w)
  /\ UNCHANGED <<now, redis, owed>>

-----------------------------------------------------------------------------

Step(w) ==
  \/ Begin(w) \/ ReadRemaining(w) \/ ReadReset(w) \/ Write(w) \/ Expire(w)
  \/ Succeed(w) \/ Falter(w) \/ Refuse(w) \/ Penalize(w) \/ ExpirePenalty(w)
  \/ Fail(w) \/ Disrupt(w)

Next == Tick \/ \E w \in Workers : Step(w)

Spec == Init /\ [][Next]_vars

-----------------------------------------------------------------------------
(* What the pacing keeps true.                                              *)

Times == 0..MaxTime

Call == [asked : Times, at : Times] \cup {NoCall}

RedisHash == [remaining : 0..DefaultLimit \cup {None}, reset : Nat \cup {None}, expiry : Nat]

TypeOK ==
  /\ now \in Times
  /\ redis \in [Keys -> RedisHash]
  /\ pc \in [Workers -> Labels]
  /\ task \in [Workers -> Tasks \cup {NoTask}]
  /\ \A w \in Workers :
       /\ pc[w] # "idle" => task[w] \in Tasks
       /\ pc[w] \in {"expire", "call"} => remaining[w] # None /\ reset[w] # None
  /\ asked \in [Workers -> Times]
  /\ remaining \in [Workers -> 0..DefaultLimit \cup {None}]
  /\ reset \in [Workers -> Nat \cup {None}]
  /\ penalty \in [Workers -> Penalties \cup {0}]
  /\ called \in [Workers -> Times]
  /\ recent \in [Keys -> [last : Call, second : Call, third : Call]]
  /\ owed \in [Keys -> Nat]
  /\ disruptions \in 0..MaxDisruptions

\* No worker ever sleeps longer than a window or the longest penalty Discord has
\* asked for, whatever was stored at the route before its request, by a worker that
\* failed between two commands or died, and since: waits do not add up (acquire,
\* update_retry_after, the sleep of handle_message).
WaitBounded ==
  \A w \in Workers : pc[w] = "call" =>
    \E d \in {Window} \cup Penalties : reset[w] <= now + d

\* One worker has the routes to itself: a partition belongs to one worker of the
\* group as long as no rebalance moves it.
OneWorker == \E w \in Workers : Workers = {w}

\* A worker that has a route to itself makes at most three calls there in a window
\* though acquire gives one permit: the window is counted from the clock as acquire
\* read it, the call comes later, the wait ends in a call that takes no permit, and
\* the next request finds the bucket full (acquire, handle_message).  Discord may
\* ask for less than a window; then it gets more.
ThreePerWindow ==
  OneWorker =>
    \A w \in Workers :
      LET third == recent[Key(task[w])].third IN
      MayCall(w) /\ third # NoCall => now >= third.at + Window

\* No call at a route is due before the end of the last penalty stored there, or
\* the full second it is rounded down to.
PenaltyOver ==
  \A w \in Workers : MayCall(w) => now >= owed[Key(task[w])]

\* A penalty stored before its hash was forgotten is served by the worker that
\* has the route to itself and is not disrupted (update_retry_after, acquire,
\* is_available): the next acquire cuts the hash's time to live to a second, but
\* the worker has the reset in hand and sleeps until then.
PenaltyServed == OneWorker /\ disruptions = 0 => PenaltyOver

-----------------------------------------------------------------------------
(* What the documentation promises and the code does not keep.              *)

\* "Redis-backed coordination ensures Discord API limits are respected
\* system-wide": whoever asks next for the route, a stored penalty is served.
PenaltyKept == PenaltyOver

=============================================================================
