---------------------------- MODULE OneWorkerProofs ----------------------------
(***************************************************************************)
(* Theorems about a worker that has the routes to itself (Pacing), for any *)
(* number of tasks and routes and any penalties.                           *)
(***************************************************************************)
EXTENDS PacingProofs

-----------------------------------------------------------------------------
(* Facts about the data.                                                    *)

LEMMA KeyState ==
  ASSUME Paced, NEW k \in Keys
  PROVE  /\ now \in Nat /\ now <= MaxTime
         /\ redis[k].remaining \in {0, 1, None}
         /\ redis[k].reset \in Nat \cup {None}
         /\ redis[k].expiry \in Nat
         /\ owed[k] \in Nat
BY Durations DEF Paced, TypeOK, Times, RedisHash, DefaultLimit

LEMMA WorkerState ==
  ASSUME Paced, NEW w \in Workers
  PROVE  /\ now \in Nat /\ now <= MaxTime
         /\ asked[w] \in Nat /\ asked[w] <= now
         /\ called[w] \in Nat /\ called[w] <= now /\ penalty[w] \in Nat
         /\ pc[w] \in {"penalize", "expirePenalty"} => asked[w] <= called[w]
         /\ remaining[w] \in {0, 1, None} /\ reset[w] \in Nat \cup {None}
         /\ pc[w] # "idle" => Key(task[w]) \in Keys
BY Durations, KeyInHand DEF Paced, TypeOK, NoClockAhead, Times, DefaultLimit

\* A hash lives as long as a penalty is served, and a second at least.
LEMMA LivesLongEnough ==
  ASSUME NEW duration \in Nat
  PROVE  /\ TimeToLive(duration) \in Nat /\ Served(duration) \in Nat
         /\ TimeToLive(duration) >= Window
         /\ TimeToLive(duration) >= Served(duration)
         /\ Served(duration) <= duration
<1> DEFINE q == duration \div Second
           r == duration % Second
<1>1. q \in Nat /\ r \in 0..(Second - 1) /\ duration = Second * q + r
  BY Durations
<1>2. q > 0 => q * Second >= Second
  BY <1>1, Durations
<1>3. TimeToLive(duration) = IF q > 0 THEN q * Second ELSE Second
  BY <1>1, Durations DEF TimeToLive
<1>4. Served(duration) = IF duration < Second THEN duration ELSE duration - r
  BY DEF Served
<1>5. q = 0 => duration < Second
  BY <1>1, Durations
<1>6. duration - r = q * Second
  BY <1>1, Durations
<1>7. TimeToLive(duration) >= Window
  BY <1>1, <1>2, <1>3, Durations
<1>8. TimeToLive(duration) >= Served(duration)
  BY <1>1, <1>2, <1>3, <1>4, <1>5, <1>6, Durations
<1>9. Served(duration) <= duration
  BY <1>1, <1>4, Durations
<1> QED BY <1>7, <1>8, <1>9, WholeSeconds

Alive(k) == now < redis[k].expiry

LEMMA HashAlive ==
  ASSUME Paced, NEW k \in Keys
  PROVE  /\ Alive(k) => Hash(k) = redis[k] /\ Hash(k) # NoHash
         /\ ~Alive(k) => Hash(k) = NoHash
<1>1. Alive(k) => redis[k].expiry # 0
  BY KeyState DEF Alive
<1> QED BY <1>1 DEF Alive, Hash, NoHash

\* What the two kinds of write do to the hash at a key.
LEMMA SetHashEffect ==
  ASSUME Paced, NEW k \in Keys, NEW left, NEW at, SetHash(k, left, at)
  PROVE  /\ redis'[k].remaining = left /\ redis'[k].reset = at
         /\ redis'[k].expiry = IF Alive(k) THEN redis[k].expiry ELSE Never
         /\ \A l \in Keys : l # k => redis'[l] = redis[l]
BY HashAlive DEF SetHash, Paced, TypeOK

LEMMA SetExpiryEffect ==
  ASSUME Paced, NEW k \in Keys, NEW duration, SetExpiry(k, duration)
  PROVE  /\ redis'[k].remaining = redis[k].remaining /\ redis'[k].reset = redis[k].reset
         /\ redis'[k].expiry = IF Alive(k) THEN now + TimeToLive(duration) ELSE redis[k].expiry
         /\ \A l \in Keys : l # k => redis'[l] = redis[l]
<1>1. redis \in [Keys -> RedisHash]
  BY DEF Paced, TypeOK
<1>2. CASE Alive(k)
  <2>1. redis' = [redis EXCEPT ![k].expiry = now + TimeToLive(duration)]
    BY <1>2, HashAlive DEF SetExpiry
  <2> QED BY <1>1, <1>2, <2>1 DEF RedisHash
<1>3. CASE ~Alive(k)
  BY <1>3, HashAlive DEF SetExpiry
<1> QED BY <1>2, <1>3

-----------------------------------------------------------------------------
(* Holding a route back until a time t: the hash says so and lives until    *)
(* then, and so does the bucket a worker has read of it.                    *)

At(w, k) == pc[w] # "idle" /\ Key(task[w]) = k

\* A hash whose time to live is beyond the last instant is never forgotten.
Lasts(k, t) == redis[k].expiry >= t \/ redis[k].expiry > MaxTime

HashHolds(k, t) ==
  now >= t \/ (redis[k].remaining = 0 /\ redis[k].reset >= t /\ Lasts(k, t))

WorkerHolds(w, t) ==
  \/ now >= t
  \/ /\ pc[w] \in {"readReset", "write", "expire", "call"} => remaining[w] = 0
     /\ pc[w] \in {"write", "expire", "call"} => reset[w] >= t

LEMMA HeldIsAlive ==
  ASSUME Paced, NEW k \in Keys, NEW t \in Nat, HashHolds(k, t), ~(now >= t)
  PROVE  Alive(k) /\ redis[k].remaining = 0 /\ redis[k].reset >= t /\ Lasts(k, t)
BY KeyState, Durations DEF HashHolds, Lasts, Alive

LEMMA HoldsWhenSame ==
  ASSUME Paced, NEW k \in Keys, NEW t \in Nat, HashHolds(k, t),
         redis'[k] = redis[k], now' \in Nat, now' >= now
  PROVE  now' >= t \/ (redis'[k].remaining = 0 /\ redis'[k].reset >= t
                       /\ (redis'[k].expiry >= t \/ redis'[k].expiry > MaxTime))
BY KeyState DEF HashHolds, Lasts

\* A route that is held back until t stays so through the reads of acquire and
\* its first write, and the bucket in hand says the same.
LEMMA AcquireHolds ==
  ASSUME Paced, NEW w \in Workers, NEW k, At(w, k), NEW t \in Nat,
         HashHolds(k, t), WorkerHolds(w, t),
         ReadRemaining(w) \/ ReadReset(w) \/ Write(w)
  PROVE  \/ now' >= t
         \/ /\ redis'[k].remaining = 0 /\ redis'[k].reset >= t
            /\ redis'[k].expiry >= t \/ redis'[k].expiry > MaxTime
            /\ remaining'[w] = 0
            /\ pc'[w] # "readReset" => reset'[w] >= t
<1>1. now' = now /\ k \in Keys /\ now \in Nat
  BY WorkerState DEF At, ReadRemaining, ReadReset, Write
<1> SUFFICES ASSUME ~(now >= t)
             PROVE  /\ redis'[k].remaining = 0 /\ redis'[k].reset >= t
                    /\ redis'[k].expiry >= t \/ redis'[k].expiry > MaxTime
                    /\ remaining'[w] = 0
                    /\ pc'[w] # "readReset" => reset'[w] >= t
  BY <1>1
<1>2. Alive(k) /\ redis[k].remaining = 0 /\ redis[k].reset >= t /\ Lasts(k, t)
  BY <1>1, HeldIsAlive
<1>3. Hash(k) = redis[k]
  BY <1>1, <1>2, HashAlive
<1>4. CASE ReadRemaining(w)
  <2>1. /\ redis' = redis /\ remaining'[w] = Hash(k).remaining /\ pc'[w] = "readReset"
    BY <1>4 DEF ReadRemaining, Goto, At, Paced, TypeOK
  <2> QED BY <1>2, <1>3, <2>1 DEF Lasts
<1>5. CASE ReadReset(w)
  <2>1. /\ redis' = redis /\ reset'[w] = Hash(k).reset /\ remaining' = remaining
        /\ pc[w] = "readReset"
    BY <1>5 DEF ReadReset, Goto, At, Paced, TypeOK
  <2> QED BY <1>2, <1>3, <2>1 DEF Lasts, WorkerHolds
<1>6. CASE Write(w)
  <2>1. remaining[w] = 0 /\ reset[w] >= t /\ reset[w] \in Nat
    BY <1>6, WorkerState DEF Write, WorkerHolds, None
  <2>2. CurrentRemaining(w) = 0 /\ NextReset(w) = reset[w]
    BY <2>1, WorkerState DEF CurrentRemaining, NextReset, ResetAt, None
  <2>3. Taken(CurrentRemaining(w)) = 0
    BY <2>2 DEF Taken
  <2>4. /\ redis'[k].remaining = 0 /\ redis'[k].reset = reset[w]
        /\ redis'[k].expiry = redis[k].expiry
    BY <1>1, <1>2, <1>6, <2>2, <2>3, SetHashEffect DEF Write, At
  <2>5. remaining'[w] = 0 /\ reset'[w] = reset[w]
    BY <1>6, <2>2 DEF Write, Paced, TypeOK
  <2> QED BY <1>2, <2>1, <2>4, <2>5 DEF Lasts
<1> QED BY <1>4, <1>5, <1>6

\* A call at a route that is held back comes when the time is over.
LEMMA CallsWhenOver ==
  ASSUME Paced, NEW w \in Workers, NEW t \in Nat, WorkerHolds(w, t), MayCall(w)
  PROVE  now >= t
BY WorkerState DEF WorkerHolds, MayCall, Available, None

\* A step of the worker changes nothing at any other key.
LEMMA Elsewhere ==
  ASSUME Paced, NEW w \in Workers, Step(w), pc[w] # "idle",
         NEW k \in Keys, k # Key(task[w])
  PROVE  /\ now' = now /\ redis'[k] = redis[k] /\ recent'[k] = recent[k] /\ owed'[k] = owed[k]
         /\ ~At(w, k)'
<1>1. Key(task[w]) \in Keys
  BY WorkerState
<1>2. now' = now /\ (pc'[w] = "idle" \/ task'[w] = task[w])
  BY DEF Step, Begin, ReadRemaining, ReadReset, Write, Expire, Succeed, Falter, Refuse,
         Penalize, ExpirePenalty, Fail, Disrupt, LetGo, Goto, local, Paced, TypeOK
<1>3. redis'[k] = redis[k]
  BY <1>1, SetHashEffect, SetExpiryEffect
     DEF Step, Begin, ReadRemaining, ReadReset, Write, Expire, Succeed, Falter, Refuse,
         Penalize, ExpirePenalty, Fail, Disrupt
<1>4. recent'[k] = recent[k]
  BY <1>1 DEF Step, Begin, ReadRemaining, ReadReset, Write, Expire, Succeed, Falter, Refuse,
         Penalize, ExpirePenalty, Fail, Disrupt, Answer, history, Paced, TypeOK
<1>5. owed'[k] = owed[k]
  BY <1>1 DEF Step, Begin, ReadRemaining, ReadReset, Write, Expire, Succeed, Falter, Refuse,
         Penalize, ExpirePenalty, Fail, Disrupt, history, Paced, TypeOK
<1> QED BY <1>2, <1>3, <1>4, <1>5 DEF At

-----------------------------------------------------------------------------
(* A penalty is served: the invariant.                                      *)

\* What worker w and the hash at key k know of the last penalty stored there.
\* Once the first write of an acquire is over, the worker's own copy counts: the
\* hash may be forgotten before it is time.  From the call to the new penalty no
\* old one is left.
Serving(w, k) ==
  /\ ~(At(w, k) /\ pc[w] = "call") => HashHolds(k, owed[k])
  /\ At(w, k) => WorkerHolds(w, owed[k])
  /\ At(w, k) /\ pc[w] \in {"penalize", "expirePenalty"} => now >= owed[k]
  /\ At(w, k) /\ pc[w] = "expirePenalty" /\ Alive(k) =>
       redis[k].remaining = 0 /\ redis[k].reset >= called[w] + penalty[w]

Undisturbed == OneWorker /\ disruptions = 0

PenaltyInv == Undisturbed => \A w \in Workers : \A k \in Keys : Serving(w, k)

\* The hash at a route that nobody is at holds the route back as long as before.
LEMMA ServingAtRest ==
  ASSUME Paced, NEW w \in Workers, NEW k \in Keys, HashHolds(k, owed[k]), ~At(w, k)',
         redis'[k] = redis[k], owed'[k] = owed[k], now' \in Nat, now' >= now
  PROVE  Serving(w, k)'
<1>1. owed[k] \in Nat
  BY KeyState
<1>2. HashHolds(k, owed[k])'
  BY <1>1, HoldsWhenSame DEF HashHolds, Lasts
<1> QED BY <1>2 DEF Serving

LEMMA BeginServes ==
  ASSUME Paced, NEW w \in Workers, NEW k \in Keys, Serving(w, k), Begin(w)
  PROVE  Serving(w, k)'
<1>1. /\ now' = now /\ now \in Nat /\ redis' = redis /\ owed' = owed
      /\ pc'[w] = "readRemaining" /\ ~At(w, k)
  BY KeyState DEF Begin, Goto, history, At, Paced, TypeOK
<1>2. HashHolds(k, owed[k])'
  BY <1>1 DEF Serving, HashHolds, Lasts
<1>3. WorkerHolds(w, owed[k])'
  BY <1>1 DEF WorkerHolds
<1> QED BY <1>1, <1>2, <1>3 DEF Serving

LEMMA AcquireServes ==
  ASSUME Paced, NEW w \in Workers, NEW k \in Keys, Serving(w, k), At(w, k),
         ReadRemaining(w) \/ ReadReset(w) \/ Write(w)
  PROVE  Serving(w, k)'
<1>1. /\ now' = now /\ owed' = owed /\ owed[k] \in Nat
      /\ pc'[w] \in {"readReset", "write", "expire"} /\ pc[w] # "call"
  BY KeyState DEF ReadRemaining, ReadReset, Write, Goto, history, Paced, TypeOK
<1>2. HashHolds(k, owed[k]) /\ WorkerHolds(w, owed[k])
  BY <1>1 DEF Serving
<1>3. HashHolds(k, owed[k])' /\ WorkerHolds(w, owed[k])'
  BY <1>1, <1>2, AcquireHolds DEF HashHolds, Lasts, WorkerHolds
<1> QED BY <1>1, <1>3 DEF Serving

LEMMA ExpireServes ==
  ASSUME Paced, NEW w \in Workers, NEW k \in Keys, Serving(w, k), At(w, k), Expire(w)
  PROVE  Serving(w, k)'
<1>1. /\ now' = now /\ owed' = owed /\ pc'[w] = "call" /\ pc[w] = "expire" /\ At(w, k)'
      /\ remaining' = remaining /\ reset' = reset
  BY DEF Expire, Goto, local, history, At, Paced, TypeOK
<1>2. WorkerHolds(w, owed[k])'
  BY <1>1 DEF Serving, WorkerHolds
<1> QED BY <1>1, <1>2 DEF Serving

\* The call is answered: the penalty is over.
LEMMA CallServes ==
  ASSUME Paced, NEW w \in Workers, NEW k \in Keys, Serving(w, k), At(w, k),
         Succeed(w) \/ Falter(w) \/ Refuse(w)
  PROVE  Serving(w, k)'
<1>1. /\ now' = now /\ redis' = redis /\ owed' = owed /\ owed[k] \in Nat
      /\ pc'[w] \in {"idle", "penalize"}
  BY KeyState DEF Succeed, Falter, Refuse, LetGo, Goto, history, Paced, TypeOK
<1>2. MayCall(w)
  BY DEF Succeed, Falter, Refuse, Calls
<1>3. now >= owed[k]
  BY <1>1, <1>2, CallsWhenOver DEF Serving
<1> QED BY <1>1, <1>3 DEF Serving, HashHolds, WorkerHolds

LEMMA PenalizeServes ==
  ASSUME Paced, NEW w \in Workers, NEW k \in Keys, Serving(w, k), At(w, k),
         Penalize(w)
  PROVE  Serving(w, k)'
<1>1. /\ now' = now /\ owed' = owed /\ pc[w] = "penalize" /\ pc'[w] = "expirePenalty"
      /\ called' = called /\ penalty' = penalty
  BY DEF Penalize, Goto, local, history, Paced, TypeOK
<1>2. redis'[k].remaining = 0 /\ redis'[k].reset = called[w] + penalty[w]
  BY SetHashEffect DEF Penalize, At
<1>3. redis'[k].reset >= called[w] + penalty[w]
  BY <1>2, WorkerState
<1>4. now >= owed[k]
  BY <1>1 DEF Serving
<1> QED BY <1>1, <1>2, <1>3, <1>4 DEF Serving, HashHolds, WorkerHolds

\* The hash that keeps the penalty lives until it is served.
LEMMA ExpirePenaltyServes ==
  ASSUME Paced, NEW w \in Workers, NEW k \in Keys, Serving(w, k), At(w, k),
         ExpirePenalty(w)
  PROVE  Serving(w, k)'
<1>1. now' = now /\ pc[w] = "expirePenalty" /\ ~At(w, k)' /\ now >= owed[k]
  BY DEF ExpirePenalty, LetGo, Goto, At, Serving, Paced, TypeOK
<1>2. SetExpiry(k, penalty[w])
  BY DEF ExpirePenalty, At
<1>3. CASE ~Alive(k)
  <2>1. owed'[k] = owed[k]
    BY <1>3, HashAlive DEF ExpirePenalty, At
  <2> QED BY <1>1, <2>1 DEF Serving, HashHolds
<1>4. CASE Alive(k)
  <2>1. owed'[k] = called[w] + Served(penalty[w])
    BY <1>4, HashAlive DEF ExpirePenalty, At, Paced, TypeOK
  <2>2. /\ redis'[k].remaining = 0
        /\ redis'[k].reset >= called[w] + penalty[w]
        /\ redis'[k].expiry = now + TimeToLive(penalty[w])
    BY <1>1, <1>2, <1>4, SetExpiryEffect DEF Serving
  <2>3. /\ called[w] \in Nat /\ called[w] <= now /\ penalty[w] \in Nat /\ now \in Nat
        /\ redis'[k].reset = redis[k].reset /\ redis[k].reset \in Nat \cup {None}
    BY <1>2, WorkerState, KeyState, SetExpiryEffect
  <2>4. redis'[k].reset >= owed'[k] /\ redis'[k].expiry >= owed'[k]
    BY <2>1, <2>2, <2>3, LivesLongEnough DEF None
  <2> QED BY <1>1, <2>2, <2>4 DEF Serving, HashHolds, Lasts
<1> QED BY <1>3, <1>4

LEMMA FailServes ==
  ASSUME Paced, NEW w \in Workers, NEW k \in Keys, Serving(w, k), At(w, k), Fail(w)
  PROVE  Serving(w, k)'
<1>1. pc[w] # "call" /\ now' = now /\ redis' = redis /\ owed' = owed /\ ~At(w, k)'
  BY DEF Fail, LetGo, Goto, history, At, Paced, TypeOK
<1> QED BY <1>1, KeyState, ServingAtRest DEF Serving

LEMMA PenaltyStep == Paced /\ PenaltyInv /\ [Next]_vars => PenaltyInv'
<1> SUFFICES ASSUME Paced, PenaltyInv, [Next]_vars PROVE PenaltyInv'
  OBVIOUS
<1>2. ASSUME Undisturbed', NEW w \in Workers, NEW k \in Keys
      PROVE  Serving(w, k)'
  <2>1. Undisturbed
    <3>1. disruptions \in Nat /\ disruptions' \in {disruptions, disruptions + 1}
      BY Durations DEF Next, vars, Tick, Step, Begin, ReadRemaining, ReadReset, Write, Expire,
         Succeed, Falter, Refuse, Penalize, ExpirePenalty, Fail, Disrupt, Paced, TypeOK
    <3> QED BY <1>2, <3>1 DEF Undisturbed, OneWorker
  <2>2. Workers = {w} /\ Serving(w, k)
    BY <2>1 DEF Undisturbed, OneWorker, PenaltyInv
  <2>3. CASE Tick \/ UNCHANGED vars
    <3>1. /\ redis' = redis /\ owed' = owed /\ pc' = pc /\ task' = task
          /\ remaining' = remaining /\ reset' = reset /\ called' = called /\ penalty' = penalty
          /\ now \in Nat /\ now' \in {now, now + 1}
      BY <2>3, KeyState DEF Tick, vars, local, history
    <3>2. HashHolds(k, owed[k]) => HashHolds(k, owed[k])'
      BY <3>1, KeyState, HoldsWhenSame DEF HashHolds, Lasts
    <3>3. WorkerHolds(w, owed[k]) => WorkerHolds(w, owed[k])'
      BY <3>1, KeyState DEF WorkerHolds
    <3>4. At(w, k)' = At(w, k) /\ (Alive(k)' => Alive(k))
      BY <3>1, KeyState DEF At, Alive
    <3> QED BY <2>2, <3>1, <3>2, <3>3, <3>4, KeyState DEF Serving
  <2>4. CASE Step(w)
    <3>1. CASE Begin(w)
      BY <2>2, <3>1, BeginServes
    <3>2. CASE pc[w] # "idle" /\ k # Key(task[w])
      BY <2>2, <2>4, <3>2, Elsewhere, KeyState, ServingAtRest DEF Serving, At
    <3>3. CASE pc[w] # "idle" /\ k = Key(task[w])
      <4>1. At(w, k)
        BY <3>3 DEF At
      <4>2. ~Begin(w)
        BY <3>3 DEF Begin
      <4>3. ~Disrupt(w)
        BY <1>2, <2>1 DEF Disrupt, Undisturbed
      <4> QED BY <2>2, <2>4, <4>1, <4>2, <4>3, AcquireServes, ExpireServes, CallServes,
                 PenalizeServes, ExpirePenaltyServes, FailServes DEF Step
    <3>4. pc[w] = "idle" => Begin(w)
      BY <2>4 DEF Step, ReadRemaining, ReadReset, Write, Expire, Succeed, Falter, Refuse,
         Penalize, ExpirePenalty, Fail, Disrupt, Calls, MayCall
    <3> QED BY <3>1, <3>2, <3>3, <3>4
  <2> QED BY <2>2, <2>3, <2>4 DEF Next
<1> QED BY <1>2 DEF PenaltyInv

LEMMA PenaltyInit == Init => PenaltyInv
<1> SUFFICES ASSUME Init PROVE PenaltyInv
  OBVIOUS
<1>1. ASSUME NEW w \in Workers, NEW k \in Keys PROVE Serving(w, k)
  BY DEF Init, Serving, At, HashHolds
<1> QED BY <1>1 DEF PenaltyInv

\* A penalty that was stored before its hash was forgotten is served: the worker
\* that has the route to itself, and is not disrupted, makes no call there before
\* (update_retry_after, acquire, is_available, the sleep of handle_message).
THEOREM PenaltyIsServed == Spec => []PenaltyServed
<1> DEFINE IInv == Paced /\ PenaltyInv
<1>1. Init => IInv
  BY PacedInit, PenaltyInit
<1>2. IInv /\ [Next]_vars => IInv'
  BY PacedStep, PenaltyStep
<1>3. IInv => PenaltyServed
  <2> SUFFICES ASSUME IInv, Undisturbed, NEW w \in Workers, MayCall(w)
               PROVE  now >= owed[Key(task[w])]
    BY DEF PenaltyServed, PenaltyOver, Undisturbed
  <2> DEFINE k == Key(task[w])
  <2>1. pc[w] = "call" /\ k \in Keys
    BY WorkerState DEF MayCall
  <2>2. WorkerHolds(w, owed[k])
    BY <2>1 DEF PenaltyInv, Serving, At
  <2> QED BY <2>1, <2>2, KeyState, CallsWhenOver
<1> QED BY <1>1, <1>2, <1>3, PTL DEF Spec

-----------------------------------------------------------------------------
(* Three calls in a window: the invariant.                                  *)

Last(k) == recent[k].last.asked

Reading(w, k) == pc[w] \in {"readRemaining", "readReset", "write"} /\ At(w, k)

\* The hash at k gives no permit before t to a request that comes before its
\* reset is over; a worker that waits for the reset already may call sooner.
Settles(w, k, t) ==
  \/ now >= t
  \/ ~Alive(k)
  \/ /\ redis[k].remaining = 0 /\ Lasts(k, t)
     /\ \/ redis[k].reset >= t
        \/ redis[k].reset <= now /\ (Reading(w, k) => redis[k].reset <= asked[w])

\* A hash that is there has both fields, and no permit left.
Stored(k) == Alive(k) => redis[k].remaining = 0 /\ redis[k].reset # None

Penalizing == {"penalize", "expirePenalty"}

\* The calls of the past came one after the other, each before the next was asked
\* for.
CallsPast(w, k) ==
  /\ recent[k].last # NoCall =>
       /\ Last(k) <= recent[k].last.at /\ recent[k].last.at <= now
       /\ At(w, k) => Last(k) <= asked[w]
       /\ At(w, k) => pc[w] \in Penalizing \/ recent[k].last.at <= asked[w]
  /\ recent[k].second # NoCall =>
       /\ recent[k].last # NoCall
       /\ recent[k].second.asked <= recent[k].second.at
       /\ recent[k].second.at <= Last(k)
  /\ recent[k].third # NoCall =>
       recent[k].second # NoCall /\ recent[k].third.at <= recent[k].second.asked

\* Of two calls, the first holds the next one back for a window.
FirstHolds(w, k) ==
  recent[k].second # NoCall =>
    /\ HashHolds(k, recent[k].second.asked + Window)
    /\ At(w, k) => WorkerHolds(w, recent[k].second.asked + Window)

LastSettles(w, k) == recent[k].last # NoCall => Settles(w, k, Last(k) + Window)

\* The bucket as the worker has read it, and then as it has taken from it.
BucketRead(w, k) ==
  /\ pc[w] = "readReset" =>
       remaining[w] # 1 /\ (remaining[w] = None => ~Alive(k))
  /\ pc[w] = "write" =>
       /\ remaining[w] # 1
       /\ remaining[w] = None => reset[w] = None
       /\ reset[w] # None /\ recent[k].last # NoCall =>
            \/ now >= Last(k) + Window
            \/ reset[w] <= asked[w] \/ reset[w] >= Last(k) + Window

BucketTaken(w, k) ==
  /\ pc[w] \in {"expire", "call"} =>
       /\ redis[k].remaining = 0 /\ redis[k].reset = reset[w]
       /\ remaining[w] = 1 => reset[w] = asked[w] + Window
       /\ recent[k].last # NoCall => HashHolds(k, Last(k) + Window)
  /\ pc[w] = "call" => ~Alive(k) \/ Lasts(k, asked[w] + Window)
  /\ pc[w] \in {"penalize", "expirePenalty"} /\ recent[k].last # NoCall => penalty[w] >= Window

Windowed(w, k) ==
  /\ Stored(k) /\ CallsPast(w, k) /\ FirstHolds(w, k) /\ LastSettles(w, k)
  /\ At(w, k) => BucketRead(w, k) /\ BucketTaken(w, k)

WindowInv == OneWorker => \A w \in Workers : \A k \in Keys : Windowed(w, k)

LEMMA RecentState ==
  ASSUME Paced, NEW k \in Keys
  PROVE  /\ recent[k].last # NoCall =>
              /\ Last(k) \in Nat /\ Last(k) + Window \in Nat /\ recent[k].last.at \in Nat
         /\ recent[k].second # NoCall =>
              /\ recent[k].second.asked \in Nat /\ recent[k].second.asked + Window \in Nat
              /\ recent[k].second.at \in Nat
         /\ recent[k].third # NoCall => recent[k].third.at \in Nat
<1>1. recent[k] \in [last : Call, second : Call, third : Call]
  BY DEF Paced, TypeOK
<1>2. \A c \in Call : c # NoCall => c.asked \in Nat /\ c.asked + Window \in Nat /\ c.at \in Nat
  BY Durations DEF Call, Times
<1> QED BY <1>1, <1>2 DEF Last

\* What an answer leaves of the last calls.
LEMMA Answered ==
  ASSUME Paced, NEW w \in Workers, NEW k \in Keys, At(w, k), NEW p, Answer(w, p)
  PROVE  \/ recent'[k] = NoCalls
         \/ /\ p \notin 0..(Window - 1)
            /\ recent'[k].last = [asked |-> asked[w], at |-> now]
            /\ recent'[k].last # NoCall
            /\ recent'[k].second = recent[k].last /\ recent'[k].third = recent[k].second
<1>1. recent'[k] = IF p \in 0..(Window - 1) THEN NoCalls
                   ELSE [last |-> [asked |-> asked[w], at |-> now],
                         second |-> recent[k].last, third |-> recent[k].second]
  BY DEF Answer, At, Paced, TypeOK
<1>2. [asked |-> asked[w], at |-> now] # NoCall
  BY WorkerState DEF NoCall, None
<1> QED BY <1>1, <1>2

LEMMA HoldsEarlier ==
  ASSUME Paced, NEW k \in Keys, NEW t \in Nat, NEW s \in Nat, s <= t, HashHolds(k, t)
  PROVE  HashHolds(k, s)
BY KeyState, Durations DEF HashHolds, Lasts, None

LEMMA HoldsSettles ==
  ASSUME NEW w \in Workers, NEW k \in Keys, NEW t \in Nat, HashHolds(k, t)
  PROVE  Settles(w, k, t)
BY DEF HashHolds, Settles

\* A new time to live of a window or more is as good as the old one.
LEMMA ExpiryHolds ==
  ASSUME Paced, NEW k \in Keys, NEW x \in Nat, x <= now, NEW d \in Nat, SetExpiry(k, d)
  PROVE  /\ HashHolds(k, x + Window) =>
              \/ now >= x + Window
              \/ /\ redis'[k].remaining = 0 /\ redis'[k].reset >= x + Window
                 /\ redis'[k].expiry >= x + Window \/ redis'[k].expiry > MaxTime
         /\ Lasts(k, x + Window) \/ Alive(k) =>
              redis'[k].expiry >= x + Window \/ redis'[k].expiry > MaxTime
<1>1. /\ redis'[k].remaining = redis[k].remaining /\ redis'[k].reset = redis[k].reset
      /\ redis'[k].expiry = IF Alive(k) THEN now + TimeToLive(d) ELSE redis[k].expiry
  BY SetExpiryEffect
<1>2. TimeToLive(d) \in Nat /\ TimeToLive(d) >= Window /\ Window \in Nat /\ now \in Nat
  BY LivesLongEnough, KeyState, Durations
<1>3. Alive(k) => redis'[k].expiry >= x + Window
  BY <1>1, <1>2
<1> QED BY <1>1, <1>3 DEF HashHolds, Lasts

-----------------------------------------------------------------------------
(* One lemma per action.                                                    *)

\* Nothing at the route changes but the clock, and the worker is not there.
LEMMA WindowedAtRest ==
  ASSUME Paced, NEW w \in Workers, NEW k \in Keys, Windowed(w, k), ~At(w, k)',
         redis'[k] = redis[k], recent'[k] = recent[k], now' \in Nat, now' >= now
  PROVE  Windowed(w, k)'
<1>1. (Alive(k)' => Alive(k)) /\ ~Reading(w, k)'
  BY KeyState DEF Alive, Reading
<1>2. Stored(k)'
  BY <1>1 DEF Windowed, Stored
<1>3. CallsPast(w, k)'
  BY RecentState, KeyState DEF Windowed, CallsPast, Last
<1>4. FirstHolds(w, k)'
  BY RecentState, KeyState, HoldsWhenSame DEF Windowed, FirstHolds, HashHolds, Lasts
<1>5. LastSettles(w, k)'
  <2> SUFFICES ASSUME recent[k].last # NoCall PROVE Settles(w, k, Last(k) + Window)'
    BY DEF LastSettles
  <2>1. Last(k)' = Last(k) /\ Last(k) + Window \in Nat /\ Window' = Window
    BY RecentState DEF Last, Window
  <2>2. Settles(w, k, Last(k) + Window)
    BY DEF Windowed, LastSettles
  <2> QED BY <1>1, <2>1, <2>2, KeyState DEF Settles, Lasts, None
<1> QED BY <1>2, <1>3, <1>4, <1>5 DEF Windowed

LEMMA TickWindowed ==
  ASSUME Paced, NEW w \in Workers, NEW k \in Keys, Windowed(w, k), Tick \/ UNCHANGED vars
  PROVE  Windowed(w, k)'
<1>1. /\ redis' = redis /\ recent' = recent /\ pc' = pc /\ task' = task /\ asked' = asked
      /\ remaining' = remaining /\ reset' = reset /\ penalty' = penalty
      /\ now \in Nat /\ now' \in {now, now + 1} /\ Window' = Window
  BY KeyState DEF Tick, vars, local, history, Window
<1>2. /\ Alive(k)' => Alive(k)
      /\ At(w, k)' = At(w, k) /\ Reading(w, k)' = Reading(w, k) /\ Last(k)' = Last(k)
  BY <1>1, KeyState DEF Alive, At, Reading, Last
<1>3. Stored(k)'
  BY <1>1, <1>2 DEF Windowed, Stored
<1>4. CallsPast(w, k)'
  BY <1>1, <1>2, RecentState DEF Windowed, CallsPast
<1>5. \A t \in Nat : HashHolds(k, t) => HashHolds(k, t)'
  BY <1>1, HoldsWhenSame DEF HashHolds, Lasts
<1>6. \A t \in Nat : WorkerHolds(w, t) => WorkerHolds(w, t)'
  BY <1>1 DEF WorkerHolds
<1>7. FirstHolds(w, k)'
  <2> SUFFICES ASSUME recent[k].second # NoCall
               PROVE  /\ HashHolds(k, recent[k].second.asked + Window)'
                      /\ At(w, k) => WorkerHolds(w, recent[k].second.asked + Window)'
    BY <1>1, <1>2 DEF FirstHolds
  <2> DEFINE t == recent[k].second.asked + Window
  <2>1. t \in Nat /\ t' = t
    BY <1>1, RecentState
  <2>2. HashHolds(k, t) /\ (At(w, k) => WorkerHolds(w, t))
    BY DEF Windowed, FirstHolds
  <2> QED BY <1>1, <2>1, <2>2, HoldsWhenSame DEF HashHolds, Lasts, WorkerHolds
<1>8. LastSettles(w, k)'
  <2> SUFFICES ASSUME recent[k].last # NoCall PROVE Settles(w, k, Last(k) + Window)'
    BY <1>1 DEF LastSettles
  <2>1. Last(k) + Window \in Nat
    BY RecentState
  <2>2. Settles(w, k, Last(k) + Window)
    BY DEF Windowed, LastSettles
  <2> QED BY <1>1, <1>2, <2>1, <2>2, KeyState DEF Settles, Lasts, None
<1>9. At(w, k) => BucketRead(w, k)'
  BY <1>1, <1>2, RecentState DEF Windowed, BucketRead
<1>10. At(w, k) => BucketTaken(w, k)'
  <2>1. recent[k].last # NoCall /\ HashHolds(k, Last(k) + Window) => HashHolds(k, Last(k) + Window)'
    BY <1>1, <1>2, RecentState, HoldsWhenSame DEF HashHolds, Lasts
  <2> QED BY <1>1, <1>2, <2>1 DEF Windowed, BucketTaken, Lasts
<1> QED BY <1>2, <1>3, <1>4, <1>7, <1>8, <1>9, <1>10 DEF Windowed

LEMMA BeginWindowed ==
  ASSUME Paced, NEW w \in Workers, NEW k \in Keys, Windowed(w, k), Begin(w)
  PROVE  Windowed(w, k)'
<1>1. /\ now' = now /\ now \in Nat /\ redis' = redis /\ recent' = recent
      /\ pc'[w] = "readRemaining" /\ asked'[w] = now /\ ~At(w, k) /\ Window' = Window
  BY KeyState DEF Begin, Goto, history, At, Paced, TypeOK, Window
<1>2. Last(k)' = Last(k) /\ Alive(k)' = Alive(k)
  BY <1>1 DEF Last, Alive
<1>3. Stored(k)' /\ CallsPast(w, k)'
  <2>1. Stored(k)'
    BY <1>1, <1>2 DEF Windowed, Stored
  <2>2. CallsPast(w, k)'
    BY <1>1, <1>2, RecentState DEF Windowed, CallsPast, Penalizing
  <2> QED BY <2>1, <2>2
<1>4. FirstHolds(w, k)'
  BY <1>1 DEF Windowed, FirstHolds, HashHolds, Lasts, WorkerHolds
<1>5. LastSettles(w, k)'
  BY <1>1, <1>2 DEF Windowed, LastSettles, Settles, Lasts
<1>6. BucketRead(w, k)' /\ BucketTaken(w, k)'
  BY <1>1 DEF BucketRead, BucketTaken
<1> QED BY <1>3, <1>4, <1>5, <1>6 DEF Windowed

\* What a step of the worker at the route starts from.
LEMMA AtRoute ==
  ASSUME Paced, NEW w \in Workers, NEW k \in Keys, Windowed(w, k), At(w, k)
  PROVE  /\ Stored(k) /\ BucketRead(w, k) /\ BucketTaken(w, k)
         /\ recent[k].last # NoCall =>
              /\ Last(k) + Window \in Nat /\ Last(k) <= asked[w] /\ asked[w] <= now
              /\ Settles(w, k, Last(k) + Window)
         /\ recent[k].second # NoCall =>
              /\ recent[k].last # NoCall
              /\ recent[k].second.asked + Window \in Nat /\ recent[k].second.asked <= Last(k)
              /\ HashHolds(k, recent[k].second.asked + Window) /\ WorkerHolds(w, recent[k].second.asked + Window)
BY RecentState, WorkerState DEF Windowed, CallsPast, FirstHolds, LastSettles

\* The calls of the past stay where they are when only a worker moves.
LEMMA SameCalls ==
  ASSUME Paced, NEW w \in Workers, NEW k \in Keys, Windowed(w, k), At(w, k),
         recent'[k] = recent[k], now' = now, asked'[w] = asked[w] \/ ~At(w, k)',
         At(w, k)' => pc[w] \notin Penalizing \/ pc'[w] \in Penalizing
  PROVE  CallsPast(w, k)' /\ Last(k)' = Last(k) /\ Window' = Window
BY DEF Windowed, CallsPast, Last, Window, Penalizing

LEMMA AcquireFirstHolds ==
  ASSUME Paced, NEW w \in Workers, NEW k \in Keys, Windowed(w, k), At(w, k),
         ReadRemaining(w) \/ ReadReset(w) \/ Write(w)
  PROVE  FirstHolds(w, k)'
<1>1. now' = now /\ recent' = recent /\ Window' = Window
  BY DEF ReadRemaining, ReadReset, Write, history, Window
<1> SUFFICES ASSUME recent[k].second # NoCall
             PROVE  /\ HashHolds(k, recent[k].second.asked + Window)'
                    /\ WorkerHolds(w, recent[k].second.asked + Window)'
  BY <1>1 DEF FirstHolds
<1> QED BY <1>1, AtRoute, AcquireHolds DEF HashHolds, Lasts, WorkerHolds

LEMMA ReadRemainingWindowed ==
  ASSUME Paced, NEW w \in Workers, NEW k \in Keys, Windowed(w, k), At(w, k),
         ReadRemaining(w)
  PROVE  Windowed(w, k)'
<1>1. /\ now' = now /\ redis' = redis /\ recent' = recent /\ asked' = asked
      /\ pc[w] = "readRemaining" /\ pc'[w] = "readReset" /\ At(w, k)'
      /\ remaining'[w] = Hash(k).remaining
  BY DEF ReadRemaining, Goto, history, At, Paced, TypeOK
<1>2. CallsPast(w, k)' /\ Last(k)' = Last(k) /\ Window' = Window
  BY <1>1, SameCalls DEF Penalizing
<1>3. Alive(k)' = Alive(k) /\ (Reading(w, k) /\ Reading(w, k)')
  BY <1>1 DEF Alive, Reading
<1>4. Stored(k)'
  BY <1>1, <1>3, AtRoute DEF Stored
<1>5. FirstHolds(w, k)'
  BY AcquireFirstHolds
<1>6. LastSettles(w, k)'
  BY <1>1, <1>2, <1>3, AtRoute DEF LastSettles, Settles, Lasts
<1>7. BucketRead(w, k)' /\ BucketTaken(w, k)'
  <2>1. remaining'[w] # 1 /\ (remaining'[w] = None => ~Alive(k))
    BY <1>1, AtRoute, HashAlive DEF Stored, NoHash, None
  <2> QED BY <1>1, <1>3, <2>1 DEF BucketRead, BucketTaken
<1> QED BY <1>2, <1>4, <1>5, <1>6, <1>7 DEF Windowed

LEMMA ReadResetWindowed ==
  ASSUME Paced, NEW w \in Workers, NEW k \in Keys, Windowed(w, k), At(w, k), ReadReset(w)
  PROVE  Windowed(w, k)'
<1>1. /\ now' = now /\ redis' = redis /\ recent' = recent /\ asked' = asked
      /\ pc[w] = "readReset" /\ pc'[w] = "write" /\ At(w, k)'
      /\ remaining' = remaining /\ reset'[w] = Hash(k).reset
  BY DEF ReadReset, Goto, history, At, Paced, TypeOK
<1>2. CallsPast(w, k)' /\ Last(k)' = Last(k) /\ Window' = Window
  BY <1>1, SameCalls DEF Penalizing
<1>3. Alive(k)' = Alive(k) /\ (Reading(w, k) /\ Reading(w, k)')
  BY <1>1 DEF Alive, Reading
<1>4. Stored(k)'
  BY <1>1, <1>3, AtRoute DEF Stored
<1>5. FirstHolds(w, k)'
  BY AcquireFirstHolds
<1>6. LastSettles(w, k)'
  BY <1>1, <1>2, <1>3, AtRoute DEF LastSettles, Settles, Lasts
<1>7. BucketRead(w, k)' /\ BucketTaken(w, k)'
  <2>1. remaining[w] # 1 /\ (remaining[w] = None => ~Alive(k))
    BY <1>1, AtRoute DEF BucketRead
  <2>2. CASE Alive(k)
    <3>1. reset'[w] = redis[k].reset
      BY <1>1, <2>2, HashAlive
    <3>2. recent[k].last # NoCall => \/ now >= Last(k) + Window
                              \/ reset'[w] <= asked[w] \/ reset'[w] >= Last(k) + Window
      BY <1>3, <2>2, <3>1, AtRoute DEF Settles
    <3> QED BY <1>1, <1>2, <2>1, <2>2, <3>2 DEF BucketRead, BucketTaken
  <2>3. CASE ~Alive(k)
    <3>1. reset'[w] = None
      BY <1>1, <2>3, HashAlive DEF NoHash
    <3> QED BY <1>1, <2>1, <3>1 DEF BucketRead, BucketTaken
  <2> QED BY <2>2, <2>3
<1> QED BY <1>2, <1>4, <1>5, <1>6, <1>7 DEF Windowed

\* The bucket the worker takes from: it has a permit for a new window only.
LEMMA BucketComputed ==
  ASSUME Paced, NEW w \in Workers, NEW k \in Keys, Windowed(w, k), At(w, k), pc[w] = "write"
  PROVE  /\ CurrentRemaining(w) \in {0, 1} /\ Taken(CurrentRemaining(w)) = 0
         /\ NextReset(w) \in Nat
         /\ CurrentRemaining(w) = 1 => NextReset(w) = asked[w] + Window
         /\ recent[k].last # NoCall =>
              now >= Last(k) + Window \/ NextReset(w) >= Last(k) + Window
<1>1. /\ asked[w] \in Nat /\ Window \in Nat /\ remaining[w] \in {0, None}
      /\ reset[w] \in Nat \cup {None}
      /\ remaining[w] = None => reset[w] = None
  BY AtRoute, WorkerState, Durations DEF BucketRead
<1>2. CurrentRemaining(w) \in {0, 1} /\ NextReset(w) \in Nat
  BY <1>1 DEF CurrentRemaining, NextReset, ResetAt, DefaultLimit
<1>3. Taken(CurrentRemaining(w)) = 0
  BY <1>2 DEF Taken
<1>4. CurrentRemaining(w) = 1 => NextReset(w) = asked[w] + Window
  BY <1>1 DEF CurrentRemaining, NextReset, ResetAt
<1>5. NextReset(w) = asked[w] + Window
      \/ (reset[w] # None /\ NextReset(w) = reset[w] /\ reset[w] > asked[w])
  BY <1>1 DEF NextReset, ResetAt
<1>6. ASSUME recent[k].last # NoCall
      PROVE  now >= Last(k) + Window \/ NextReset(w) >= Last(k) + Window
  <2>1. Last(k) \in Nat /\ Last(k) <= asked[w]
    BY <1>6, AtRoute, RecentState
  <2>2. CASE NextReset(w) = asked[w] + Window
    BY <1>1, <2>1, <2>2
  <2>3. CASE reset[w] # None /\ NextReset(w) = reset[w] /\ reset[w] > asked[w]
    BY <1>1, <1>6, <2>3, AtRoute DEF BucketRead
  <2> QED BY <1>5, <2>2, <2>3
<1> QED BY <1>2, <1>3, <1>4, <1>6

LEMMA WriteWindowed ==
  ASSUME Paced, NEW w \in Workers, NEW k \in Keys, Windowed(w, k), At(w, k), Write(w)
  PROVE  Windowed(w, k)'
<1>1. /\ now' = now /\ recent' = recent /\ asked' = asked
      /\ pc[w] = "write" /\ pc'[w] = "expire" /\ At(w, k)' /\ now \in Nat /\ now <= MaxTime
      /\ remaining'[w] = CurrentRemaining(w) /\ reset'[w] = NextReset(w)
  BY WorkerState DEF Write, Goto, history, At, Paced, TypeOK
<1>2. CallsPast(w, k)' /\ Last(k)' = Last(k) /\ Window' = Window
  BY <1>1, SameCalls DEF Penalizing
<1>3. /\ redis'[k].remaining = 0 /\ redis'[k].reset = NextReset(w)
      /\ redis'[k].expiry = IF Alive(k) THEN redis[k].expiry ELSE Never
  BY <1>1, BucketComputed, SetHashEffect DEF Write, At
<1>4. Stored(k)'
  BY <1>1, <1>3, BucketComputed DEF Stored, None
<1>5. FirstHolds(w, k)'
  BY AcquireFirstHolds
<1>6. recent[k].last # NoCall => HashHolds(k, Last(k) + Window)'
  <2> SUFFICES ASSUME recent[k].last # NoCall, ~(now >= Last(k) + Window)
               PROVE  HashHolds(k, Last(k) + Window)'
    BY <1>1, <1>2 DEF HashHolds
  <2>1. redis'[k].reset >= Last(k) + Window
    BY <1>1, <1>3, BucketComputed
  <2>2. redis'[k].expiry >= Last(k) + Window \/ redis'[k].expiry > MaxTime
    <3>1. CASE Alive(k)
      BY <1>3, <3>1, AtRoute DEF Settles, Lasts
    <3>2. CASE ~Alive(k)
      BY <1>3, <3>2, Durations DEF Never
    <3> QED BY <3>1, <3>2
  <2> QED BY <1>2, <1>3, <2>1, <2>2 DEF HashHolds, Lasts
<1>7. LastSettles(w, k)'
  BY <1>1, <1>6 DEF LastSettles, HashHolds, Settles
<1>8. BucketRead(w, k)' /\ BucketTaken(w, k)'
  BY <1>1, <1>2, <1>3, <1>6, BucketComputed DEF BucketRead, BucketTaken
<1> QED BY <1>2, <1>4, <1>5, <1>7, <1>8 DEF Windowed

LEMMA ExpireWindowed ==
  ASSUME Paced, NEW w \in Workers, NEW k \in Keys, Windowed(w, k), At(w, k), Expire(w)
  PROVE  Windowed(w, k)'
<1>1. /\ now' = now /\ recent' = recent /\ asked' = asked /\ remaining' = remaining
      /\ reset' = reset /\ pc[w] = "expire" /\ pc'[w] = "call" /\ At(w, k)'
  BY DEF Expire, Goto, local, history, At, Paced, TypeOK
<1>2. CallsPast(w, k)' /\ Last(k)' = Last(k) /\ Window' = Window
  BY <1>1, SameCalls DEF Penalizing
<1>3. /\ SetExpiry(k, Window) /\ Window \in Nat
      /\ redis'[k].remaining = redis[k].remaining /\ redis'[k].reset = redis[k].reset
      /\ redis[k].remaining = 0 /\ redis[k].reset = reset[w] /\ reset[w] # None
      /\ ~Alive(k) => redis'[k] = redis[k]
  <2>1. SetExpiry(k, Window) /\ Window \in Nat /\ reset[w] # None
    BY Durations DEF Expire, At, Paced, TypeOK
  <2>2. redis[k].remaining = 0 /\ redis[k].reset = reset[w]
    BY <1>1, AtRoute DEF BucketTaken
  <2>3. ~Alive(k) => redis'[k] = redis[k]
    BY <2>1, HashAlive DEF SetExpiry
  <2> QED BY <2>1, <2>2, <2>3, SetExpiryEffect
<1>4. Stored(k)'
  BY <1>3 DEF Stored
<1>5. recent[k].last # NoCall => HashHolds(k, Last(k) + Window)'
  <2> SUFFICES ASSUME recent[k].last # NoCall PROVE HashHolds(k, Last(k) + Window)'
    OBVIOUS
  <2>1. HashHolds(k, Last(k) + Window)
    BY <1>1, AtRoute DEF BucketTaken
  <2>2. Last(k) \in Nat /\ Last(k) <= now
    BY RecentState, WorkerState DEF Windowed, CallsPast
  <2> QED BY <1>1, <1>2, <1>3, <2>1, <2>2, ExpiryHolds DEF HashHolds, Lasts
<1>6. FirstHolds(w, k)'
  <2> SUFFICES ASSUME recent[k].second # NoCall
               PROVE  /\ HashHolds(k, recent[k].second.asked + Window)'
                      /\ WorkerHolds(w, recent[k].second.asked + Window)'
    BY <1>1 DEF FirstHolds
  <2>1. /\ recent[k].last # NoCall /\ recent[k].second.asked \in Nat /\ recent[k].second.asked <= now
        /\ HashHolds(k, recent[k].second.asked + Window) /\ WorkerHolds(w, recent[k].second.asked + Window)
    BY AtRoute, RecentState, WorkerState
  <2>2. HashHolds(k, recent[k].second.asked + Window)'
    BY <1>1, <1>2, <1>3, <2>1, ExpiryHolds DEF HashHolds, Lasts
  <2>3. WorkerHolds(w, recent[k].second.asked + Window)'
    BY <1>1, <1>2, <2>1 DEF WorkerHolds
  <2> QED BY <2>2, <2>3
<1>7. LastSettles(w, k)'
  BY <1>1, <1>5 DEF LastSettles, HashHolds, Settles
<1>8. BucketRead(w, k)' /\ BucketTaken(w, k)'
  <2>1. ~Alive(k)' \/ Lasts(k, asked[w] + Window)'
    <3>1. CASE Alive(k)
      <4>1. redis'[k].expiry >= asked[w] + Window \/ redis'[k].expiry > MaxTime
        BY <1>3, <3>1, WorkerState, ExpiryHolds
      <4> QED BY <1>1, <1>2, <4>1 DEF Lasts
    <3>2. CASE ~Alive(k)
      BY <1>1, <1>3, <3>2 DEF Alive
    <3> QED BY <3>1, <3>2
  <2>2. remaining[w] = 1 => reset[w] = asked[w] + Window
    BY <1>1, AtRoute DEF BucketTaken
  <2> QED BY <1>1, <1>2, <1>3, <1>5, <2>1, <2>2 DEF BucketRead, BucketTaken
<1> QED BY <1>2, <1>4, <1>6, <1>7, <1>8 DEF Windowed

\* What a call that is answered leaves of the window: the worker took a permit for
\* a window that began when it asked, or waited for the reset of the bucket.
LEMMA AnswerSettles ==
  ASSUME Paced, NEW w \in Workers, NEW k \in Keys, Windowed(w, k), At(w, k), MayCall(w),
         NEW p, Answer(w, p), now' = now, redis' = redis, pc'[w] \in {"idle", "penalize"},
         asked'[w] = asked[w] \/ ~At(w, k)'
  PROVE  Stored(k)' /\ CallsPast(w, k)' /\ FirstHolds(w, k)' /\ LastSettles(w, k)'
<1> DEFINE t == asked[w] + Window
<1>1. /\ pc[w] = "call" /\ asked[w] \in Nat /\ asked[w] <= now /\ now \in Nat
      /\ reset[w] \in Nat \cup {None} /\ remaining[w] \in {0, 1, None} /\ Window' = Window
  BY WorkerState DEF MayCall, Window
<1>2. Stored(k)'
  BY <1>1, AtRoute DEF Stored, Alive
<1>3. CASE recent'[k] = NoCalls
  BY <1>2, <1>3 DEF NoCalls, CallsPast, FirstHolds, LastSettles
<1>4. CASE /\ recent'[k].last = [asked |-> asked[w], at |-> now]
           /\ recent'[k].last # NoCall
           /\ recent'[k].second = recent[k].last /\ recent'[k].third = recent[k].second
  <2>1. Last(k)' = asked[w]
    BY <1>4 DEF Last
  <2>2. recent'[k].last.at = now /\ recent'[k].second.asked = Last(k)
    BY <1>4 DEF Last
  <2>3. At(w, k)' => pc'[w] = "penalize" /\ asked'[w] = asked[w]
    BY DEF At
  <2>4. CallsPast(w, k)'
    <3>1. /\ recent[k].last # NoCall =>
               Last(k) <= recent[k].last.at /\ recent[k].last.at <= asked[w]
          /\ recent[k].second # NoCall =>
               recent[k].last # NoCall /\ recent[k].second.at <= Last(k)
      BY <1>1 DEF Windowed, CallsPast, Penalizing
    <3>2. /\ Last(k)' <= recent'[k].last.at /\ recent'[k].last.at <= now'
          /\ At(w, k)' => Last(k)' <= asked'[w] /\ pc'[w] \in Penalizing
      BY <1>1, <2>1, <2>2, <2>3 DEF Penalizing
    <3>3. recent'[k].second # NoCall =>
            /\ recent'[k].second.asked <= recent'[k].second.at
            /\ recent'[k].second.at <= Last(k)'
      BY <1>4, <2>1, <2>2, <3>1
    <3>4. recent'[k].third # NoCall =>
            recent'[k].second # NoCall /\ recent'[k].third.at <= recent'[k].second.asked
      BY <1>4, <2>2, <3>1
    <3> QED BY <1>4, <3>2, <3>3, <3>4 DEF CallsPast, Penalizing
  <2>5. FirstHolds(w, k)'
    <3>1. recent[k].last # NoCall => HashHolds(k, Last(k) + Window)
      BY <1>1, AtRoute DEF BucketTaken
    <3> QED BY <1>1, <1>4, <2>2, <3>1 DEF FirstHolds, HashHolds, Lasts, WorkerHolds
  <2>6. LastSettles(w, k)'
    <3>1. /\ redis[k].remaining = 0 /\ redis[k].reset = reset[w]
          /\ remaining[w] = 1 => reset[w] = t
          /\ ~Alive(k) \/ Lasts(k, t)
      BY <1>1, AtRoute DEF BucketTaken
    <3>2. reset[w] >= t \/ reset[w] <= now
      BY <1>1, <3>1, Durations DEF MayCall, Available, None
    <3>3. ~Reading(w, k)'
      BY DEF Reading
    <3> QED BY <1>1, <2>1, <3>1, <3>2, <3>3 DEF LastSettles, Settles, Alive, Lasts
  <2> QED BY <1>2, <2>4, <2>5, <2>6
<1> QED BY <1>3, <1>4, Answered

LEMMA CallWindowed ==
  ASSUME Paced, NEW w \in Workers, NEW k \in Keys, Windowed(w, k), At(w, k),
         Succeed(w) \/ Falter(w)
  PROVE  Windowed(w, k)'
<1>1. CASE Succeed(w)
  <2>1. /\ MayCall(w) /\ Answer(w, None) /\ now' = now /\ redis' = redis
        /\ pc'[w] = "idle" /\ ~At(w, k)'
    BY <1>1 DEF Succeed, Calls, LetGo, Goto, At, Paced, TypeOK
  <2> QED BY <2>1, AnswerSettles DEF Windowed
<1>2. CASE Falter(w)
  <2>1. PICK p \in Penalties : Answer(w, p) /\ penalty' = [penalty EXCEPT ![w] = p]
    BY <1>2 DEF Falter
  <2>2. /\ MayCall(w) /\ now' = now /\ redis' = redis /\ asked' = asked
        /\ pc'[w] = "penalize" /\ penalty'[w] = p
    BY <1>2, <2>1 DEF Falter, Calls, Goto, Paced, TypeOK
  <2>3. Stored(k)' /\ CallsPast(w, k)' /\ FirstHolds(w, k)' /\ LastSettles(w, k)'
    BY <2>1, <2>2, AnswerSettles
  <2>4. p \in Nat /\ Window \in Nat /\ Window' = Window
    BY TimeAssumption DEF Penalties, Window
  <2>5. recent'[k].last # NoCall => p >= Window
    <3>1. NoCalls.last = NoCall
      BY DEF NoCalls
    <3>2. recent'[k] = NoCalls \/ p \notin 0..(Window - 1)
      BY <2>1, Answered
    <3> QED BY <2>4, <3>1, <3>2
  <2>6. BucketRead(w, k)' /\ BucketTaken(w, k)'
    BY <2>2, <2>4, <2>5 DEF BucketRead, BucketTaken
  <2> QED BY <2>3, <2>6 DEF Windowed
<1> QED BY <1>1, <1>2

LEMMA RefuseWindowed ==
  ASSUME Paced, NEW w \in Workers, NEW k \in Keys, Windowed(w, k), At(w, k), Refuse(w)
  PROVE  Windowed(w, k)'
<1>1. /\ now' = now /\ redis' = redis /\ recent' = recent /\ asked' = asked
      /\ pc[w] = "call" /\ pc'[w] = "penalize" /\ penalty'[w] = Second /\ Window' = Window
  BY DEF Refuse, MayCall, Goto, history, Window, Paced, TypeOK
<1>2. CallsPast(w, k)' /\ Last(k)' = Last(k)
  BY <1>1, SameCalls DEF Penalizing
<1>3. Stored(k)'
  BY <1>1, AtRoute DEF Stored, Alive
<1>4. FirstHolds(w, k)'
  BY <1>1, AtRoute DEF FirstHolds, HashHolds, Lasts, WorkerHolds
<1>5. LastSettles(w, k)'
  <2>1. recent[k].last # NoCall => HashHolds(k, Last(k) + Window)
    BY <1>1, AtRoute DEF BucketTaken
  <2> QED BY <1>1, <1>2, <2>1 DEF LastSettles, Settles, HashHolds, Lasts
<1>6. BucketRead(w, k)' /\ BucketTaken(w, k)'
  BY <1>1, Durations DEF BucketRead, BucketTaken
<1> QED BY <1>2, <1>3, <1>4, <1>5, <1>6 DEF Windowed

\* A stored penalty of a window or more holds back what the calls before it do.
LEMMA PenalizeWindowed ==
  ASSUME Paced, NEW w \in Workers, NEW k \in Keys, Windowed(w, k), At(w, k), Penalize(w)
  PROVE  Windowed(w, k)'
<1>1. /\ now' = now /\ now \in Nat /\ recent' = recent /\ asked' = asked /\ penalty' = penalty
      /\ pc[w] = "penalize" /\ pc'[w] = "expirePenalty"
      /\ called[w] \in Nat /\ penalty[w] \in Nat
      /\ Window' = Window /\ Window \in Nat
  BY WorkerState, Durations DEF Penalize, Goto, local, history, Paced, TypeOK, Window
<1>2. CallsPast(w, k)' /\ Last(k)' = Last(k)
  BY <1>1, SameCalls DEF Penalizing
<1>3. /\ redis'[k].remaining = 0 /\ redis'[k].reset = called[w] + penalty[w]
      /\ redis'[k].expiry = IF Alive(k) THEN redis[k].expiry ELSE Never
      /\ ~Alive(k) => redis'[k].expiry > MaxTime
  BY Durations, SetHashEffect DEF Penalize, At, Never
<1>4. Stored(k)'
  BY <1>1, <1>3 DEF Stored, None
<1>5. recent[k].last # NoCall => /\ Last(k) \in Nat /\ Last(k) <= now
                                 /\ redis'[k].reset >= Last(k) + Window
  BY <1>1, <1>3, AtRoute, RecentState, WorkerState DEF BucketTaken
<1>6. FirstHolds(w, k)'
  <2> SUFFICES ASSUME recent[k].second # NoCall
               PROVE  /\ HashHolds(k, recent[k].second.asked + Window)'
                      /\ WorkerHolds(w, recent[k].second.asked + Window)'
    BY <1>1 DEF FirstHolds
  <2>1. /\ HashHolds(k, recent[k].second.asked + Window)
        /\ recent[k].second.asked \in Nat /\ recent[k].second.asked <= Last(k)
        /\ recent[k].last # NoCall
    BY AtRoute, RecentState
  <2>2. redis'[k].reset >= recent[k].second.asked + Window
    BY <1>1, <1>3, <1>5, <2>1, WorkerState
  <2> QED BY <1>1, <1>3, <2>1, <2>2 DEF HashHolds, Lasts, WorkerHolds
<1>7. LastSettles(w, k)'
  <2> SUFFICES ASSUME recent[k].last # NoCall PROVE Settles(w, k, Last(k) + Window)'
    BY <1>1 DEF LastSettles
  <2> DEFINE t == Last(k) + Window
  <2>1. now >= t \/ ~Alive(k) \/ Lasts(k, t)
    BY AtRoute DEF Settles
  <2> QED BY <1>1, <1>2, <1>3, <1>5, <2>1 DEF Settles, Alive, Lasts
<1>8. BucketRead(w, k)' /\ BucketTaken(w, k)'
  BY <1>1, AtRoute DEF BucketRead, BucketTaken
<1> QED BY <1>2, <1>4, <1>6, <1>7, <1>8 DEF Windowed

LEMMA ExpirePenaltyWindowed ==
  ASSUME Paced, NEW w \in Workers, NEW k \in Keys, Windowed(w, k), At(w, k),
         ExpirePenalty(w)
  PROVE  Windowed(w, k)'
<1>1. /\ now' = now /\ now \in Nat /\ recent' = recent /\ pc[w] = "expirePenalty"
      /\ pc'[w] = "idle" /\ ~At(w, k)' /\ ~Reading(w, k)' /\ penalty[w] \in Nat
      /\ Window' = Window
  BY WorkerState DEF ExpirePenalty, LetGo, Goto, At, Reading, Paced, TypeOK, Window
<1>2. CallsPast(w, k)' /\ Last(k)' = Last(k)
  BY <1>1, SameCalls DEF Penalizing
<1>3. /\ SetExpiry(k, penalty[w])
      /\ redis'[k].remaining = redis[k].remaining /\ redis'[k].reset = redis[k].reset
      /\ ~Alive(k) => redis'[k] = redis[k]
  BY <1>1, HashAlive, SetExpiryEffect DEF ExpirePenalty, At, SetExpiry
<1>4. Stored(k)'
  BY <1>1, <1>3, AtRoute DEF Stored, Alive
<1>5. FirstHolds(w, k)'
  <2> SUFFICES ASSUME recent[k].second # NoCall PROVE HashHolds(k, recent[k].second.asked + Window)'
    BY <1>1 DEF FirstHolds
  <2>1. /\ HashHolds(k, recent[k].second.asked + Window)
        /\ recent[k].second.asked \in Nat /\ recent[k].second.asked <= now
    BY AtRoute, RecentState, WorkerState
  <2> QED BY <1>1, <1>3, <2>1, ExpiryHolds DEF HashHolds, Lasts
<1>6. LastSettles(w, k)'
  <2> SUFFICES ASSUME recent[k].last # NoCall PROVE Settles(w, k, Last(k) + Window)'
    BY <1>1 DEF LastSettles
  <2>1. Settles(w, k, Last(k) + Window) /\ Last(k) \in Nat /\ Last(k) <= now
    BY AtRoute, RecentState, WorkerState
  <2>2. CASE Alive(k)
    <3>1. redis'[k].expiry >= Last(k) + Window \/ redis'[k].expiry > MaxTime
      BY <1>1, <1>3, <2>1, <2>2, ExpiryHolds
    <3> QED BY <1>1, <1>2, <1>3, <2>1, <2>2, <3>1 DEF Settles, Lasts
  <2>3. CASE ~Alive(k)
    BY <1>1, <1>3, <2>3 DEF Settles, Alive
  <2> QED BY <2>2, <2>3
<1> QED BY <1>1, <1>2, <1>4, <1>5, <1>6 DEF Windowed

LEMMA LeaveWindowed ==
  ASSUME Paced, NEW w \in Workers, NEW k \in Keys, Windowed(w, k), At(w, k),
         Fail(w) \/ Disrupt(w)
  PROVE  Windowed(w, k)'
<1>1. /\ now' = now /\ now \in Nat /\ redis' = redis /\ pc'[w] = "idle" /\ ~At(w, k)'
  BY KeyState DEF Fail, Disrupt, LetGo, Goto, At, Paced, TypeOK
<1>2. CASE UNCHANGED recent
  BY <1>1, <1>2, WindowedAtRest
<1>3. CASE Calls(w) /\ Answer(w, None)
  BY <1>1, <1>3, AnswerSettles DEF Calls, Windowed
<1> QED BY <1>2, <1>3 DEF Fail, Disrupt, history

LEMMA WindowStep == Paced /\ WindowInv /\ [Next]_vars => WindowInv'
<1> SUFFICES ASSUME Paced, WindowInv, [Next]_vars, OneWorker,
                    NEW w \in Workers, NEW k \in Keys
             PROVE  Windowed(w, k)'
  BY DEF WindowInv, OneWorker
<1>1. Workers = {w} /\ Windowed(w, k)
  BY DEF WindowInv, OneWorker
<1>2. CASE Tick \/ UNCHANGED vars
  BY <1>1, <1>2, TickWindowed
<1>3. CASE Step(w)
  <2>1. CASE Begin(w)
    BY <1>1, <2>1, BeginWindowed
  <2>2. CASE pc[w] # "idle" /\ k # Key(task[w])
    BY <1>1, <1>3, <2>2, Elsewhere, KeyState, WindowedAtRest
  <2>3. CASE pc[w] # "idle" /\ k = Key(task[w])
    <3>1. At(w, k)
      BY <2>3 DEF At
    <3>2. ~Begin(w)
      BY <2>3 DEF Begin
    <3> QED BY <1>1, <1>3, <3>1, <3>2, ReadRemainingWindowed, ReadResetWindowed,
               WriteWindowed, ExpireWindowed, CallWindowed, RefuseWindowed,
               PenalizeWindowed, ExpirePenaltyWindowed, LeaveWindowed DEF Step
  <2>4. pc[w] = "idle" => Begin(w)
    BY <1>3 DEF Step, ReadRemaining, ReadReset, Write, Expire, Succeed, Falter, Refuse,
       Penalize, ExpirePenalty, Fail, Disrupt, Calls, MayCall
  <2> QED BY <2>1, <2>2, <2>3, <2>4
<1> QED BY <1>1, <1>2, <1>3 DEF Next

LEMMA WindowInit == Init => WindowInv
<1> SUFFICES ASSUME Init, NEW w \in Workers, NEW k \in Keys PROVE Windowed(w, k)
  BY DEF WindowInv
<1>1. now = 0 /\ redis[k] = NoHash /\ recent[k] = NoCalls /\ ~At(w, k)
  BY DEF Init, At
<1> QED BY <1>1 DEF Windowed, Stored, CallsPast, FirstHolds, LastSettles, Alive, NoHash,
                     NoCalls

\* A worker that has a route to itself makes at most three calls there in a window,
\* whatever commands fail, whenever it dies and restarts, and however long the
\* penalties are (acquire, is_available, the sleep of handle_message): a window
\* passes between what a call was asked for and the next but one, and the call
\* before it was made by then.
THEOREM AtMostThreePerWindow == Spec => []ThreePerWindow
<1> DEFINE IInv == Paced /\ WindowInv
<1>1. Init => IInv
  BY PacedInit, WindowInit
<1>2. IInv /\ [Next]_vars => IInv'
  BY PacedStep, WindowStep
<1>3. IInv => ThreePerWindow
  <2> SUFFICES ASSUME IInv, OneWorker, NEW w \in Workers, MayCall(w),
                      recent[Key(task[w])].third # NoCall
               PROVE  now >= recent[Key(task[w])].third.at + Window
    BY DEF ThreePerWindow
  <2> DEFINE k == Key(task[w])
  <2>1. pc[w] = "call" /\ k \in Keys /\ At(w, k)
    BY WorkerState DEF MayCall, At
  <2>2. Windowed(w, k)
    BY <2>1 DEF WindowInv
  <2>3. /\ recent[k].second # NoCall
        /\ recent[k].third.at \in Nat /\ recent[k].third.at <= recent[k].second.asked
    BY <2>1, <2>2, RecentState DEF Windowed, CallsPast
  <2>4. /\ WorkerHolds(w, recent[k].second.asked + Window)
        /\ recent[k].second.asked \in Nat /\ recent[k].second.asked + Window \in Nat
    BY <2>1, <2>2, <2>3, AtRoute, RecentState
  <2>5. now >= recent[k].second.asked + Window
    BY <2>4, CallsWhenOver
  <2> QED BY <2>1, <2>3, <2>4, <2>5, WorkerState, Durations
<1> QED BY <1>1, <1>2, <1>3, PTL DEF Spec

=============================================================================
