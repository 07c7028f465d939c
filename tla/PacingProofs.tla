----------------------------- MODULE PacingProofs -----------------------------
(***************************************************************************)
(* Theorems about Pacing, for any number of workers, tasks and penalties.  *)
(***************************************************************************)
EXTENDS Pacing, TLAPS

-----------------------------------------------------------------------------
(* Facts about the data.                                                    *)

LEMMA Durations ==
  /\ Second \in Nat /\ Second > 0 /\ MaxTime \in Nat /\ MaxDisruptions \in Nat
  /\ Window = Second
  /\ \A p \in Penalties \cup {0} : p \in Nat
BY TimeAssumption DEF Window, Penalties

LEMMA WholeSeconds ==
  ASSUME NEW duration \in Nat
  PROVE  TimeToLive(duration) \in Nat /\ Served(duration) \in Nat
<1>1. duration \div Second \in Int /\ duration % Second \in 0..(Second - 1)
  BY Durations
<1>2. TimeToLive(duration) \in Nat
  <2>1. CASE duration \div Second > 0
    <3>1. duration \div Second \in Nat
      BY <1>1, <2>1
    <3> QED BY <2>1, <3>1, Durations DEF TimeToLive
  <2>2. CASE ~(duration \div Second > 0)
    BY <2>2, Durations DEF TimeToLive
  <2> QED BY <2>1, <2>2
<1>3. Served(duration) \in Nat
  <2>1. CASE duration < Second
    BY <2>1 DEF Served
  <2>2. CASE ~(duration < Second)
    BY <1>1, <2>2, Durations DEF Served
  <2> QED BY <2>1, <2>2
<1> QED BY <1>2, <1>3

LEMMA HashType ==
  ASSUME TypeOK, NEW k \in Keys
  PROVE  /\ Hash(k) \in RedisHash
         /\ Hash(k).reset \in {redis[k].reset, None}
BY DEF TypeOK, Hash, NoHash, None, RedisHash

LEMMA KeyInHand ==
  ASSUME NEW t \in Tasks
  PROVE  Key(t) \in Keys
BY DEF Keys

\* The two kinds of write leave a hash of the right type at every key.
LEMMA SetHashType ==
  ASSUME TypeOK, NEW k \in Keys, NEW left \in 0..DefaultLimit, NEW at \in Nat,
         SetHash(k, left, at)
  PROVE  /\ redis' \in [Keys -> RedisHash]
         /\ \A l \in Keys : redis'[l].reset \in {redis[l].reset, at}
<1>1. Never \in Nat
  BY Durations DEF Never
<1>2. Hash(k).expiry \in Nat
  BY HashType DEF RedisHash
<1> QED BY <1>1, <1>2 DEF SetHash, TypeOK, RedisHash

LEMMA SetExpiryType ==
  ASSUME TypeOK, NEW k \in Keys, NEW duration \in Nat, SetExpiry(k, duration)
  PROVE  /\ redis' \in [Keys -> RedisHash]
         /\ \A l \in Keys : redis'[l].reset = redis[l].reset
<1>1. now \in Nat
  BY Durations DEF TypeOK, Times
<1>2. now + TimeToLive(duration) \in Nat
  BY <1>1, WholeSeconds
<1> QED BY <1>2 DEF SetExpiry, TypeOK, RedisHash

-----------------------------------------------------------------------------
(* The invariant: every reset, in Redis or in a worker's hands, is at most  *)
(* a window or a penalty away, since whoever wrote it counted from a clock  *)
(* that was not ahead of now.                                               *)

Soon(t) == \E d \in {Window} \cup Penalties : t <= now + d

NoClockAhead ==
  \A w \in Workers :
    /\ asked[w] <= now /\ called[w] <= now
    /\ pc[w] \in {"penalize", "expirePenalty"} => asked[w] <= called[w]

ResetsSoon ==
  /\ \A k \in Keys : Soon(redis[k].reset)
  /\ \A w \in Workers : Soon(reset[w])

Paced == TypeOK /\ NoClockAhead /\ ResetsSoon

LEMMA LaterIsSooner ==
  ASSUME NEW t \in Int, NEW n \in Int, NEW m \in Int, NEW d \in Nat, t <= n + d, n <= m
  PROVE  t <= m + d
OBVIOUS

LEMMA PacedInit == Init => Paced
<1> SUFFICES ASSUME Init PROVE Paced
  OBVIOUS
<1>1. TypeOK
  <2>1. NoHash \in RedisHash
    BY DEF NoHash, RedisHash, None
  <2>2. 0 \in Times /\ 0 \in 0..MaxDisruptions
    BY Durations DEF Times
  <2>3. redis \in [Keys -> RedisHash]
    BY <2>1 DEF Init
  <2>4. /\ pc \in [Workers -> Labels] /\ task \in [Workers -> Tasks \cup {NoTask}]
        /\ now \in Times /\ asked \in [Workers -> Times] /\ called \in [Workers -> Times]
        /\ disruptions \in 0..MaxDisruptions
    BY <2>2 DEF Init, Labels
  <2>5. /\ remaining \in [Workers -> 0..DefaultLimit \cup {None}]
        /\ reset \in [Workers -> Nat \cup {None}]
        /\ penalty \in [Workers -> Penalties \cup {0}]
        /\ owed \in [Keys -> Nat]
    BY DEF Init
  <2>6. recent \in [Keys -> [last : Call, second : Call, third : Call]]
    BY DEF Init, NoCalls, Call
  <2>7. \A w \in Workers : pc[w] = "idle"
    BY DEF Init
  <2> QED BY <2>2, <2>3, <2>4, <2>5, <2>6, <2>7 DEF TypeOK
<1>2. NoClockAhead
  BY DEF Init, NoClockAhead
<1>3. ResetsSoon
  BY Durations DEF Init, ResetsSoon, Soon, NoHash, None
<1> QED BY <1>1, <1>2, <1>3 DEF Paced

-----------------------------------------------------------------------------
(* One step per action.                                                     *)

LEMMA LetGoType ==
  ASSUME TypeOK, NEW w \in Workers, LetGo(w)
  PROVE  /\ pc' \in [Workers -> Labels] /\ task' \in [Workers -> Tasks \cup {NoTask}]
         /\ asked' \in [Workers -> Times] /\ called' \in [Workers -> Times]
         /\ remaining' \in [Workers -> 0..DefaultLimit \cup {None}]
         /\ reset' \in [Workers -> Nat \cup {None}]
         /\ penalty' \in [Workers -> Penalties \cup {0}]
         /\ \A v \in Workers :
              /\ pc'[v] # "idle" => task'[v] \in Tasks
              /\ pc'[v] \in {"expire", "call"} => remaining'[v] # None /\ reset'[v] # None
         /\ \A v \in Workers :
              /\ asked'[v] \in {asked[v], 0} /\ reset'[v] \in {reset[v], None}
              /\ called'[v] \in {called[v], 0}
              /\ pc'[v] # "idle" =>
                   pc'[v] = pc[v] /\ asked'[v] = asked[v] /\ called'[v] = called[v]
<1>1. 0 \in Times
  BY Durations DEF Times
<1> QED BY <1>1 DEF TypeOK, LetGo, Goto, Labels

LEMMA LetGoPaced ==
  ASSUME Paced, NEW w \in Workers, LetGo(w), now' = now
  PROVE  NoClockAhead' /\ \A v \in Workers : Soon(reset[v])'
<1>1. TypeOK /\ now \in Nat
  BY Durations DEF Paced, TypeOK, Times
<1>2. \A v \in Workers :
        /\ asked'[v] \in {asked[v], 0} /\ reset'[v] \in {reset[v], None}
        /\ called'[v] \in {called[v], 0}
        /\ pc'[v] # "idle" => pc'[v] = pc[v] /\ asked'[v] = asked[v] /\ called'[v] = called[v]
  BY <1>1, LetGoType
<1>3. NoClockAhead'
  BY <1>1, <1>2 DEF Paced, NoClockAhead
<1>4. \A v \in Workers : Soon(reset[v])'
  <2> SUFFICES ASSUME NEW v \in Workers PROVE Soon(reset[v])'
    OBVIOUS
  <2>1. CASE reset'[v] = reset[v]
    BY <2>1 DEF Paced, ResetsSoon, Soon, Window, Penalties
  <2>2. CASE reset'[v] = None
    <3>1. None <= now + Window
      BY <1>1, Durations DEF None
    <3> QED BY <2>2, <3>1 DEF Soon
  <2> QED BY <1>2, <2>1, <2>2
<1> QED BY <1>3, <1>4

LEMMA TickPaced == Paced /\ Tick => Paced'
<1> SUFFICES ASSUME Paced, Tick PROVE Paced'
  OBVIOUS
<1>1. TypeOK /\ now \in Nat /\ now' = now + 1 /\ now' \in Times
  BY Durations DEF Paced, TypeOK, Times, Tick
<1>2. TypeOK'
  BY <1>1 DEF TypeOK, Tick, local, history
<1>3. NoClockAhead'
  BY <1>1 DEF Paced, NoClockAhead, Tick, local, TypeOK, Times
<1>4. ResetsSoon'
  <2>1. ASSUME NEW k \in Keys PROVE Soon(redis[k].reset)'
    <3>1. redis[k].reset \in Int
      BY <1>1 DEF TypeOK, RedisHash, None
    <3>2. Soon(redis[k].reset)
      BY DEF Paced, ResetsSoon
    <3>3. \E d \in {Window} \cup Penalties : redis[k].reset <= now' + d
      BY <1>1, <3>1, <3>2, LaterIsSooner, Durations DEF Soon
    <3> QED BY <3>3 DEF Soon, Tick, Window, Penalties
  <2>2. ASSUME NEW w \in Workers PROVE Soon(reset[w])'
    <3>1. reset[w] \in Int
      BY <1>1 DEF TypeOK, None
    <3>2. Soon(reset[w])
      BY DEF Paced, ResetsSoon
    <3>3. \E d \in {Window} \cup Penalties : reset[w] <= now' + d
      BY <1>1, <3>1, <3>2, LaterIsSooner, Durations DEF Soon
    <3> QED BY <3>3 DEF Soon, Tick, local, Window, Penalties
  <2> QED BY <2>1, <2>2 DEF ResetsSoon
<1> QED BY <1>2, <1>3, <1>4 DEF Paced

\* The bucket a worker computes is of the right type, and its reset is soon.
LEMMA BucketSoon ==
  ASSUME Paced, NEW w \in Workers
  PROVE  /\ CurrentRemaining(w) \in 0..DefaultLimit /\ CurrentRemaining(w) # None
         /\ Taken(CurrentRemaining(w)) \in 0..DefaultLimit
         /\ NextReset(w) \in Nat
         /\ Soon(NextReset(w))
<1>1. /\ asked[w] \in Nat /\ asked[w] <= now /\ now \in Nat
      /\ remaining[w] \in 0..DefaultLimit \cup {None} /\ reset[w] \in Nat \cup {None}
      /\ Soon(reset[w])
  BY Durations DEF Paced, TypeOK, NoClockAhead, ResetsSoon, Times
<1>2. CurrentRemaining(w) \in 0..DefaultLimit
  BY <1>1 DEF CurrentRemaining, DefaultLimit, None
<1>3. Taken(CurrentRemaining(w)) \in 0..DefaultLimit
  BY <1>2 DEF Taken, DefaultLimit
<1>4. asked[w] + Window \in Nat /\ Soon(asked[w] + Window)
  BY <1>1, Durations DEF Soon
<1>5. NextReset(w) \in Nat /\ Soon(NextReset(w))
  BY <1>1, <1>4 DEF NextReset, ResetAt
<1> QED BY <1>2, <1>3, <1>5 DEF None

\* What is left of Paced when neither the clock nor Redis changes, and a worker
\* has no new reset that is not soon.
LEMMA StillSoon ==
  ASSUME Paced, now' = now,
         \A k \in Keys : redis'[k].reset = redis[k].reset \/ Soon(redis'[k].reset),
         \A v \in Workers : reset'[v] = reset[v] \/ Soon(reset'[v])
  PROVE  ResetsSoon'
<1>1. ASSUME NEW k \in Keys PROVE Soon(redis[k].reset)'
  <2>1. Soon(redis'[k].reset)
    BY DEF Paced, ResetsSoon
  <2> QED BY <2>1 DEF Soon, Window, Penalties
<1>2. ASSUME NEW v \in Workers PROVE Soon(reset[v])'
  <2>1. Soon(reset'[v])
    BY DEF Paced, ResetsSoon
  <2> QED BY <2>1 DEF Soon, Window, Penalties
<1> QED BY <1>1, <1>2 DEF ResetsSoon

LEMMA NoneSoon ==
  ASSUME Paced
  PROVE  Soon(None)
<1>1. now \in Nat /\ Window \in Nat
  BY Durations DEF Paced, TypeOK, Times
<1>2. None <= now + Window
  BY <1>1 DEF None
<1> QED BY <1>2 DEF Soon

LEMMA BeginPaced ==
  ASSUME Paced, NEW w \in Workers, Begin(w)
  PROVE  Paced'
<1>1. TypeOK' /\ NoClockAhead'
  <2>1. TypeOK'
    BY DEF Begin, Goto, Paced, TypeOK, Labels, history
  <2>2. NoClockAhead'
    <3>1. now \in Nat
      BY Durations DEF Paced, TypeOK, Times
    <3> QED BY <3>1 DEF Begin, Goto, NoClockAhead, Paced, TypeOK
  <2> QED BY <2>1, <2>2
<1>2. ResetsSoon'
  BY StillSoon DEF Begin
<1> QED BY <1>1, <1>2 DEF Paced

LEMMA ReadPaced ==
  ASSUME Paced, NEW w \in Workers, ReadRemaining(w) \/ ReadReset(w)
  PROVE  Paced'
<1>1. pc[w] # "idle"
  BY DEF ReadRemaining, ReadReset
<1>2. Key(task[w]) \in Keys
  BY <1>1, KeyInHand DEF Paced, TypeOK
<1>3. /\ Hash(Key(task[w])).remaining \in 0..DefaultLimit \cup {None}
      /\ Hash(Key(task[w])).reset \in Nat \cup {None}
      /\ Hash(Key(task[w])).reset \in {redis[Key(task[w])].reset, None}
  BY <1>2, HashType DEF Paced, RedisHash
<1>4. Soon(Hash(Key(task[w])).reset)
  BY <1>2, <1>3, NoneSoon DEF Paced, ResetsSoon
<1>5. CASE ReadRemaining(w)
  <2>1. TypeOK'
    BY <1>3, <1>5 DEF ReadRemaining, Goto, Paced, TypeOK, Labels, history
  <2>2. NoClockAhead'
    BY <1>5 DEF ReadRemaining, Goto, NoClockAhead, Paced, TypeOK
  <2>3. ResetsSoon'
    BY <1>5, StillSoon DEF ReadRemaining
  <2> QED BY <2>1, <2>2, <2>3 DEF Paced
<1>6. CASE ReadReset(w)
  <2>1. TypeOK'
    BY <1>3, <1>6 DEF ReadReset, Goto, Paced, TypeOK, Labels, history
  <2>2. NoClockAhead'
    BY <1>6 DEF ReadReset, Goto, NoClockAhead, Paced, TypeOK
  <2>3. ResetsSoon'
    BY <1>4, <1>6, StillSoon DEF ReadReset, Paced, TypeOK
  <2> QED BY <2>1, <2>2, <2>3 DEF Paced
<1> QED BY <1>5, <1>6

LEMMA WritePaced ==
  ASSUME Paced, NEW w \in Workers, Write(w)
  PROVE  Paced'
<1>1. Key(task[w]) \in Keys
  BY KeyInHand DEF Write, Paced, TypeOK
<1>2. /\ redis' \in [Keys -> RedisHash]
      /\ \A k \in Keys : redis'[k].reset \in {redis[k].reset, NextReset(w)}
  BY <1>1, BucketSoon, SetHashType DEF Write, Paced
<1>3. TypeOK'
  BY <1>2, BucketSoon DEF Write, Goto, Paced, TypeOK, Labels, history, None
<1>4. NoClockAhead'
  BY DEF Write, Goto, NoClockAhead, Paced, TypeOK
<1>5. ResetsSoon'
  BY <1>2, BucketSoon, StillSoon DEF Write, Paced, TypeOK
<1> QED BY <1>3, <1>4, <1>5 DEF Paced

LEMMA ExpirePaced ==
  ASSUME Paced, NEW w \in Workers, Expire(w)
  PROVE  Paced'
<1>1. Key(task[w]) \in Keys /\ Window \in Nat
  BY KeyInHand, Durations DEF Expire, Paced, TypeOK
<1>2. redis' \in [Keys -> RedisHash] /\ \A k \in Keys : redis'[k].reset = redis[k].reset
  BY <1>1, SetExpiryType DEF Expire, Paced
<1>3. TypeOK'
  BY <1>2 DEF Expire, Goto, Paced, TypeOK, Labels, local, history
<1>4. NoClockAhead'
  BY DEF Expire, Goto, NoClockAhead, Paced, TypeOK, local
<1>5. ResetsSoon'
  BY <1>2, StillSoon DEF Expire, local
<1> QED BY <1>3, <1>4, <1>5 DEF Paced

LEMMA CallsType ==
  ASSUME Paced, NEW w \in Workers, NEW p, Key(task[w]) \in Keys, Answer(w, p)
  PROVE  recent' \in [Keys -> [last : Call, second : Call, third : Call]]
<1> DEFINE k == Key(task[w])
           call == [asked |-> asked[w], at |-> now]
           record == [last |-> call, second |-> recent[k].last, third |-> recent[k].second]
<1>1. recent \in [Keys -> [last : Call, second : Call, third : Call]]
  BY DEF Paced, TypeOK
<1>2. call \in Call /\ NoCall \in Call
  BY DEF Paced, TypeOK, Call
<1>3. record \in [last : Call, second : Call, third : Call]
  BY <1>1, <1>2
<1>4. NoCalls \in [last : Call, second : Call, third : Call]
  BY <1>2 DEF NoCalls
<1>5. recent' = [recent EXCEPT ![k] = IF p \in 0..(Window - 1) THEN NoCalls ELSE record]
  BY <1>1 DEF Answer
<1> HIDE DEF record
<1> QED BY <1>1, <1>3, <1>4, <1>5

LEMMA SucceedPaced ==
  ASSUME Paced, NEW w \in Workers, Succeed(w)
  PROVE  Paced'
<1>1. Key(task[w]) \in Keys
  BY KeyInHand DEF Succeed, Calls, MayCall, Paced, TypeOK
<1>2. TypeOK'
  BY <1>1, CallsType, LetGoType DEF Succeed, Paced, TypeOK
<1>3. NoClockAhead' /\ ResetsSoon'
  BY LetGoType, LetGoPaced, NoneSoon, StillSoon DEF Succeed, Paced
<1> QED BY <1>2, <1>3 DEF Paced

LEMMA FalterPaced ==
  ASSUME Paced, NEW w \in Workers, Falter(w)
  PROVE  Paced'
<1>1. Key(task[w]) \in Keys
  BY KeyInHand DEF Falter, Calls, MayCall, Paced, TypeOK
<1>2. TypeOK'
  BY <1>1, CallsType DEF Falter, Calls, MayCall, Goto, Paced, TypeOK, Labels
<1>3. NoClockAhead'
  BY Durations DEF Falter, Goto, NoClockAhead, Paced, TypeOK, Times
<1>4. ResetsSoon'
  BY StillSoon DEF Falter
<1> QED BY <1>2, <1>3, <1>4 DEF Paced

LEMMA RefusePaced ==
  ASSUME Paced, NEW w \in Workers, Refuse(w)
  PROVE  Paced'
<1>1. TypeOK'
  BY DEF Refuse, MayCall, Goto, Paced, TypeOK, Labels, history, Penalties
<1>2. NoClockAhead'
  BY Durations DEF Refuse, Goto, NoClockAhead, Paced, TypeOK, Times
<1>3. ResetsSoon'
  BY StillSoon DEF Refuse
<1> QED BY <1>1, <1>2, <1>3 DEF Paced

LEMMA PenalizePaced ==
  ASSUME Paced, NEW w \in Workers, Penalize(w)
  PROVE  Paced'
<1>1. /\ Key(task[w]) \in Keys /\ now \in Nat
      /\ called[w] \in Nat /\ called[w] <= now
  BY KeyInHand, Durations DEF Penalize, Paced, TypeOK, Times, NoClockAhead
<1>2. penalty[w] \in Nat /\ called[w] + penalty[w] \in Nat /\ Soon(called[w] + penalty[w])
  <2>1. penalty[w] \in Penalties \cup {0}
    BY DEF Paced, TypeOK
  <2>2. CASE penalty[w] \in Penalties
    BY <1>1, <2>2, Durations DEF Soon
  <2>3. CASE penalty[w] = 0
    <3>1. called[w] + 0 = called[w] /\ called[w] <= now + Window
      BY <1>1, Durations
    <3> QED BY <1>1, <2>3, <3>1 DEF Soon
  <2> QED BY <2>1, <2>2, <2>3
<1>3. /\ redis' \in [Keys -> RedisHash]
      /\ \A k \in Keys : redis'[k].reset \in {redis[k].reset, called[w] + penalty[w]}
  <2>1. 0 \in 0..DefaultLimit
    BY DEF DefaultLimit
  <2> QED BY <1>1, <1>2, <2>1, SetHashType DEF Penalize, Paced
<1>4. TypeOK'
  BY <1>3 DEF Penalize, Goto, Paced, TypeOK, Labels, local, history
<1>5. NoClockAhead'
  BY DEF Penalize, Goto, NoClockAhead, Paced, TypeOK, local
<1>6. ResetsSoon'
  BY <1>2, <1>3, StillSoon DEF Penalize, local
<1> QED BY <1>4, <1>5, <1>6 DEF Paced

LEMMA ExpirePenaltyPaced ==
  ASSUME Paced, NEW w \in Workers, ExpirePenalty(w)
  PROVE  Paced'
<1>1. Key(task[w]) \in Keys /\ penalty[w] \in Nat /\ called[w] \in Nat
  <2>1. task[w] \in Tasks /\ penalty[w] \in Penalties \cup {0} /\ called[w] \in Times
    BY DEF ExpirePenalty, Paced, TypeOK
  <2> QED BY <2>1, KeyInHand, Durations DEF Times
<1>2. redis' \in [Keys -> RedisHash] /\ \A k \in Keys : redis'[k].reset = redis[k].reset
  BY <1>1, SetExpiryType DEF ExpirePenalty, Paced
<1>3. called[w] + Served(penalty[w]) \in Nat
  BY <1>1, WholeSeconds
<1>4. owed' \in [Keys -> Nat]
  BY <1>1, <1>3 DEF ExpirePenalty, Paced, TypeOK
<1>5. TypeOK'
  BY <1>2, <1>4, LetGoType DEF ExpirePenalty, Paced, TypeOK
<1>6. NoClockAhead' /\ ResetsSoon'
  BY <1>2, LetGoType, LetGoPaced, NoneSoon, StillSoon DEF ExpirePenalty, Paced
<1> QED BY <1>5, <1>6 DEF Paced

LEMMA FailPaced ==
  ASSUME Paced, NEW w \in Workers, Fail(w) \/ Disrupt(w)
  PROVE  Paced'
<1>1. recent' \in [Keys -> [last : Call, second : Call, third : Call]]
  <2>1. CASE UNCHANGED recent
    BY <2>1 DEF Paced, TypeOK
  <2>2. CASE Calls(w) /\ Answer(w, None)
    <3>1. Key(task[w]) \in Keys
      BY <2>2, KeyInHand DEF Calls, MayCall, Paced, TypeOK
    <3> QED BY <2>2, <3>1, CallsType
  <2> QED BY <2>1, <2>2 DEF Fail, Disrupt, history
<1>2. TypeOK'
  BY <1>1, LetGoType, Durations DEF Fail, Disrupt, Paced, TypeOK, history
<1>3. NoClockAhead' /\ ResetsSoon'
  BY LetGoType, LetGoPaced, NoneSoon, StillSoon DEF Fail, Disrupt, Paced
<1> QED BY <1>2, <1>3 DEF Paced

LEMMA PacedStep == Paced /\ [Next]_vars => Paced'
<1> SUFFICES ASSUME Paced, [Next]_vars PROVE Paced'
  OBVIOUS
<1>1. CASE Tick
  BY <1>1, TickPaced
<1>2. ASSUME NEW w \in Workers, Step(w) PROVE Paced'
  BY <1>2, BeginPaced, ReadPaced, WritePaced, ExpirePaced, SucceedPaced, FalterPaced,
     RefusePaced, PenalizePaced, ExpirePenaltyPaced, FailPaced DEF Step
<1>3. CASE UNCHANGED vars
  <2>1. TypeOK'
    BY <1>3 DEF vars, local, history, Paced, TypeOK
  <2>2. NoClockAhead'
    BY <1>3 DEF vars, local, Paced, NoClockAhead
  <2>3. ResetsSoon'
    BY <1>3, StillSoon DEF vars, local
  <2> QED BY <2>1, <2>2, <2>3 DEF Paced
<1> QED BY <1>1, <1>2, <1>3 DEF Next

-----------------------------------------------------------------------------

\* Every reachable state of the pacing is well typed (acquire, update_retry_after).
THEOREM PacingTypeCorrect == Spec => []TypeOK
<1>1. Paced => TypeOK
  BY DEF Paced
<1> QED BY <1>1, PacedInit, PacedStep, PTL DEF Spec

\* However many workers are at a route, and whatever they write between each
\* other's reads and writes, no worker sleeps longer than a window or the longest
\* penalty (acquire, update_retry_after, the sleep of handle_message).
THEOREM WaitIsBounded == Spec => []WaitBounded
<1>1. Paced => WaitBounded
  BY DEF Paced, ResetsSoon, Soon, WaitBounded
<1> QED BY <1>1, PacedInit, PacedStep, PTL DEF Spec

-----------------------------------------------------------------------------
(* Routes.                                                                  *)

LEMMA AllParse ==
  ASSUME NEW raws, Parse(raws) = "ok", NEW i \in DOMAIN raws
  PROVE  Verdict(raws[i]) = "ok"
BY DEF Parse

\* An id that parses is there, and its spelling names it.
LEMMA SpelledNames ==
  ASSUME NEW a \in RawIds \cup {Missing}, NEW b \in RawIds \cup {Missing},
         Verdict(a) = "ok", Verdict(b) = "ok", Spelled(a) = Spelled(b)
  PROVE  a = b
BY RawIdsAssumption DEF Verdict, Spelled

LEMMA NeededParse ==
  ASSUME NEW t \in DiscordTask, ExecuteVerdict(t) = "ok"
  PROVE  /\ t.type \in KnownTypes
         /\ t.type = "delete_message" => Verdict(t.channel) = "ok"
         /\ t.type \in RoleTypes => Verdict(t.role) = "ok"
<1>1. t.type \in KnownTypes /\ Parse(IdsNeeded(t)) = "ok"
  BY DEF ExecuteVerdict
<1>2. ASSUME t.type = "delete_message" PROVE Verdict(t.channel) = "ok"
  <2>1. IdsNeeded(t) = <<t.channel, t.target>>
    BY <1>2 DEF IdsNeeded, RoleTypes
  <2>2. 1 \in DOMAIN IdsNeeded(t) /\ IdsNeeded(t)[1] = t.channel
    BY <2>1
  <2> QED BY <1>1, <2>2, AllParse
<1>3. ASSUME t.type \in RoleTypes PROVE Verdict(t.role) = "ok"
  <2>1. IdsNeeded(t) = <<t.guild, t.target, t.role>>
    BY <1>3 DEF IdsNeeded, RoleTypes
  <2>2. 3 \in DOMAIN IdsNeeded(t) /\ IdsNeeded(t)[3] = t.role
    BY <2>1
  <2> QED BY <1>1, <2>2, AllParse
<1> QED BY <1>1, <1>2, <1>3

\* Tasks that Discord is asked to perform and that are paced together name one
\* resource, though the route has the ids of the context as they are spelled and
\* the request has what they parse to: no action waits for the penalty of another
\* target (preview_task, execute_task).
THEOREM RouteNamesResource ==
  ASSUME NEW a \in DiscordTask, NEW b \in DiscordTask,
         ExecuteVerdict(a) = "ok", ExecuteVerdict(b) = "ok", Route(a) = Route(b)
  PROVE  Resource(a) = Resource(b)
<1> USE DEF BanTypes, RoleTypes, KnownTypes
<1> DEFINE Ban(t) == t.type \in BanTypes
           Kick(t) == t.type = "kick"
           Message(t) == t.type = "delete_message"
           OfRole(t) == t.type \in RoleTypes
<1>1. \A t \in {a, b} : Ban(t) \/ Kick(t) \/ Message(t) \/ OfRole(t)
  BY NeededParse
<1>2. CASE Ban(a)
  <2>1. Route(a) = <<"guilds", ValueOf[a.guild], "bans", ValueOf[a.target]>>
    BY <1>2 DEF Route
  <2>2. Ban(b)
    BY <1>1, <2>1 DEF Route
  <2>3. ValueOf[a.guild] = ValueOf[b.guild] /\ ValueOf[a.target] = ValueOf[b.target]
    BY <2>1, <2>2 DEF Route
  <2> QED BY <1>2, <2>2, <2>3 DEF Resource, IdsNeeded
<1>3. CASE Kick(a)
  <2>1. Route(a) = <<"guilds", ValueOf[a.guild], "members", ValueOf[a.target]>>
    BY <1>3 DEF Route
  <2>2. Kick(b)
    BY <1>1, <2>1 DEF Route
  <2>3. ValueOf[a.guild] = ValueOf[b.guild] /\ ValueOf[a.target] = ValueOf[b.target]
    BY <2>1, <2>2 DEF Route
  <2> QED BY <1>3, <2>2, <2>3 DEF Resource, IdsNeeded
<1>4. CASE Message(a)
  <2>1. Route(a) = <<"channels", Spelled(a.channel), "messages", a.target>>
    BY <1>4 DEF Route
  <2>2. Message(b)
    BY <1>1, <2>1 DEF Route
  <2>3. Spelled(a.channel) = Spelled(b.channel) /\ a.target = b.target
    BY <2>1, <2>2 DEF Route
  <2>4. a.channel = b.channel
    BY <1>4, <2>2, <2>3, NeededParse, SpelledNames DEF DiscordTask
  <2> QED BY <1>4, <2>2, <2>3, <2>4 DEF Resource, IdsNeeded
<1>5. CASE OfRole(a)
  <2>1. Route(a) = <<"guilds", ValueOf[a.guild], "members", ValueOf[a.target], "roles",
                     Spelled(a.role)>>
    BY <1>5 DEF Route
  <2>2. OfRole(b)
    BY <1>1, <2>1 DEF Route
  <2>3. /\ ValueOf[a.guild] = ValueOf[b.guild] /\ ValueOf[a.target] = ValueOf[b.target]
        /\ Spelled(a.role) = Spelled(b.role)
    BY <2>1, <2>2 DEF Route
  <2>4. a.role = b.role
    BY <1>5, <2>2, <2>3, NeededParse, SpelledNames DEF DiscordTask
  <2> QED BY <1>5, <2>2, <2>3, <2>4 DEF Resource, IdsNeeded
<1> QED BY <1>1, <1>2, <1>3, <1>4, <1>5

=============================================================================
