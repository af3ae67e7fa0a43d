---------------------------- MODULE LocalProofs ----------------------------
(***************************************************************************)
(* Theorems about the API with the in-memory backend, for any number of    *)
(* addresses, tasks, faults and crashes, any burst, and any capacity.      *)
(*                                                                         *)
(* The limiter comes first: every step of RateLimiter is one of            *)
(* TokenBucket, where the budget is easy to see (what was granted and what *)
(* is in the bucket came from the burst and the time that passed), so that *)
(* the limiter inherits it.                                                *)
(***************************************************************************)
EXTENDS LocalApi, FiniteSetTheorems, TLAPS

\* What was let through since From, and what could be let through now, stays
\* within the budget.
BudgetInv ==
  \A a \in Addrs :
    IF now < From THEN granted[a] = 0
    ELSE granted[a] + Available(a) <= Burst + (now - From)

LimiterInv == LimiterTypeOK /\ BudgetInv

\* An entry holds a number of tokens, as long as it is in the map.
LEMMA AvailableType ==
  ASSUME LimiterTypeOK, NEW a \in Addrs
  PROVE  Available(a) \in 0..Burst
BY LimiterAssumption DEF LimiterTypeOK, Available, Refilled

----------------------------------------------------------------------------
(* Types.                                                                  *)

\* The limiter starts without entries.
LEMMA LimiterTypeInit == LimiterInit => LimiterTypeOK
BY LimiterAssumption DEF LimiterInit, LimiterTypeOK

\* Each step of the limiter keeps the types; no entry is from the future.
LEMMA LimiterTypeStep ==
  ASSUME LimiterTypeOK, [LimiterNext]_limiterVars
  PROVE  LimiterTypeOK'
<1> USE LimiterAssumption DEF LimiterTypeOK
<1>1. CASE Tick
  BY <1>1 DEF Tick
<1>2. CASE Cleanup
  BY <1>2 DEF Cleanup, Forget
<1>3. ASSUME NEW a \in Addrs, Allow(a) PROVE LimiterTypeOK'
  <2>1. Available(a) - 1 \in 0..Burst
    BY <1>3, AvailableType DEF Allow
  <2> QED BY <1>3, <2>1 DEF Allow
<1>4. ASSUME NEW a \in Addrs, Refuse(a) PROVE LimiterTypeOK'
  BY <1>4, AvailableType DEF Refuse
<1>5. CASE UNCHANGED limiterVars
  BY <1>5 DEF limiterVars
<1> QED BY <1>1, <1>2, <1>3, <1>4, <1>5 DEF LimiterNext

----------------------------------------------------------------------------
(* The refinement.                                                         *)

\* A bucket that nobody has used yet is full.
LEMMA BucketStarts == LimiterInit => Bucket!BucketInit
BY DEF LimiterInit, Bucket!BucketInit, Level, Available

\* What an address finds grows by one with the time, up to the burst.
LEMMA TickFills ==
  ASSUME LimiterTypeOK, Tick, NEW a \in Addrs
  PROVE  Available(a)' = IF Available(a) < Burst THEN Available(a) + 1 ELSE Burst
BY LimiterAssumption DEF LimiterTypeOK, Tick, Available, Refilled

\* An entry that is old enough to be forgotten is full, as a new one is.
LEMMA CleanupKeepsLevel ==
  ASSUME LimiterTypeOK, Cleanup, NEW a \in Addrs
  PROVE  Available(a)' = Available(a)
<1> DEFINE gone == {b \in known : now - last[b] > IdleLimit}
<1>1. /\ known' = known \ gone
      /\ tokens' = [b \in Addrs |-> IF b \in gone THEN 0 ELSE tokens[b]]
      /\ last' = [b \in Addrs |-> IF b \in gone THEN 0 ELSE last[b]]
      /\ now' = now
  BY DEF Cleanup, Forget
<1>2. CASE a \in gone
  <2>1. Available(a)' = Burst
    BY <1>1, <1>2 DEF Available
  <2>2. Available(a) = Burst
    BY <1>2, LimiterAssumption DEF LimiterTypeOK, Available, Refilled
  <2> QED BY <2>1, <2>2
<1>3. CASE a \notin gone
  BY <1>1, <1>3 DEF Available, Refilled
<1> QED BY <1>2, <1>3

\* A request changes the bucket of its own address only.
LEMMA OthersKeepLevel ==
  ASSUME LimiterTypeOK, NEW a \in Addrs, NEW b \in Addrs, a # b, Allow(a) \/ Refuse(a)
  PROVE  Available(b)' = Available(b)
BY DEF LimiterTypeOK, Allow, Refuse, Available, Refilled

\* One that is let through takes a token from what it finds.
LEMMA AllowTakes ==
  ASSUME LimiterTypeOK, NEW a \in Addrs, Allow(a)
  PROVE  Available(a)' = Available(a) - 1
<1>1. Available(a) \in 0..Burst
  BY AvailableType
<1>2. /\ a \in known' /\ last'[a] = now /\ now' = now
      /\ tokens'[a] = Available(a) - 1
  BY DEF Allow, LimiterTypeOK
<1>3. Available(a)' = Refilled(a)'
  BY <1>2 DEF Available
<1>4. Refilled(a)' = Available(a) - 1
  BY <1>1, <1>2, LimiterAssumption DEF Refilled, LimiterTypeOK
<1> QED BY <1>3, <1>4

\* One that is refused leaves it as it is.
LEMMA RefuseKeepsLevel ==
  ASSUME LimiterTypeOK, NEW a \in Addrs, Refuse(a)
  PROVE  Available(a)' = Available(a)
<1>1. Available(a) \in 0..Burst
  BY AvailableType
<1>2. a \in known
  BY LimiterAssumption DEF Refuse, Available
<1>3. /\ a \in known' /\ last'[a] = now /\ now' = now
      /\ tokens'[a] = Available(a)
  BY <1>2 DEF Refuse, LimiterTypeOK
<1>4. Available(a)' = Refilled(a)'
  BY <1>3 DEF Available
<1>5. Refilled(a)' = Available(a)
  BY <1>1, <1>3, LimiterAssumption DEF Refilled, LimiterTypeOK
<1> QED BY <1>4, <1>5

\* Every step of the limiter is a step of the bucket, or none.
LEMMA BucketStep ==
  ASSUME LimiterTypeOK, [LimiterNext]_limiterVars
  PROVE  [Bucket!BucketNext]_(Bucket!bucketVars)
<1>1. CASE Tick
  <2>1. Level' = [a \in Addrs |-> IF Level[a] < Burst THEN Level[a] + 1 ELSE Burst]
    BY <1>1, TickFills DEF Level
  <2> QED BY <1>1, <2>1 DEF Tick, Bucket!BucketNext, Bucket!BucketTick
<1>2. CASE Cleanup
  <2>1. Level' = Level
    BY <1>2, CleanupKeepsLevel DEF Level
  <2> QED BY <1>2, <2>1 DEF Cleanup, Forget, Bucket!bucketVars
<1>3. ASSUME NEW a \in Addrs, Allow(a)
      PROVE  Bucket!BucketNext
  <2>1. Level' = [Level EXCEPT ![a] = @ - 1]
    BY <1>3, AllowTakes, OthersKeepLevel DEF Level
  <2>2. Level[a] >= 1
    BY <1>3 DEF Allow, Level
  <2>3. Bucket!LetThrough(a)
    BY <1>3, <2>1, <2>2 DEF Allow, Bucket!LetThrough, Bucket!Counted
  <2> QED BY <2>3 DEF Bucket!BucketNext
<1>4. ASSUME NEW a \in Addrs, Refuse(a)
      PROVE  UNCHANGED Bucket!bucketVars
  <2>1. Level' = Level
    BY <1>4, RefuseKeepsLevel, OthersKeepLevel DEF Level
  <2> QED BY <1>4, <2>1 DEF Refuse, Bucket!bucketVars
<1>5. CASE UNCHANGED limiterVars
  BY <1>5 DEF limiterVars, Bucket!bucketVars, Level, Available, Refilled
<1> QED BY <1>1, <1>2, <1>3, <1>4, <1>5 DEF LimiterNext

----------------------------------------------------------------------------
(* The budget.                                                             *)

\* Nothing is granted at first.
LEMMA BudgetInit == LimiterInit => BudgetInv
<1> SUFFICES ASSUME LimiterInit, NEW a \in Addrs
             PROVE  IF now < From THEN granted[a] = 0
                    ELSE granted[a] + Available(a) <= Burst + (now - From)
  BY DEF BudgetInv
<1>1. now = 0 /\ granted[a] = 0 /\ Available(a) = Burst
  BY DEF LimiterInit, Available
<1> QED BY <1>1, LimiterAssumption

\* What the bucket gains is time, what it loses is granted.
LEMMA BudgetStep ==
  ASSUME LimiterInv, LimiterTypeOK', [Bucket!BucketNext]_(Bucket!bucketVars)
  PROVE  BudgetInv'
<1> SUFFICES ASSUME NEW a \in Addrs
             PROVE  IF now' < From THEN granted'[a] = 0
                    ELSE granted'[a] + Level'[a] <= Burst + (now' - From)
  BY DEF BudgetInv, Level
<1>1. /\ Level[a] \in 0..Burst /\ granted[a] \in Nat /\ now \in Nat
      /\ IF now < From THEN granted[a] = 0
         ELSE granted[a] + Level[a] <= Burst + (now - From)
  BY AvailableType DEF LimiterInv, LimiterTypeOK, BudgetInv, Level
<1>2. CASE Bucket!BucketTick
  BY <1>1, <1>2, LimiterAssumption DEF Bucket!BucketTick
<1>3. ASSUME NEW b \in Addrs, Bucket!LetThrough(b)
      PROVE  /\ now' = now
             /\ \/ granted'[a] = granted[a] /\ Level'[a] = Level[a]
                \/ granted'[a] = granted[a] /\ now < From
                \/ granted'[a] = granted[a] + 1 /\ Level'[a] = Level[a] - 1
                     /\ now >= From
  <2>1. /\ now' = now
        /\ Level' = [Level EXCEPT ![b] = Level[b] - 1]
        /\ granted' = [granted EXCEPT ![b] = IF now >= From THEN granted[b] + 1 ELSE granted[b]]
    BY <1>3 DEF Bucket!LetThrough, Bucket!Counted
  <2>2. DOMAIN Level = Addrs /\ DOMAIN granted = Addrs
    BY DEF Level, LimiterInv, LimiterTypeOK
  <2>3. CASE a = b
    BY <1>1, <2>1, <2>2, <2>3, LimiterAssumption
  <2>4. CASE a # b
    BY <2>1, <2>2, <2>4
  <2> QED BY <2>3, <2>4
<1>4. CASE UNCHANGED Bucket!bucketVars
  BY <1>1, <1>4 DEF Bucket!bucketVars
<1>5. ASSUME NEW b \in Addrs, Bucket!LetThrough(b)
      PROVE  IF now' < From THEN granted'[a] = 0
             ELSE granted'[a] + Level'[a] <= Burst + (now' - From)
  BY <1>1, <1>3, <1>5, LimiterAssumption
<1> QED BY <1>2, <1>4, <1>5 DEF Bucket!BucketNext

\* The limiter's own steps keep its invariant.
LEMMA LimiterStep == LimiterInv /\ [LimiterNext]_limiterVars => LimiterInv'
BY LimiterTypeStep, BucketStep, BudgetStep DEF LimiterInv

\* No address ever gets past its budget.
LEMMA LimiterInductive == LimiterSpec => []LimiterInv
<1>1. LimiterInit => LimiterInv
  BY LimiterTypeInit, BudgetInit DEF LimiterInv
<1> QED BY <1>1, LimiterStep, PTL DEF LimiterSpec

----------------------------------------------------------------------------
(* The limiter as a part of the API.                                       *)

\* The limiter moves by its own steps only: nothing else touches its map.
LEMMA LimiterMoves == [LocalNext]_localVars => [LimiterNext]_limiterVars
<1>1. ASSUME NEW t \in Tasks, NEW a \in Addrs, Arrive(t, a)
      PROVE  LimiterNext
  BY <1>1 DEF Arrive, LimiterNext
<1>2. ASSUME NEW t \in Tasks, HandlerStep(t)
      PROVE  UNCHANGED limiterVars
  BY <1>2 DEF HandlerStep, InsertTask, EnqueueTask, RejectTask, AnnounceCreated
<1>3. CASE LimiterAlone
  BY <1>3 DEF LimiterAlone, LimiterNext
<1>4. CASE WorkerAlone \/ StopRequested \/ ProcessEnds
  BY <1>4 DEF WorkerAlone, StopRequested, ProcessEnds
<1>5. CASE UNCHANGED localVars
  BY <1>5 DEF localVars
<1> QED BY <1>1, <1>2, <1>3, <1>4, <1>5 DEF LocalNext

\* The API runs the limiter.
LEMMA LimiterInApi == LocalSpec => LimiterSpec
<1>1. LocalInit => LimiterInit
  BY DEF LocalInit
<1> QED BY <1>1, LimiterMoves, PTL DEF LocalSpec, LimiterSpec

\* For any burst, any window and any times of requests and cleanups, an address
\* is let through at most burst times and once more per unit of time
\* (ratelimit.go, allow and cleanup).
THEOREM StaysWithinBudget == LocalSpec => []WithinBudget
<1>1. LimiterInv => WithinBudget
  <2> SUFFICES ASSUME LimiterInv, NEW a \in Addrs
               PROVE  granted[a] <= (IF now < From THEN 0 ELSE Burst + (now - From))
    BY DEF WithinBudget
  <2>1. Available(a) \in 0..Burst /\ now \in Nat /\ granted[a] \in Nat
    BY AvailableType DEF LimiterInv, LimiterTypeOK
  <2> QED BY <2>1, LimiterAssumption DEF LimiterInv, BudgetInv
<1> QED BY <1>1, LimiterInApi, LimiterInductive, PTL

\* An entry that is refilled late and forgotten when idle is a bucket that is
\* always up to date: the limiter implements TokenBucket.
THEOREM LimiterImplementsBucket == LocalSpec => ImplementsBucket
<1>1. LimiterSpec => Bucket!BucketSpec
  <2>1. LimiterInv => LimiterTypeOK
    BY DEF LimiterInv
  <2>2. LimiterTypeOK /\ [LimiterNext]_limiterVars => [Bucket!BucketNext]_(Bucket!bucketVars)
    BY BucketStep
  <2> QED BY <2>1, <2>2, BucketStarts, LimiterInductive, PTL DEF LimiterSpec, Bucket!BucketSpec
<1> QED BY <1>1, LimiterInApi, PTL DEF ImplementsBucket

----------------------------------------------------------------------------
(* The types of the whole API.                                             *)

USE WorkerAssumption, FaultAssumption

\* An empty channel is one.
LEMMA EmptyQueue == <<>> \in Seq(Tasks) /\ Len(<<>>) <= Capacity
<1>1. <<>> \in Seq(Tasks) /\ Len(<<>>) = 0
  OBVIOUS
<1> QED BY <1>1

\* At the start nothing is queued or announced.
LEMMA LocalTypeInit == LocalInit => LocalTypeOK
<1> SUFFICES ASSUME LocalInit
             PROVE  LocalTypeOK
  OBVIOUS
<1>1. LimiterTypeOK
  BY LimiterTypeInit DEF LocalInit
<1>2. WorkerTypeOK
  <2>1. queue \in Seq(Tasks) /\ Len(queue) <= Capacity
    BY EmptyQueue DEF LocalInit, WorkerInit
  <2>2. announced \in [Tasks -> Seq(MessageTypes)]
    <3>1. <<>> \in Seq(MessageTypes)
      OBVIOUS
    <3> QED BY <3>1 DEF LocalInit, WorkerInit
  <2> QED BY <2>1, <2>2 DEF LocalInit, WorkerInit, WorkerTypeOK
<1>3. FaultTypeOK
  BY DEF LocalInit, FaultInit, FaultTypeOK
<1> QED BY <1>1, <1>2, <1>3 DEF LocalInit, LocalTypeOK

\* What may be announced about a task is a sequence of messages.
LEMMA AnnounceType ==
  ASSUME WorkerTypeOK, NEW t \in Tasks, NEW type \in MessageTypes, Announce(t, type)
  PROVE  announced' \in [Tasks -> Seq(MessageTypes)]
<1>1. Append(announced[t], type) \in Seq(MessageTypes)
  BY DEF WorkerTypeOK
<1> QED BY <1>1 DEF WorkerTypeOK, Announce

\* The goroutine takes from the channel and announces.
LEMMA WorkerTypeStep ==
  ASSUME WorkerTypeOK, WorkerStep
  PROVE  WorkerTypeOK'
<1>1. CASE Take
  <2>1. Head(queue) \in Tasks /\ Tail(queue) \in Seq(Tasks) /\ Len(Tail(queue)) <= Capacity
    BY <1>1 DEF Take, WorkerTypeOK
  <2>2. announced' \in [Tasks -> Seq(MessageTypes)]
    BY <1>1, <2>1, AnnounceType DEF Take, MessageTypes
  <2> QED BY <1>1, <2>1, <2>2 DEF Take, WorkerTypeOK
<1>2. CASE Finish
  <2>1. announced' \in [Tasks -> Seq(MessageTypes)]
    BY <1>2, AnnounceType DEF Finish, WorkerTypeOK, MessageTypes
  <2> QED BY <1>2, <2>1 DEF Finish, WorkerTypeOK
<1>3. CASE Return
  BY <1>3 DEF Return, WorkerTypeOK
<1> QED BY <1>1, <1>2, <1>3 DEF WorkerStep

\* A handler moves its own program counter on.
LEMMA HandlerTypeStep ==
  ASSUME LocalTypeOK, NEW t \in Tasks, HandlerStep(t)
  PROVE  LocalTypeOK'
<1>0. LimiterTypeOK'
  BY LimiterTypeStep, LimiterMoves DEF LocalNext, LocalTypeOK
<1>1. CASE InsertTask(t)
  <2>1. WorkerTypeOK'
    BY <1>1 DEF InsertTask, LocalTypeOK, WorkerTypeOK, workerVars
  <2>2. FaultTypeOK'
    BY <1>1 DEF InsertTask, LocalTypeOK, FaultTypeOK, faultVars, Fault
  <2>3. row' \in [Tasks -> {"none", "pending", "failed"}]
    BY <1>1 DEF InsertTask, LocalTypeOK
  <2>4. /\ step' \in [Tasks -> {"new", "insert", "enqueue", "reject", "announce", "end"}]
        /\ answer' \in [Tasks -> {Unanswered, 201, 429, 500, 503}]
    BY <1>1 DEF InsertTask, LocalTypeOK, Goto, Answer
  <2>5. up' \in BOOLEAN
    BY <1>1 DEF InsertTask, LocalTypeOK
  <2> QED BY <1>0, <2>1, <2>2, <2>3, <2>4, <2>5 DEF LocalTypeOK
<1>2. CASE EnqueueTask(t)
  <2>1. queue' \in Seq(Tasks) /\ Len(queue') <= Capacity
    BY <1>2 DEF EnqueueTask, Enqueue, HasRoom, LocalTypeOK, WorkerTypeOK
  <2>2. WorkerTypeOK'
    BY <1>2, <2>1 DEF EnqueueTask, LocalTypeOK, WorkerTypeOK
  <2>3. FaultTypeOK'
    BY <1>2 DEF EnqueueTask, LocalTypeOK, FaultTypeOK, faultVars
  <2> QED BY <1>0, <1>2, <2>2, <2>3 DEF EnqueueTask, LocalTypeOK, Goto
<1>3. CASE RejectTask(t)
  <2>1. WorkerTypeOK'
    BY <1>3 DEF RejectTask, LocalTypeOK, WorkerTypeOK, workerVars
  <2>2. FaultTypeOK'
    BY <1>3 DEF RejectTask, LocalTypeOK, FaultTypeOK, faultVars, Fault
  <2>3. row' \in [Tasks -> {"none", "pending", "failed"}]
    BY <1>3 DEF RejectTask, LocalTypeOK
  <2>4. /\ step' \in [Tasks -> {"new", "insert", "enqueue", "reject", "announce", "end"}]
        /\ answer' \in [Tasks -> {Unanswered, 201, 429, 500, 503}]
    BY <1>3 DEF RejectTask, LocalTypeOK, Goto, Answer
  <2>5. up' \in BOOLEAN
    BY <1>3 DEF RejectTask, LocalTypeOK
  <2> QED BY <1>0, <2>1, <2>2, <2>3, <2>4, <2>5 DEF LocalTypeOK
<1>4. CASE AnnounceCreated(t)
  <2>1. announced' \in [Tasks -> Seq(MessageTypes)]
    BY <1>4, AnnounceType DEF AnnounceCreated, MessageTypes, LocalTypeOK
  <2>2. WorkerTypeOK'
    BY <1>4, <2>1 DEF AnnounceCreated, LocalTypeOK, WorkerTypeOK
  <2>3. FaultTypeOK'
    BY <1>4 DEF AnnounceCreated, LocalTypeOK, FaultTypeOK, faultVars
  <2>4. /\ step' \in [Tasks -> {"new", "insert", "enqueue", "reject", "announce", "end"}]
        /\ answer' \in [Tasks -> {Unanswered, 201, 429, 500, 503}]
    BY <1>4 DEF AnnounceCreated, LocalTypeOK, Goto, Answer
  <2> QED BY <1>0, <1>4, <2>2, <2>3, <2>4 DEF AnnounceCreated, LocalTypeOK
<1> QED BY <1>1, <1>2, <1>3, <1>4 DEF HandlerStep

\* And so for the whole API.
LEMMA LocalTypeStep == LocalTypeOK /\ [LocalNext]_localVars => LocalTypeOK'
<1> SUFFICES ASSUME LocalTypeOK, [LocalNext]_localVars
             PROVE  LocalTypeOK'
  OBVIOUS
<1>0. LimiterTypeOK'
  BY LimiterTypeStep, LimiterMoves DEF LocalTypeOK
<1>1. ASSUME NEW t \in Tasks, HandlerStep(t) PROVE LocalTypeOK'
  BY <1>1, HandlerTypeStep
<1>2. ASSUME NEW t \in Tasks, NEW a \in Addrs, Arrive(t, a) PROVE LocalTypeOK'
  <2>1. WorkerTypeOK' /\ FaultTypeOK'
    BY <1>2 DEF Arrive, LocalTypeOK, WorkerTypeOK, FaultTypeOK, workerVars, faultVars
  <2> QED BY <1>0, <1>2, <2>1 DEF Arrive, Goto, Answer, LocalTypeOK
<1>3. CASE LimiterAlone
  <2>1. WorkerTypeOK' /\ FaultTypeOK'
    BY <1>3 DEF LimiterAlone, LocalTypeOK, WorkerTypeOK, FaultTypeOK, workerVars, faultVars
  <2> QED BY <1>0, <1>3, <2>1 DEF LimiterAlone, handlerVars, LocalTypeOK
<1>4. CASE WorkerAlone
  <2>1. FaultTypeOK'
    BY <1>4 DEF WorkerAlone, LocalTypeOK, FaultTypeOK, faultVars
  <2> QED BY <1>0, <1>4, <2>1, WorkerTypeStep DEF WorkerAlone, handlerVars, LocalTypeOK
<1>5. CASE StopRequested
  <2>1. WorkerTypeOK' /\ FaultTypeOK'
    BY <1>5 DEF StopRequested, Sigterm, LocalTypeOK, WorkerTypeOK, FaultTypeOK, faultVars
  <2> QED BY <1>0, <1>5, <2>1 DEF StopRequested, handlerVars, LocalTypeOK
<1>6. CASE ProcessEnds
  <2>1. queue' \in Seq(Tasks) /\ Len(queue') <= Capacity
    BY <1>6, EmptyQueue DEF ProcessEnds
  <2>2. WorkerTypeOK'
    BY <1>6, <2>1 DEF ProcessEnds, LocalTypeOK, WorkerTypeOK
  <2>3. FaultTypeOK'
    BY <1>6 DEF ProcessEnds, CrashHappens, LocalTypeOK, FaultTypeOK, faultVars
  <2>4. step' \in [Tasks -> {"new", "insert", "enqueue", "reject", "announce", "end"}]
    BY <1>6 DEF ProcessEnds, LocalTypeOK
  <2> QED BY <1>0, <1>6, <2>2, <2>3, <2>4 DEF ProcessEnds, LocalTypeOK
<1>7. CASE UNCHANGED localVars
  <2>1. WorkerTypeOK' /\ FaultTypeOK'
    BY <1>7 DEF localVars, LocalTypeOK, WorkerTypeOK, FaultTypeOK, workerVars, faultVars
  <2> QED BY <1>0, <1>7, <2>1 DEF localVars, handlerVars, LocalTypeOK
<1> QED BY <1>1, <1>2, <1>3, <1>4, <1>5, <1>6, <1>7 DEF LocalNext

\* Every variable keeps its type: the channel never holds more than its
\* capacity (queue.go), and no bucket more than the burst (ratelimit.go).
THEOREM LocalTypeCorrect == LocalSpec => []LocalTypeOK
BY LocalTypeInit, LocalTypeStep, PTL DEF LocalSpec

----------------------------------------------------------------------------
(* A task's way through the handler, the channel and the goroutine.        *)

\* The entries of a history that say type.
Entries(h, type) == {i \in DOMAIN h : h[i] = type}

\* One more message is one more entry of its type.
LEMMA OneMoreEntry ==
  ASSUME NEW h \in Seq(MessageTypes), NEW m \in MessageTypes, NEW type
  PROVE  /\ Cardinality(Entries(h, type)) \in Nat
         /\ Cardinality(Entries(Append(h, m), type)) =
              Cardinality(Entries(h, type)) + (IF m = type THEN 1 ELSE 0)
<1>1. IsFiniteSet(Entries(h, type)) /\ Cardinality(Entries(h, type)) \in Nat
  <2>1. IsFiniteSet(1..Len(h))
    BY FS_Interval
  <2>2. Entries(h, type) \in SUBSET (1..Len(h))
    BY DEF Entries
  <2> QED BY <2>1, <2>2, FS_Subset, FS_CardinalityType
<1>2. /\ DOMAIN h = 1..Len(h) /\ Len(h) \in Nat
      /\ DOMAIN Append(h, m) = 1..(Len(h) + 1)
      /\ \A i \in 1..Len(h) : Append(h, m)[i] = h[i]
      /\ Append(h, m)[Len(h) + 1] = m
  OBVIOUS
<1>3. CASE m = type
  <2>1. Entries(Append(h, m), type) = Entries(h, type) \cup {Len(h) + 1}
    BY <1>2, <1>3 DEF Entries
  <2>2. Len(h) + 1 \notin Entries(h, type)
    BY <1>2 DEF Entries
  <2> QED BY <1>1, <1>3, <2>1, <2>2, FS_AddElement
<1>4. CASE m # type
  <2>1. Entries(Append(h, m), type) = Entries(h, type)
    BY <1>2, <1>4 DEF Entries
  <2> QED BY <1>1, <1>4, <2>1
<1> QED BY <1>1, <1>3, <1>4

\* An announcement about t counts once, for t and its type.
LEMMA AnnounceCounts ==
  ASSUME WorkerTypeOK, NEW t \in Tasks, NEW m \in MessageTypes, Announce(t, m),
         NEW u \in Tasks, NEW type
  PROVE  /\ Count(u, type) \in Nat
         /\ Count(u, type)' = Count(u, type) + (IF u = t /\ m = type THEN 1 ELSE 0)
<1>1. announced[u] \in Seq(MessageTypes)
  BY DEF WorkerTypeOK
<1>2. announced'[u] = IF u = t THEN Append(announced[u], m) ELSE announced[u]
  BY DEF WorkerTypeOK, Announce
<1>3. /\ Count(u, type) = Cardinality(Entries(announced[u], type))
      /\ Count(u, type)' = Cardinality(Entries(announced'[u], type))
  BY DEF Count, Entries
<1> QED BY <1>1, <1>2, <1>3, OneMoreEntry

Queued(t) == \E i \in DOMAIN queue : queue[i] = t

Untouched(t) == announced[t] = <<>> /\ current # t /\ ~Queued(t)

\* Until it is in the channel, a task is known to its handler only; a row that
\* is failed and an answer that is an error were given before that.
HandlerInv ==
  \A t \in Tasks :
    /\ step[t] # "end" => answer[t] = Unanswered
    /\ step[t] \notin {"announce", "end"} => Untouched(t)
    /\ step[t] # "end" => row[t] # "failed"
    /\ answer[t] \in {429, 500, 503} \/ row[t] = "failed" => Untouched(t)

Ends(t) == Count(t, "completed") + Count(t, "failed")

\* A task starts and ends once at most, and not while it is in the channel.
TaskOnce(t) ==
  /\ Count(t, "created") \in {0, 1}
  /\ step[t] # "end" => Count(t, "created") = 0
  /\ Queued(t) => current # t /\ Count(t, "processing") = 0 /\ Ends(t) = 0
  /\ current = t => Count(t, "processing") = 1 /\ Ends(t) = 0
  /\ Count(t, "processing") \in {0, 1}
  /\ Ends(t) \in {0, Count(t, "processing")}

\* The channel holds a task once, and the goroutine has not seen those in it.
OnceInv ==
  /\ \A i, j \in DOMAIN queue : queue[i] = queue[j] => i = j
  /\ \A t \in Tasks : TaskOnce(t)

LocalInv == LocalTypeOK /\ HandlerInv /\ OnceInv

\* Nothing has been said about a task without a history.
LEMMA EmptyHistory ==
  ASSUME NEW t \in Tasks, announced[t] = <<>>, NEW type
  PROVE  Count(t, type) = 0
<1>1. {i \in DOMAIN announced[t] : announced[t][i] = type} = {}
  OBVIOUS
<1> QED BY <1>1, FS_EmptySet DEF Count

\* All tasks are untouched at first.
LEMMA LocalInvInit == LocalInit => HandlerInv /\ OnceInv
<1> SUFFICES ASSUME LocalInit
             PROVE  HandlerInv /\ OnceInv
  OBVIOUS
<1>1. /\ queue = <<>> /\ current = NoTask
      /\ \A t \in Tasks : /\ announced[t] = <<>> /\ step[t] = "new"
                          /\ row[t] = "none" /\ answer[t] = Unanswered
  BY DEF LocalInit, WorkerInit
<1>2. DOMAIN queue = {}
  BY <1>1
<1>3. \A t \in Tasks : Untouched(t)
  BY <1>1, <1>2 DEF Untouched, Queued
<1>4. \A t \in Tasks : \A type \in MessageTypes : Count(t, type) = 0
  BY <1>1, EmptyHistory
<1>5. HandlerInv
  BY <1>1, <1>3 DEF HandlerInv
<1>6. OnceInv
  <2>1. \A t \in Tasks : /\ Count(t, "created") = 0 /\ Count(t, "processing") = 0
                         /\ Count(t, "completed") = 0 /\ Count(t, "failed") = 0
                         /\ current # t /\ ~Queued(t)
    BY <1>3, <1>4 DEF Untouched, MessageTypes
  <2>2. \A t \in Tasks : TaskOnce(t)
    BY <2>1 DEF TaskOnce, Ends
  <2> QED BY <1>2, <2>2 DEF OnceInv
<1> QED BY <1>5, <1>6

\* Handlers that leave the channel and the goroutine alone.
LEMMA AloneKeepsInv ==
  ASSUME LocalInv, UNCHANGED <<queue, current, announced>>,
         \A t \in Tasks :
           /\ step'[t] # "end" => /\ step[t] # "end"
                                  /\ answer'[t] = answer[t] /\ row'[t] # "failed"
           /\ step'[t] \notin {"announce", "end"} => step[t] \notin {"announce", "end"}
           /\ answer'[t] \in {429, 500, 503} \/ row'[t] = "failed" => Untouched(t)
  PROVE  HandlerInv' /\ OnceInv'
<1>1. \A t \in Tasks : /\ Untouched(t)' <=> Untouched(t)
                       /\ Queued(t)' <=> Queued(t)
  BY DEF Untouched, Queued
<1>2. \A t \in Tasks : \A type \in MessageTypes : Count(t, type)' = Count(t, type)
  BY DEF Count
<1>3. HandlerInv'
  BY <1>1 DEF LocalInv, HandlerInv
<1>4. ASSUME NEW t \in Tasks
      PROVE  TaskOnce(t)'
  BY <1>1, <1>2, <1>4 DEF LocalInv, OnceInv, TaskOnce, Ends, MessageTypes
<1> QED BY <1>3, <1>4 DEF LocalInv, OnceInv

\* The handler puts a task into the channel that nobody has seen yet.
LEMMA EnqueueKeepsInv ==
  ASSUME LocalInv, NEW t \in Tasks, EnqueueTask(t)
  PROVE  HandlerInv' /\ OnceInv'
<1>1. /\ step[t] = "enqueue" /\ UNCHANGED <<current, announced, row, answer>>
      /\ \A u \in Tasks \ {t} : step'[u] = step[u]
      /\ step'[t] = IF HasRoom THEN "announce" ELSE "reject"
      /\ queue' = IF HasRoom THEN Append(queue, t) ELSE queue
  BY DEF EnqueueTask, Enqueue, Goto, At, LocalInv, LocalTypeOK
<1>2. Untouched(t)
  BY <1>1 DEF LocalInv, HandlerInv
<1>3. CASE ~HasRoom
  BY <1>1, <1>2, <1>3, AloneKeepsInv DEF LocalInv, HandlerInv
<1>4. CASE HasRoom
  <2>1. /\ queue \in Seq(Tasks) /\ Len(queue) \in Nat
        /\ DOMAIN queue = 1..Len(queue) /\ DOMAIN queue' = 1..(Len(queue) + 1)
        /\ \A i \in DOMAIN queue : queue'[i] = queue[i]
        /\ queue'[Len(queue) + 1] = t
    BY <1>1, <1>4 DEF LocalInv, LocalTypeOK, WorkerTypeOK
  <2>2. \A u \in Tasks : Queued(u)' <=> Queued(u) \/ u = t
    BY <2>1 DEF Queued
  <2>3. \A u \in Tasks \ {t} : Untouched(u)' <=> Untouched(u)
    BY <1>1, <2>2 DEF Untouched
  <2>4. \A u \in Tasks : \A type \in MessageTypes : Count(u, type)' = Count(u, type)
    BY <1>1 DEF Count
  <2>5. \A type \in MessageTypes : Count(t, type) = 0
    BY <1>2, EmptyHistory DEF Untouched
  <2>6. HandlerInv'
    BY <1>1, <1>4, <2>3, AnswerAssumption DEF LocalInv, HandlerInv
  <2>7. \A i, j \in DOMAIN queue' : queue'[i] = queue'[j] => i = j
    BY <1>2, <2>1 DEF LocalInv, OnceInv, Untouched, Queued
  <2>8. ASSUME NEW u \in Tasks
        PROVE  TaskOnce(u)'
    <3>1. CASE u = t
      BY <1>1, <1>2, <2>4, <2>5, <3>1 DEF TaskOnce, Ends, Untouched, MessageTypes
    <3>2. CASE u # t
      BY <1>1, <2>2, <2>4, <3>2 DEF LocalInv, OnceInv, TaskOnce, Ends, MessageTypes
    <3> QED BY <3>1, <3>2
  <2> QED BY <2>6, <2>7, <2>8 DEF OnceInv
<1> QED BY <1>3, <1>4

\* It says that it has created it, whatever the goroutine has said by then.
LEMMA AnnounceCreatedKeepsInv ==
  ASSUME LocalInv, NEW t \in Tasks, AnnounceCreated(t)
  PROVE  HandlerInv' /\ OnceInv'
<1>1. /\ step[t] = "announce" /\ UNCHANGED <<queue, current, row>>
      /\ \A u \in Tasks \ {t} : /\ step'[u] = step[u] /\ answer'[u] = answer[u]
                                /\ announced'[u] = announced[u]
      /\ step'[t] = "end" /\ answer'[t] = 201
  BY DEF AnnounceCreated, Announce, Answer, Goto, At, LocalInv, LocalTypeOK, WorkerTypeOK
<1>2. \A u \in Tasks : \A type \in MessageTypes :
        /\ Count(u, type) \in Nat
        /\ Count(u, type)' = Count(u, type) + (IF u = t /\ "created" = type THEN 1 ELSE 0)
  BY AnnounceCounts DEF AnnounceCreated, LocalInv, LocalTypeOK, MessageTypes
<1>3. \A u \in Tasks : Queued(u)' <=> Queued(u)
  BY <1>1 DEF Queued
<1>4. \A u \in Tasks \ {t} : Untouched(u)' <=> Untouched(u)
  BY <1>1, <1>3 DEF Untouched
<1>5. HandlerInv'
  BY <1>1, <1>4 DEF LocalInv, HandlerInv
<1>6. ASSUME NEW u \in Tasks
      PROVE  TaskOnce(u)'
  <2>1. CASE u = t
    <3>1. /\ Count(t, "created")' = Count(t, "created") + 1
          /\ \A type \in {"processing", "completed", "failed"} : Count(t, type)' = Count(t, type)
      BY <1>2 DEF MessageTypes
    <3> QED BY <1>1, <1>3, <2>1, <3>1 DEF LocalInv, OnceInv, TaskOnce, Ends
  <2>2. CASE u # t
    <3>1. \A type \in MessageTypes : Count(u, type)' = Count(u, type)
      BY <1>1, <2>2 DEF Count
    <3> QED BY <1>1, <1>3, <2>2, <3>1 DEF LocalInv, OnceInv, TaskOnce, Ends, MessageTypes
  <2> QED BY <2>1, <2>2
<1> QED BY <1>1, <1>5, <1>6 DEF LocalInv, OnceInv

\* The goroutine takes the oldest task, which no other place of the channel
\* holds, and announces its start.
LEMMA TakeKeepsInv ==
  ASSUME LocalInv, Take, UNCHANGED handlerVars
  PROVE  HandlerInv' /\ OnceInv'
<1>0. PICK t \in Tasks : t = Head(queue)
  BY DEF Take, LocalInv, LocalTypeOK, WorkerTypeOK
<1>1. /\ queue \in Seq(Tasks) /\ queue # <<>> /\ Len(queue) \in Nat \ {0}
      /\ DOMAIN queue = 1..Len(queue) /\ DOMAIN queue' = 1..(Len(queue) - 1)
      /\ \A i \in DOMAIN queue' : queue'[i] = queue[i + 1]
      /\ t = queue[1]
  BY <1>0 DEF Take, LocalInv, LocalTypeOK, WorkerTypeOK
<1>2. /\ current = NoTask /\ current' = t /\ Announce(t, "processing")
      /\ \A u \in Tasks \ {t} : announced'[u] = announced[u]
      /\ UNCHANGED <<step, row, answer>>
  BY <1>0 DEF Take, Announce, handlerVars, LocalInv, LocalTypeOK, WorkerTypeOK
<1>3. Queued(t) /\ \A u \in Tasks : Queued(u)' => Queued(u) /\ u # t
  <2>1. Queued(t)
    BY <1>1 DEF Queued
  <2>2. \A i \in DOMAIN queue' : i + 1 \in DOMAIN queue /\ i + 1 # 1 /\ 1 \in DOMAIN queue
    BY <1>1
  <2>3. \A i \in DOMAIN queue' : queue'[i] # t
    BY <1>1, <2>2 DEF LocalInv, OnceInv
  <2> QED BY <1>1, <2>1, <2>2, <2>3 DEF Queued
<1>4. /\ \A type \in MessageTypes : Count(t, type) \in Nat
      /\ Count(t, "processing")' = Count(t, "processing") + 1
      /\ \A type \in {"created", "completed", "failed"} : Count(t, type)' = Count(t, type)
  BY <1>1, <1>2, AnnounceCounts DEF LocalInv, LocalTypeOK, MessageTypes
<1>5. \A u \in Tasks \ {t} : \A type \in MessageTypes : Count(u, type)' = Count(u, type)
  BY <1>2 DEF Count
<1>6. HandlerInv'
  BY <1>2, <1>3 DEF LocalInv, HandlerInv, Untouched
<1>7. \A i, j \in DOMAIN queue' : queue'[i] = queue'[j] => i = j
  <2> SUFFICES ASSUME NEW i \in DOMAIN queue', NEW j \in DOMAIN queue', queue'[i] = queue'[j]
               PROVE  i = j
    OBVIOUS
  <2>1. i + 1 \in DOMAIN queue /\ j + 1 \in DOMAIN queue /\ i \in Int /\ j \in Int
    BY <1>1
  <2>2. queue[i + 1] = queue[j + 1]
    BY <1>1
  <2>3. i + 1 = j + 1
    BY <2>1, <2>2 DEF LocalInv, OnceInv
  <2> QED BY <2>1, <2>3
<1>8. ASSUME NEW u \in Tasks
      PROVE  TaskOnce(u)'
  <2>1. CASE u = t
    BY <1>2, <1>3, <1>4, <2>1 DEF LocalInv, OnceInv, TaskOnce, Ends
  <2>2. CASE u # t
    BY <1>2, <1>3, <1>5, <2>2 DEF LocalInv, OnceInv, TaskOnce, Ends, MessageTypes
  <2> QED BY <2>1, <2>2
<1> QED BY <1>6, <1>7, <1>8 DEF OnceInv

\* It announces one end and lets the task go.
LEMMA FinishKeepsInv ==
  ASSUME LocalInv, Finish, UNCHANGED handlerVars
  PROVE  HandlerInv' /\ OnceInv'
<1>1. PICK type \in {"completed", "failed"} : Announce(current, type)
  BY DEF Finish
<1>2. /\ current \in Tasks /\ current' = NoTask /\ UNCHANGED <<queue, step, row, answer>>
      /\ \A u \in Tasks \ {current} : announced'[u] = announced[u]
  BY <1>1 DEF Finish, Announce, handlerVars, LocalInv, LocalTypeOK, WorkerTypeOK
<1>3. \A u \in Tasks : Queued(u)' <=> Queued(u)
  BY <1>2 DEF Queued
<1>4. HandlerInv'
  BY <1>2, <1>3 DEF LocalInv, HandlerInv, Untouched
<1>5. ASSUME NEW u \in Tasks
      PROVE  TaskOnce(u)'
  <2>1. CASE u = current
    <3>1. \A m \in MessageTypes :
            /\ Count(u, m) \in Nat
            /\ Count(u, m)' = Count(u, m) + (IF m = type THEN 1 ELSE 0)
      BY <1>1, <1>2, <2>1, AnnounceCounts DEF LocalInv, LocalTypeOK, MessageTypes
    <3>2. /\ Count(u, "created")' = Count(u, "created")
          /\ Count(u, "processing")' = Count(u, "processing")
          /\ Ends(u)' = Ends(u) + 1
      BY <3>1 DEF MessageTypes, Ends
    <3>3. TaskOnce(u) /\ current # NoTask
      BY DEF LocalInv, OnceInv, Finish
    <3> QED BY <1>2, <1>3, <2>1, <3>2, <3>3 DEF TaskOnce
  <2>2. CASE u # current
    <3>1. \A m \in MessageTypes : Count(u, m)' = Count(u, m)
      BY <1>2, <2>2 DEF Count
    <3>2. current' # u
      BY <1>2
    <3>3. TaskOnce(u)
      BY DEF LocalInv, OnceInv
    <3> QED BY <1>2, <1>3, <3>1, <3>2, <3>3 DEF TaskOnce, Ends, MessageTypes
  <2> QED BY <2>1, <2>2
<1> QED BY <1>2, <1>4, <1>5 DEF LocalInv, OnceInv

\* When the process ends, the channel is gone and so are the handlers.
LEMMA ProcessEndsKeepsInv ==
  ASSUME LocalInv, ProcessEnds
  PROVE  HandlerInv' /\ OnceInv'
<1>1. /\ queue' = <<>> /\ current' = NoTask /\ UNCHANGED <<announced, row, answer>>
      /\ \A t \in Tasks : step'[t] = "end" \/ (step'[t] = step[t] /\ step[t] = "new")
  BY DEF ProcessEnds, Serving, LocalInv, LocalTypeOK
<1>2. DOMAIN queue' = {}
  BY <1>1
<1>3. \A t \in Tasks : ~Queued(t)' /\ current' # t
  BY <1>1, <1>2 DEF Queued
<1>4. \A t \in Tasks : \A type \in MessageTypes : Count(t, type)' = Count(t, type)
  BY <1>1 DEF Count
<1>5. HandlerInv'
  BY <1>1, <1>3 DEF LocalInv, HandlerInv, Untouched
<1>6. ASSUME NEW t \in Tasks
      PROVE  TaskOnce(t)'
  BY <1>1, <1>3, <1>4 DEF LocalInv, OnceInv, TaskOnce, Ends, MessageTypes
<1> QED BY <1>2, <1>5, <1>6 DEF OnceInv

\* Every step keeps the whole invariant.
LEMMA LocalInvStep == LocalInv /\ [LocalNext]_localVars => LocalInv'
<1> SUFFICES ASSUME LocalInv, [LocalNext]_localVars
             PROVE  HandlerInv' /\ OnceInv'
  BY LocalTypeStep DEF LocalInv
<1>0. HandlerInv /\ LocalTypeOK
  BY DEF LocalInv
<1>1. ASSUME NEW t \in Tasks, NEW a \in Addrs, Arrive(t, a)
      PROVE  HandlerInv' /\ OnceInv'
  BY <1>0, <1>1, AloneKeepsInv
     DEF Arrive, At, Goto, Answer, HandlerInv, LocalTypeOK, workerVars
<1>2. ASSUME NEW t \in Tasks, InsertTask(t)
      PROVE  HandlerInv' /\ OnceInv'
  BY <1>0, <1>2, AloneKeepsInv
     DEF InsertTask, At, Goto, Answer, HandlerInv, LocalTypeOK, workerVars
<1>3. ASSUME NEW t \in Tasks, RejectTask(t)
      PROVE  HandlerInv' /\ OnceInv'
  BY <1>0, <1>3, AloneKeepsInv
     DEF RejectTask, At, Goto, Answer, HandlerInv, LocalTypeOK, workerVars
<1>4. ASSUME NEW t \in Tasks, EnqueueTask(t) \/ AnnounceCreated(t)
      PROVE  HandlerInv' /\ OnceInv'
  BY <1>4, EnqueueKeepsInv, AnnounceCreatedKeepsInv
<1>5. CASE WorkerAlone
  <2>1. CASE Return
    BY <1>0, <1>5, <2>1, AloneKeepsInv DEF Return, WorkerAlone, handlerVars, HandlerInv
  <2> QED BY <1>5, <2>1, TakeKeepsInv, FinishKeepsInv DEF WorkerAlone, WorkerStep
<1>6. CASE LimiterAlone
  BY <1>0, <1>6, AloneKeepsInv DEF LimiterAlone, workerVars, handlerVars, HandlerInv
<1>7. CASE StopRequested
  BY <1>0, <1>7, AloneKeepsInv DEF StopRequested, Sigterm, handlerVars, HandlerInv
<1>8. CASE ProcessEnds
  BY <1>8, ProcessEndsKeepsInv
<1>9. CASE UNCHANGED localVars
  BY <1>0, <1>9, AloneKeepsInv DEF localVars, workerVars, handlerVars, HandlerInv
<1> QED BY <1>1, <1>2, <1>3, <1>4, <1>5, <1>6, <1>7, <1>8, <1>9 DEF LocalNext, HandlerStep

\* The API keeps it for ever.
LEMMA LocalInductive == LocalSpec => []LocalInv
<1>1. LocalInit => LocalInv
  BY LocalTypeInit, LocalInvInit DEF LocalInv
<1> QED BY <1>1, LocalInvStep, PTL DEF LocalSpec

\* Whatever fails in the handler of POST /tasks (http/task.go), a request that
\* is refused leaves no task behind in the channel or the goroutine.
THEOREM RefusedTasksNeverRun == LocalSpec => []RefusedNeverRuns
<1>1. LocalInv => RefusedNeverRuns
  BY DEF LocalInv, HandlerInv, RefusedNeverRuns, Untouched, Queued
<1> QED BY <1>1, LocalInductive, PTL

\* The goroutine (worker.go) takes every task up once and ends it once, in
\* whatever order its messages and the handler's are published.
THEOREM TasksRunOnce == LocalSpec => []RunsOnce
<1>1. LocalInv => RunsOnce
  <2> SUFFICES ASSUME LocalInv, NEW t \in Tasks
               PROVE  /\ \A type \in {"created", "processing"} : Count(t, type) <= 1
                      /\ Ends(t) <= Count(t, "processing") - (IF current = t THEN 1 ELSE 0)
    BY DEF RunsOnce, Ends
  <2> QED BY DEF LocalInv, OnceInv, TaskOnce
<1> QED BY <1>1, LocalInductive, PTL

----------------------------------------------------------------------------
(* What was accepted is not lost.                                          *)

\* A task is in the channel, with the goroutine, or at its end.
Tracked(t) == Queued(t) \/ current = t \/ Ended(t)

\* The handler has put the task into the channel.
Accepted(t) == step[t] = "announce" \/ answer[t] = 201

TrackInv == \A t \in Tasks : up /\ Accepted(t) => Tracked(t)

\* Nothing that was announced is forgotten.
LEMMA EndedStays ==
  ASSUME LocalInv, NEW t \in Tasks, Ended(t),
         \/ UNCHANGED announced
         \/ \E u \in Tasks, m \in MessageTypes : Announce(u, m)
  PROVE  Ended(t)'
<1>1. CASE UNCHANGED announced
  BY <1>1 DEF Ended, Count
<1>2. ASSUME NEW u \in Tasks, NEW m \in MessageTypes, Announce(u, m)
      PROVE  Ended(t)'
  <2>1. \A type \in MessageTypes :
          /\ Count(t, type) \in Nat
          /\ Count(t, type)' \in Nat /\ Count(t, type)' >= Count(t, type)
    BY <1>2, AnnounceCounts DEF LocalInv, LocalTypeOK
  <2> QED BY <2>1 DEF Ended, MessageTypes
<1> QED BY <1>1, <1>2

\* Steps that leave the channel and the goroutine alone and accept nothing.
LEMMA AloneKeepsTrack ==
  ASSUME LocalInv, TrackInv, UNCHANGED <<queue, current>>,
         \/ UNCHANGED announced
         \/ \E u \in Tasks, m \in MessageTypes : Announce(u, m),
         up' => up,
         \A t \in Tasks : Accepted(t)' => Accepted(t)
  PROVE  TrackInv'
<1> SUFFICES ASSUME NEW t \in Tasks, up, Accepted(t)
             PROVE  Tracked(t)'
  BY DEF TrackInv
<1>1. Queued(t)' <=> Queued(t)
  BY DEF Queued
<1>2. Ended(t) => Ended(t)'
  BY EndedStays
<1> QED BY <1>1, <1>2 DEF TrackInv, Tracked

\* The handler accepts what it has put into the channel.
LEMMA EnqueueKeepsTrack ==
  ASSUME LocalInv, TrackInv, NEW t \in Tasks, EnqueueTask(t)
  PROVE  TrackInv'
<1>1. /\ up /\ UNCHANGED <<current, announced, answer>>
      /\ \A u \in Tasks \ {t} : step'[u] = step[u]
      /\ step[t] = "enqueue"
      /\ step'[t] = IF HasRoom THEN "announce" ELSE "reject"
      /\ queue' = IF HasRoom THEN Append(queue, t) ELSE queue
  BY DEF EnqueueTask, Enqueue, Goto, At, LocalInv, LocalTypeOK
<1>2. /\ queue \in Seq(Tasks) /\ Len(queue) \in Nat
      /\ DOMAIN queue = 1..Len(queue)
  BY DEF LocalInv, LocalTypeOK, WorkerTypeOK
<1>3. \A u \in Tasks : Queued(u) => Queued(u)'
  BY <1>1, <1>2 DEF Queued
<1>4. HasRoom => Queued(t)'
  <2>1. HasRoom => /\ Len(queue) + 1 \in DOMAIN queue'
                   /\ queue'[Len(queue) + 1] = t
    BY <1>1, <1>2
  <2> QED BY <2>1 DEF Queued
<1>5. \A u \in Tasks : Ended(u) => Ended(u)'
  BY <1>1, EndedStays
<1>6. answer[t] # 201
  BY <1>1, AnswerAssumption DEF LocalInv, HandlerInv
<1> QED BY <1>1, <1>3, <1>4, <1>5, <1>6 DEF TrackInv, Tracked, Accepted

\* The goroutine takes one task out of the channel, and has it then.
LEMMA TakeKeepsTrack ==
  ASSUME LocalInv, TrackInv, Take, UNCHANGED handlerVars, UNCHANGED up
  PROVE  TrackInv'
<1>1. /\ queue \in Seq(Tasks) /\ queue # <<>> /\ Len(queue) \in Nat \ {0}
      /\ DOMAIN queue = 1..Len(queue) /\ DOMAIN queue' = 1..(Len(queue) - 1)
      /\ \A i \in DOMAIN queue' : queue'[i] = queue[i + 1]
      /\ current = NoTask /\ current' = queue[1] /\ queue[1] \in Tasks
      /\ Announce(queue[1], "processing")
  BY DEF Take, LocalInv, LocalTypeOK, WorkerTypeOK
<1>2. \A u \in Tasks : Queued(u) => Queued(u)' \/ current' = u
  <2> SUFFICES ASSUME NEW u \in Tasks, NEW i \in DOMAIN queue, queue[i] = u, i # 1
               PROVE  Queued(u)'
    BY <1>1 DEF Queued
  <2>1. i - 1 \in DOMAIN queue' /\ (i - 1) + 1 = i
    BY <1>1
  <2>2. queue'[i - 1] = u
    BY <1>1, <2>1
  <2> QED BY <2>1, <2>2 DEF Queued
<1>3. \A u \in Tasks : Ended(u) => Ended(u)'
  BY <1>1, EndedStays DEF MessageTypes
<1>4. \A u \in Tasks : current # u
  BY <1>1, WorkerAssumption
<1> QED BY <1>2, <1>3, <1>4 DEF TrackInv, Tracked, Accepted, handlerVars

\* It lets a task go when it has announced its end.
LEMMA FinishKeepsTrack ==
  ASSUME LocalInv, TrackInv, Finish, UNCHANGED handlerVars, UNCHANGED up
  PROVE  TrackInv'
<1>1. PICK type \in {"completed", "failed"} : Announce(current, type)
  BY DEF Finish
<1>2. current \in Tasks /\ type \in MessageTypes /\ UNCHANGED queue
  BY DEF Finish, LocalInv, LocalTypeOK, WorkerTypeOK, MessageTypes
<1>3. \A u \in Tasks : Queued(u)' <=> Queued(u)
  BY <1>2 DEF Queued
<1>4. \A u \in Tasks : Ended(u) => Ended(u)'
  BY <1>1, <1>2, EndedStays
<1>5. \A u \in Tasks : u = current => Ended(u)'
  <2> SUFFICES ASSUME NEW u \in Tasks, u = current
               PROVE  Ended(u)'
    OBVIOUS
  <2>1. \A m \in MessageTypes :
          /\ Count(u, m) \in Nat
          /\ Count(u, m)' = Count(u, m) + (IF m = type THEN 1 ELSE 0)
    BY <1>1, <1>2, AnnounceCounts DEF LocalInv, LocalTypeOK
  <2> QED BY <1>2, <2>1 DEF Ended, MessageTypes
<1> QED BY <1>3, <1>4, <1>5 DEF TrackInv, Tracked, Accepted, handlerVars

\* Every step keeps track of what was accepted.
LEMMA TrackStep == LocalInv /\ TrackInv /\ [LocalNext]_localVars => TrackInv'
<1> SUFFICES ASSUME LocalInv, TrackInv, [LocalNext]_localVars
             PROVE  TrackInv'
  OBVIOUS
<1> USE DEF LocalInv, LocalTypeOK, WorkerTypeOK
<1>1. ASSUME NEW t \in Tasks, NEW a \in Addrs, Arrive(t, a)
      PROVE  TrackInv'
  <2>1. \A u \in Tasks : Accepted(u)' => Accepted(u)
    BY <1>1, AnswerAssumption DEF Arrive, At, Goto, Answer, Accepted
  <2> QED BY <1>1, <2>1, AloneKeepsTrack DEF Arrive, workerVars
<1>2. ASSUME NEW t \in Tasks, InsertTask(t) \/ RejectTask(t)
      PROVE  TrackInv'
  <2>1. \A u \in Tasks : Accepted(u)' => Accepted(u)
    BY <1>2, AnswerAssumption
       DEF InsertTask, RejectTask, At, Goto, Answer, Accepted
  <2> QED BY <1>2, <2>1, AloneKeepsTrack DEF InsertTask, RejectTask, workerVars
<1>3. ASSUME NEW t \in Tasks, AnnounceCreated(t)
      PROVE  TrackInv'
  <2>1. \A u \in Tasks : Accepted(u)' => Accepted(u)
    BY <1>3 DEF AnnounceCreated, At, Goto, Answer, Accepted
  <2> QED BY <1>3, <2>1, AloneKeepsTrack DEF AnnounceCreated, MessageTypes
<1>4. CASE WorkerAlone
  <2>1. CASE Return
    BY <1>4, <2>1, AloneKeepsTrack DEF Return, WorkerAlone, handlerVars, Accepted
  <2> QED BY <1>4, <2>1, TakeKeepsTrack, FinishKeepsTrack
      DEF WorkerAlone, WorkerStep
<1>5. CASE LimiterAlone
  BY <1>5, AloneKeepsTrack DEF LimiterAlone, workerVars, handlerVars, Accepted
<1>6. CASE StopRequested
  BY <1>6, AloneKeepsTrack DEF StopRequested, Sigterm, handlerVars, Accepted
<1>7. CASE ProcessEnds
  BY <1>7 DEF ProcessEnds, TrackInv
<1>8. CASE UNCHANGED localVars
  BY <1>8, AloneKeepsTrack DEF localVars, workerVars, handlerVars, Accepted
<1> QED BY <1>1, <1>2, <1>3, <1>4, <1>5, <1>6, <1>7, <1>8, EnqueueKeepsTrack
    DEF LocalNext, HandlerStep

\* The bounded channel (queue.go) and the goroutine (worker.go) lose no task
\* that was answered with 201 as long as the process lives.
THEOREM AcceptedTasksAreTracked == LocalSpec => []AcceptedIsTracked
<1>1. LocalInit => TrackInv
  BY AnswerAssumption DEF LocalInit, TrackInv, Accepted
<1>2. TrackInv => AcceptedIsTracked
  BY DEF TrackInv, AcceptedIsTracked, Accepted, Tracked, Queued
<1> QED BY <1>1, <1>2, LocalInductive, TrackStep, PTL DEF LocalSpec
============================================================================
