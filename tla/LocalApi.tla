----------------------------- MODULE LocalApi -----------------------------
(***************************************************************************)
(* The API with the in-memory backend: POST /tasks behind the rate limiter,*)
(* TaskHandler, the bounded queue and the goroutine that works through it, *)
(* in one process that can be told to stop (main waits for the requests    *)
(* that are being served, not for the queue) or die.  A task stands for    *)
(* the request that creates it.                                            *)
(***************************************************************************)
EXTENDS RateLimiter, LocalWorker, Faults, FiniteSets

CONSTANT Unanswered

ASSUME AnswerAssumption == Unanswered \notin {201, 429, 500, 503}

VARIABLES
  step,       \* step[t]: where the handler of t's request is
  row,        \* row[t]: the status column; "none": no row
  answer,     \* answer[t]: the status code sent
  up          \* the process runs

handlerVars == <<step, row, answer>>
localVars == <<limiterVars, workerVars, faultVars, handlerVars, up>>

LocalTypeOK ==
  /\ LimiterTypeOK /\ WorkerTypeOK /\ FaultTypeOK
  /\ step \in [Tasks -> {"new", "insert", "enqueue", "reject", "announce", "end"}]
  /\ row \in [Tasks -> {"none", "pending", "failed"}]
  /\ answer \in [Tasks -> {Unanswered, 201, 429, 500, 503}]
  /\ up \in BOOLEAN

LocalInit ==
  /\ LimiterInit /\ WorkerInit /\ FaultInit
  /\ step = [t \in Tasks |-> "new"]
  /\ row = [t \in Tasks |-> "none"]
  /\ answer = [t \in Tasks |-> Unanswered]
  /\ up = TRUE

Goto(t, s) == step' = [step EXCEPT ![t] = s]
Answer(t, code) == answer' = [answer EXCEPT ![t] = code] /\ Goto(t, "end")

At(t, s) == up /\ step[t] = s

\* RateLimitMiddleware, and validation.
Arrive(t, a) ==
  /\ At(t, "new") /\ ~stopping
  /\ \/ Allow(a) /\ Goto(t, "insert") /\ UNCHANGED answer
     \/ Refuse(a) /\ Answer(t, 429)
  /\ UNCHANGED <<workerVars, faultVars, row, up>>

\* InsertTask; an error may come after the commit.
InsertTask(t) ==
  /\ At(t, "insert")
  /\ \/ /\ row' = [row EXCEPT ![t] = "pending"] /\ Goto(t, "enqueue")
        /\ UNCHANGED <<answer, faultVars>>
     \/ /\ row' \in {row, [row EXCEPT ![t] = "pending"]}
        /\ Fault
        /\ Answer(t, 500)
  /\ UNCHANGED <<limiterVars, workerVars, up>>

\* QueuePublisher.Publish.
EnqueueTask(t) ==
  /\ At(t, "enqueue")
  /\ Enqueue(t)
  /\ Goto(t, IF HasRoom THEN "announce" ELSE "reject")
  /\ UNCHANGED <<limiterVars, current, running, stopping, announced, faultVars, row, answer, up>>

\* The queue was full: SetFailed, whose error is only logged, and 503.
RejectTask(t) ==
  /\ At(t, "reject")
  /\ \/ row' = [row EXCEPT ![t] = "failed"] /\ UNCHANGED faultVars
     \/ row' \in {row, [row EXCEPT ![t] = "failed"]} /\ Fault
  /\ Answer(t, 503)
  /\ UNCHANGED <<limiterVars, workerVars, up>>

\* task.created: by now the goroutine may have announced more.
AnnounceCreated(t) ==
  /\ At(t, "announce")
  /\ Announce(t, "created")
  /\ Answer(t, 201)
  /\ UNCHANGED <<limiterVars, queue, current, running, stopping, faultVars, row, up>>

Serving == {t \in Tasks : step[t] \notin {"new", "end"}}

\* The process ends: after SIGTERM when Shutdown has seen its requests through
\* or has waited ten seconds, or at any time by a crash.  What is queued or in
\* process is gone: a new process starts with an empty queue, whatever the table says.
ProcessEnds ==
  /\ up
  /\ \/ stopping /\ Serving = {} /\ UNCHANGED faultVars
     \/ CrashHappens
  /\ up' = FALSE
  /\ running' = FALSE
  /\ queue' = <<>> /\ current' = NoTask
  /\ step' = [t \in Tasks |-> IF t \in Serving THEN "end" ELSE step[t]]
  /\ UNCHANGED <<limiterVars, stopping, announced, row, answer>>

----------------------------------------------------------------------------
HandlerStep(t) ==
  InsertTask(t) \/ EnqueueTask(t) \/ RejectTask(t) \/ AnnounceCreated(t)

LimiterAlone == up /\ (Tick \/ Cleanup) /\ UNCHANGED <<workerVars, faultVars, handlerVars, up>>

WorkerAlone == up /\ WorkerStep /\ UNCHANGED <<limiterVars, faultVars, handlerVars, up>>

StopRequested == up /\ Sigterm /\ UNCHANGED <<limiterVars, faultVars, handlerVars, up>>

LocalNext ==
  \/ \E t \in Tasks : HandlerStep(t) \/ \E a \in Addrs : Arrive(t, a)
  \/ LimiterAlone \/ WorkerAlone \/ StopRequested \/ ProcessEnds

LocalSpec == LocalInit /\ [][LocalNext]_localVars

\* Handlers run, every database call ends, and Infer has a deadline.
FairLocalSpec ==
  /\ LocalSpec
  /\ \A t \in Tasks : WF_localVars(HandlerStep(t))
  /\ WF_localVars(WorkerAlone)

----------------------------------------------------------------------------
Count(t, type) == Cardinality({i \in DOMAIN announced[t] : announced[t][i] = type})

Ended(t) == Count(t, "completed") + Count(t, "failed") > 0

\* A request that was answered with an error, or whose row was marked failed,
\* is in no queue, is not being run and was announced to nobody.
RefusedNeverRuns ==
  \A t \in Tasks :
    answer[t] \in {429, 500, 503} \/ row[t] = "failed" =>
      /\ announced[t] = <<>>
      /\ current # t
      /\ \A i \in DOMAIN queue : queue[i] # t

\* A task is taken up once and ends once, completed or failed but not both,
\* and is announced as created once, at any point between.
RunsOnce ==
  \A t \in Tasks :
    /\ \A type \in {"created", "processing"} : Count(t, type) <= 1
    /\ Count(t, "completed") + Count(t, "failed") <=
         Count(t, "processing") - (IF current = t THEN 1 ELSE 0)

\* A task that was accepted with 201 is in the channel, with the goroutine, or
\* completed or failed, also after SIGTERM, as long as the process lives.
AcceptedIsTracked ==
  \A t \in Tasks :
    answer[t] = 201 /\ up =>
      (\E i \in DOMAIN queue : queue[i] = t) \/ current = t \/ Ended(t)

\* A task that was accepted with 201 is completed or failed in the end, unless
\* the process is told to stop or dies: the bounded queue loses nothing.
AcceptedIsFinished ==
  \A t \in Tasks : answer[t] = 201 ~> Ended(t) \/ stopping \/ ~up
==========================================================================
