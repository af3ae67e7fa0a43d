----------------------------- MODULE Pipeline -----------------------------
(***************************************************************************)
(* The task pipeline: the API handlers that create and replay tasks, the   *)
(* DLQ explorer, the queues, the workers and the tasks table, acting       *)
(* concurrently on the shared table and queues.                            *)
(***************************************************************************)
EXTENDS Processor, TaskHandlers, DlqHandler

CONSTANTS
  SlowCalls,         \* calls of Process that can outlast a visibility timeout
  MaxExpiries,       \* visibility timeouts that fit into one run of Process
  NoWorker           \* the owner of a task that no worker has claimed

ASSUME ExpiryAssumption == MaxExpiries \in Nat
ASSUME NoWorkerAssumption == NoWorker \notin Workers

vars == <<tableVars, queueVars, faultVars, workerVars, handlerVars, dlqVars>>

Init ==
  /\ TableInit /\ QueueInit /\ FaultInit
  /\ WorkerInit /\ HandlerInit /\ DlqInit

\* A message may become visible again while a worker is still busy with it.
\* With the timeouts of the code only the inference is that slow, and its
\* deadline of 570 s leaves room for one visibility timeout of 360 s
\* (SlowCalls = {"infer"}, MaxExpiries = 1).  With SlowCalls = Labels and
\* MaxExpiries = RedriveMax a message may time out at any moment.
MayExpire(m) ==
  \A w \in Workers : held[w] = m =>
    pc[w] \in SlowCalls /\ receives[m] - rcount[w] < MaxExpiries

\* The visibility timeout and the redrive policy, in SQS.
QueueStep(m) ==
  /\ \/ MayExpire(m) /\ VisibilityTimeout(m)
     \/ Redrive(m)
  /\ UNCHANGED <<tableVars, faultVars, workerVars, handlerVars, dlqVars>>

WorkerStep(w) == ProcessStep(w) /\ UNCHANGED <<handlerVars, dlqVars>>
WorkerPoll(w) == Poll(w) /\ UNCHANGED <<handlerVars, dlqVars>>
WorkerEnd(w) == WorkerCrash(w) /\ UNCHANGED <<handlerVars, dlqVars>>

ApiStep(t) == HandlerStep(t) /\ UNCHANGED <<workerVars, dlqVars>>
ApiRequest(t) == HandlerRequest(t) /\ UNCHANGED <<workerVars, dlqVars>>
ApiEnd(t) == HandlerCrash(t) /\ UNCHANGED <<workerVars, dlqVars>>

DlqStep(o) == RetryStep(o) /\ UNCHANGED <<workerVars, handlerVars>>
DlqRequest(o) == OperatorRequest(o) /\ UNCHANGED <<workerVars, handlerVars>>
DlqEnd(o) == RetryCrash(o) /\ UNCHANGED <<workerVars, handlerVars>>

Next ==
  \/ \E m \in Messages : QueueStep(m)
  \/ \E w \in Workers : WorkerPoll(w) \/ WorkerStep(w) \/ WorkerEnd(w)
  \/ \E t \in Tasks : ApiRequest(t) \/ ApiStep(t) \/ ApiEnd(t)
  \/ \E o \in Operators : DlqRequest(o) \/ DlqStep(o) \/ DlqEnd(o)

Spec == Init /\ [][Next]_vars

\* The poll loop and the calls of Process go on, SQS makes messages visible
\* again and applies its redrive policy, and a handler that has accepted a
\* request runs to its end: every call they make has a timeout.  Requests
\* need not arrive, and neither crashes nor faults need happen.
Fairness ==
  /\ \A m \in Messages : WF_vars(QueueStep(m))
  /\ \A w \in Workers : WF_vars(WorkerPoll(w)) /\ WF_vars(WorkerStep(w))
  /\ \A t \in Tasks : WF_vars(ApiStep(t))
  /\ \A o \in Operators : WF_vars(DlqStep(o))

FairSpec == Spec /\ Fairness

----------------------------------------------------------------------------
TypeOK ==
  /\ TableTypeOK /\ QueueTypeOK /\ FaultTypeOK
  /\ WorkerTypeOK /\ HandlerTypeOK /\ DlqTypeOK

\* While a worker is between its claim on a task (SetProcessing) and the end
\* of that claim, the row says processing and no other worker has a claim on
\* the same task, however often SQS delivers messages for it.
ExclusiveClaim ==
  \A w \in Workers : \A t \in Tasks :
    Owns(w, t) =>
      /\ status[t] = "processing"
      /\ \A v \in Workers : Owns(v, t) => v = w

\* A completed row names an artifact that exists in S3, and no other row
\* names one (PutObject comes before SetCompleted, and no statement leaves
\* completed).
CompletedHasArtifact ==
  \A t \in Tasks :
    /\ artifact[t] <=> status[t] = "completed"
    /\ artifact[t] => t \in s3

\* Once task.completed was published for a task, the table never says
\* anything else than completed, or processing when SetCompleted failed; in
\* particular no worker runs the task again and no retry revives it.
AnnouncedIsFinal ==
  \A t \in announced :
    /\ status[t] \in {"completed", "processing"}
    /\ t \in s3
    /\ \A w \in Workers : ~Owns(w, t)

\* The watchdog looks for lost tasks with two queries: StuckTasks (processing,
\* processing_started_at set) and AbandonedTasks (pending, processing_started_at
\* NULL).  As long as nothing was retried from the dead-letter queue, every
\* unfinished task is in reach of the query for its status, so that one whose
\* worker or message was lost is reported once it is old enough.
UnfinishedIsWatched ==
  \A t \in Tasks :
    /\ status[t] = "processing" => started[t]
    /\ status[t] = "pending" => ~started[t]

\* The last delivery of m is still to come, or a worker is about to use it.
Deliverable(m) ==
  \/ place[m] \in {"visible", "inflight"} /\ receives[m] < RedriveMax
  \/ \E w \in Workers : held[w] = m /\ pc[w] = "claim"

\* As long as nothing failed or crashed, a pending task whose handler has
\* finished has a message that some worker will still receive ("task reverted
\* to pending - will retry via SQS").
PendingIsDeliverable ==
  faults = 0 /\ crashes = 0 =>
    \A t \in Tasks :
      status[t] = "pending" /\ hpc[t] = "done" =>
        \E m \in Messages : body[m] = t /\ Deliverable(m)

\* The worker that holds the claim on each task.
Owner ==
  [t \in Tasks |-> IF \E w \in Workers : Owns(w, t)
                     THEN CHOOSE w \in Workers : Owns(w, t)
                     ELSE NoWorker]

Lease == INSTANCE TaskLease WITH owner <- Owner

\* The pipeline implements the lease protocol of TaskLease: a row leaves
\* processing only by a step of the one worker that claimed it, completed is
\* final, and a task that lost its worker stays processing whatever the API,
\* the operators and the other workers do.
LeaseSpec == Lease!Spec

\* Every message leaves the main queue: deleted, or moved to the dead-letter
\* queue after RedriveMax receives, in spite of crashes and faults.
MainDrains ==
  \A m \in Messages :
    place[m] \in {"visible", "inflight"} ~> place[m] \in {"gone", "dlq"}

\* With one worker, and as long as nothing fails or crashes, every task that
\* was inserted ends up completed or failed: a failed inference is retried
\* until the worker gives up at MaxReceiveCount.
Settles ==
  [](faults = 0 /\ crashes = 0) =>
    \A t \in Tasks :
      status[t] = "pending" ~> status[t] \in {"completed", "failed"}
==========================================================================
