----------------------------- MODULE Processor -----------------------------
(***************************************************************************)
(* The worker service (services/worker): pollMessages takes one message    *)
(* from the main queue at a time and hands it to Processor.Process, which  *)
(* claims the task in PostgreSQL, runs the inference, writes the result to *)
(* S3, deletes the message, marks the task completed and announces it.     *)
(* Each call to another system is a step of its own, so several workers    *)
(* interleave between any two of them, and a worker may stop between any   *)
(* two of them.                                                            *)
(*                                                                         *)
(* The events published over SSE are best effort and nobody waits for      *)
(* them; of these only task.completed is kept, because it makes a promise  *)
(* to the dashboard.  ChangeMessageVisibility after a failed inference     *)
(* only shortens a timeout, and timeouts here may always be short.         *)
(***************************************************************************)
EXTENDS SqsQueue, Faults

CONSTANTS
  Workers,           \* worker processes
  NoMessage,         \* what an idle worker holds
  MaxReceiveCount,   \* maxReceiveCount of processor.go
  AIEnabled          \* AI_RUNTIME_ENABLED; otherwise a mock output is used

ASSUME NoMessageAssumption == NoMessage \notin Messages
ASSUME AIAssumption == AIEnabled \in BOOLEAN
\* The worker gives up no later than the queue does: both are 3 in the code.
ASSUME ReceiveAssumption ==
  /\ MaxReceiveCount \in Nat \ {0}
  /\ MaxReceiveCount <= RedriveMax

VARIABLES
  pc,                \* pc[w]: the next call Process makes, "idle" in the poll
  held,              \* held[w]: the message being processed
  rcount,            \* rcount[w]: receiveCount it was received with
  s3,                \* tasks whose output object exists in the bucket
  announced          \* tasks for which task.completed was published

workerVars == <<pc, held, rcount, s3, announced>>

\* The calls of Process made while it holds the claim on its task ...
Claimed == {"infer", "revert", "fail", "put", "delete", "complete"}
\* ... and all of its calls.
Labels == {"idle", "claim", "announce"} \cup Claimed

WorkerTypeOK ==
  /\ pc \in [Workers -> Labels]
  /\ held \in [Workers -> Messages \cup {NoMessage}]
  /\ rcount \in [Workers -> 0..RedriveMax]
  /\ s3 \in SUBSET Tasks
  /\ announced \in SUBSET Tasks

WorkerInit ==
  /\ pc = [w \in Workers |-> "idle"]
  /\ held = [w \in Workers |-> NoMessage]
  /\ rcount = [w \in Workers |-> 0]
  /\ s3 = {}
  /\ announced = {}

TaskOf(w) == body[held[w]]

\* Process is between its SetProcessing and the end of its claim on t.
Owns(w, t) == pc[w] \in Claimed /\ TaskOf(w) = t

Goto(w, l) ==
  /\ pc' = [pc EXCEPT ![w] = l]
  /\ UNCHANGED <<held, rcount>>

Return(w) ==
  /\ pc' = [pc EXCEPT ![w] = "idle"]
  /\ held' = [held EXCEPT ![w] = NoMessage]
  /\ rcount' = [rcount EXCEPT ![w] = 0]

----------------------------------------------------------------------------
\* pollMessages: ReceiveMessage with MaxNumberOfMessages 1.
PollMessages(w, m) ==
  /\ pc[w] = "idle"
  /\ ReceiveMessage(m)
  /\ pc' = [pc EXCEPT ![w] = "claim"]
  /\ held' = [held EXCEPT ![w] = m]
  /\ rcount' = [rcount EXCEPT ![w] = receives[m] + 1]
  /\ UNCHANGED <<tableVars, s3, announced, faultVars>>

\* SetProcessing: the row was pending, and is now this worker's.
Claim(w) ==
  /\ pc[w] = "claim"
  /\ SetProcessing(TaskOf(w))
  /\ Goto(w, "infer")
  /\ UNCHANGED <<queueVars, s3, announced, faultVars>>

\* Mutant of ClaimConflict: Process tries the claim again until it succeeds.
ClaimSpins(w) ==
  /\ pc[w] = "claim"
  /\ ~Claimable(TaskOf(w))
  /\ UNCHANGED <<pc, held, rcount, tableVars, queueVars, s3, announced, faultVars>>

\* SetProcessing: no pending row (ErrStateConflict); the message stays.
ClaimConflict(w) ==
  /\ pc[w] = "claim"
  /\ ~Claimable(TaskOf(w))
  /\ Return(w)
  /\ UNCHANGED <<tableVars, queueVars, s3, announced, faultVars>>

\* SetProcessing reports a database error, before or after the commit.
ClaimError(w) ==
  /\ pc[w] = "claim"
  /\ SetProcessing(TaskOf(w)) \/ UNCHANGED tableVars
  /\ Fault
  /\ Return(w)
  /\ UNCHANGED <<queueVars, s3, announced>>

\* The mock output, or an answer of the AI runtime.
Infer(w) ==
  /\ pc[w] = "infer"
  /\ Goto(w, "put")
  /\ UNCHANGED <<tableVars, queueVars, s3, announced, faultVars>>

\* Mutant of InferError: off by one in the test for the last delivery.
InferErrorOffByOne(w) ==
  /\ AIEnabled
  /\ pc[w] = "infer"
  /\ Goto(w, IF rcount[w] > MaxReceiveCount THEN "fail" ELSE "revert")
  /\ UNCHANGED <<tableVars, queueVars, s3, announced, faultVars>>

\* Mutant of InferError: the task stays processing while SQS retries.
InferErrorNoRevert(w) ==
  /\ AIEnabled
  /\ pc[w] = "infer"
  /\ IF rcount[w] >= MaxReceiveCount THEN Goto(w, "fail") ELSE Return(w)
  /\ UNCHANGED <<tableVars, queueVars, s3, announced, faultVars>>

\* callAIRuntime fails: HTTP error, 5xx, bad body, status failed, deadline.
InferError(w) ==
  /\ AIEnabled
  /\ pc[w] = "infer"
  /\ Goto(w, IF rcount[w] >= MaxReceiveCount THEN "fail" ELSE "revert")
  /\ UNCHANGED <<tableVars, queueVars, s3, announced, faultVars>>

\* RevertToPending; its error is only logged.  The message stays.
Revert(w) ==
  /\ pc[w] = "revert"
  /\ \/ RevertToPending(TaskOf(w)) /\ UNCHANGED faultVars
     \/ UNCHANGED tableVars /\ Fault
  /\ Return(w)
  /\ UNCHANGED <<queueVars, s3, announced>>

\* SetFailed ("ai_runtime_error" or "s3_write_error"); its error is only
\* logged.  The message stays.
Fail(w) ==
  /\ pc[w] = "fail"
  /\ \/ SetFailed(TaskOf(w)) /\ UNCHANGED faultVars
     \/ UNCHANGED tableVars /\ Fault
  /\ Return(w)
  /\ UNCHANGED <<queueVars, s3, announced>>

\* PutObject succeeds.
PutObject(w) ==
  /\ pc[w] = "put"
  /\ s3' = s3 \cup {TaskOf(w)}
  /\ Goto(w, "delete")
  /\ UNCHANGED <<tableVars, queueVars, announced, faultVars>>

\* Mutant of PutObjectError: Process carries on after a failed write.
PutObjectErrorIgnored(w) ==
  /\ pc[w] = "put"
  /\ s3' \in {s3, s3 \cup {TaskOf(w)}}
  /\ Goto(w, "delete")
  /\ UNCHANGED <<tableVars, queueVars, announced, faultVars>>

\* PutObject reports an error; the object may exist all the same.
PutObjectError(w) ==
  /\ pc[w] = "put"
  /\ s3' \in {s3, s3 \cup {TaskOf(w)}}
  /\ Goto(w, "fail")
  /\ UNCHANGED <<tableVars, queueVars, announced, faultVars>>

\* DeleteMessage; an error is only logged.
Delete(w) ==
  /\ pc[w] = "delete"
  /\ \/ DeleteMessage(held[w], rcount[w]) /\ UNCHANGED faultVars
     \/ UNCHANGED queueVars /\ Fault
  /\ Goto(w, "complete")
  /\ UNCHANGED <<tableVars, s3, announced>>

\* SetCompleted; an error is only logged.
Complete(w) ==
  /\ pc[w] = "complete"
  /\ \/ SetCompleted(TaskOf(w)) /\ UNCHANGED faultVars
     \/ UNCHANGED tableVars /\ Fault
  /\ Goto(w, "announce")
  /\ UNCHANGED <<queueVars, s3, announced>>

\* publishSSE(task.completed), whatever SetCompleted answered.
Announce(w) ==
  /\ pc[w] = "announce"
  /\ announced' = announced \cup {TaskOf(w)}
  /\ Return(w)
  /\ UNCHANGED <<tableVars, queueVars, s3, faultVars>>

\* The process is killed, or SIGTERM ends main without waiting for Process.
\* Its replacement starts in the poll loop.
WorkerCrash(w) ==
  /\ pc[w] # "idle"
  /\ CrashHappens
  /\ Return(w)
  /\ UNCHANGED <<tableVars, queueVars, s3, announced>>

----------------------------------------------------------------------------
\* Process runs to its end once it has started: every call has a timeout.
ProcessStep(w) ==
  \/ Claim(w) \/ ClaimConflict(w) \/ ClaimError(w)
  \/ Infer(w) \/ InferError(w) \/ Revert(w) \/ Fail(w)
  \/ PutObject(w) \/ PutObjectError(w)
  \/ Delete(w) \/ Complete(w) \/ Announce(w)

Poll(w) == \E m \in Messages : PollMessages(w, m)
==========================================================================
