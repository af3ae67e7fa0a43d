-------------------------- MODULE PipelineProofs --------------------------
(***************************************************************************)
(* Proofs about Pipeline, for any number of tasks, messages, workers and   *)
(* operators and any bounds.                                               *)
(***************************************************************************)
EXTENDS Pipeline, TLAPS

(***************************************************************************)
(* References between the parts: whoever holds a message holds one that    *)
(* was sent, and a message that was sent names a task.                     *)
(***************************************************************************)
SentNamesTask == \A m \in Messages : place[m] # "unsent" => body[m] \in Tasks

WorkerHoldsSent ==
  \A w \in Workers :
    pc[w] # "idle" => held[w] \in Messages /\ place[held[w]] # "unsent"

ScreenShowsSent ==
  /\ \A m \in listed : place[m] # "unsent"
  /\ \A o \in Operators : opc[o] # "idle" => target[o] \in listed

RefInv == TypeOK /\ SentNamesTask /\ WorkerHoldsSent /\ ScreenShowsSent

(***************************************************************************)
(* What holds of a worker between its claim and its announcement.          *)
(***************************************************************************)
WroteObject ==
  \A w \in Workers : pc[w] \in {"delete", "complete"} => TaskOf(w) \in s3

AboutToAnnounce ==
  \A w \in Workers : pc[w] = "announce" =>
    /\ TaskOf(w) \in s3
    /\ status[TaskOf(w)] \in {"completed", "processing"}
    /\ \A v \in Workers : ~Owns(v, TaskOf(w))

ClaimInv ==
  /\ ExclusiveClaim
  /\ WroteObject
  /\ AboutToAnnounce
  /\ CompletedHasArtifact
  /\ AnnouncedIsFinal

IInv == RefInv /\ ClaimInv

----------------------------------------------------------------------------
\* The worker's statements keep the type of the tasks table.
LEMMA StatementsKeepType ==
  ASSUME TableTypeOK, NEW t \in Tasks,
         \/ SetProcessing(t) \/ SetCompleted(t)
         \/ SetFailed(t) \/ RevertToPending(t)
         \/ UNCHANGED tableVars
  PROVE  TableTypeOK'
<1> USE DEF TableTypeOK, Statuses
<1>1. CASE SetProcessing(t)
  BY <1>1 DEF SetProcessing
<1>2. CASE SetCompleted(t)
  <2>1. status' \in [Tasks -> Statuses] /\ started' \in [Tasks -> BOOLEAN]
    BY <1>2 DEF SetCompleted
  <2>2. (artifact[t] \/ status[t] = "processing") \in BOOLEAN
    OBVIOUS
  <2>3. artifact' \in [Tasks -> BOOLEAN]
    BY <1>2, <2>2, Zenon DEF SetCompleted
  <2> QED BY <2>1, <2>3
<1>3. CASE SetFailed(t)
  BY <1>3 DEF SetFailed
<1>4. CASE RevertToPending(t)
  <2>1. status' \in [Tasks -> Statuses] /\ artifact' \in [Tasks -> BOOLEAN]
    BY <1>4 DEF RevertToPending
  <2>2. (started[t] /\ status[t] # "processing") \in BOOLEAN
    OBVIOUS
  <2>3. started' \in [Tasks -> BOOLEAN]
    BY <1>4, <2>2, Zenon DEF RevertToPending
  <2> QED BY <2>1, <2>3
<1>5. CASE UNCHANGED tableVars
  BY <1>5 DEF tableVars
<1> QED BY <1>1, <1>2, <1>3, <1>4, <1>5

----------------------------------------------------------------------------
(* Each step keeps the references.                                         *)

USE DEF RefInv, TypeOK, TableTypeOK, QueueTypeOK, FaultTypeOK,
        WorkerTypeOK, HandlerTypeOK, DlqTypeOK, Places, Statuses,
        SentNamesTask, WorkerHoldsSent, ScreenShowsSent,
        tableVars, queueVars, faultVars, workerVars, handlerVars, dlqVars

\* The queue's own steps keep the references: they neither send nor change a
\* body.
LEMMA QueueKeepsRef ==
  ASSUME RefInv, NEW m \in Messages, QueueStep(m)
  PROVE  RefInv'
<1>1. CASE VisibilityTimeout(m)
  BY <1>1 DEF QueueStep, VisibilityTimeout
<1>2. CASE Redrive(m)
  BY <1>2 DEF QueueStep, Redrive
<1> QED BY <1>1, <1>2 DEF QueueStep

\* A worker that polls holds a message that was visible, hence sent.
LEMMA PollKeepsRef ==
  ASSUME RefInv, NEW w \in Workers, WorkerPoll(w)
  PROVE  RefInv'
<1> QED BY RedriveAssumption
      DEF WorkerPoll, Poll, PollMessages, ReceiveMessage, Labels, Claimed

\* The calls of Process keep the references: it holds one message until it
\* returns.
LEMMA WorkerKeepsRef ==
  ASSUME RefInv, NEW w \in Workers, WorkerStep(w)
  PROVE  RefInv'
<1>1. CASE Claim(w)
  BY <1>1 DEF WorkerStep, Claim, SetProcessing, Goto, TaskOf, Labels, Claimed
<1>2. CASE ClaimConflict(w)
  BY <1>2, RedriveAssumption
      DEF WorkerStep, ClaimConflict, Return, TaskOf, Labels, Claimed
<1>3. CASE ClaimError(w)
  <2>1. TaskOf(w) \in Tasks
    BY <1>3 DEF ClaimError, TaskOf
  <2>2. TableTypeOK'
    BY <1>3, <2>1, StatementsKeepType DEF ClaimError
  <2>3. UNCHANGED <<queueVars, s3, announced, handlerVars, dlqVars>>
    BY <1>3 DEF WorkerStep, ClaimError
  <2>4. FaultTypeOK'
    BY <1>3, FaultAssumption DEF ClaimError, Fault
  <2>5. Return(w)
    BY <1>3 DEF ClaimError
  <2> QED
    BY <1>3, <2>2, <2>3, <2>4, <2>5, RedriveAssumption DEF ClaimError, Return, Labels, Claimed
<1>4. CASE Infer(w)
  BY <1>4 DEF WorkerStep, Infer, Goto, TaskOf, Labels, Claimed
<1>5. CASE InferError(w)
  BY <1>5 DEF WorkerStep, InferError, Goto, TaskOf, Labels, Claimed
<1>6. CASE Revert(w)
  <2>1. TaskOf(w) \in Tasks
    BY <1>6 DEF Revert, TaskOf
  <2>2. TableTypeOK'
    BY <1>6, <2>1, StatementsKeepType DEF Revert
  <2>3. UNCHANGED <<queueVars, s3, announced, handlerVars, dlqVars>>
    BY <1>6 DEF WorkerStep, Revert
  <2>4. FaultTypeOK'
    BY <1>6, FaultAssumption DEF Revert, Fault
  <2>5. Return(w)
    BY <1>6 DEF Revert
  <2> QED
    BY <1>6, <2>2, <2>3, <2>4, <2>5, RedriveAssumption DEF Revert, Return, Labels, Claimed
<1>7. CASE Fail(w)
  BY <1>7, FaultAssumption, RedriveAssumption
      DEF WorkerStep, Fail, SetFailed, Fault, Return, TaskOf, Labels, Claimed
<1>8. CASE PutObject(w)
  BY <1>8 DEF WorkerStep, PutObject, Goto, TaskOf, Labels, Claimed
<1>9. CASE PutObjectError(w)
  BY <1>9 DEF WorkerStep, PutObjectError, Goto, TaskOf, Labels, Claimed
<1>10. CASE Delete(w)
  BY <1>10, FaultAssumption
      DEF WorkerStep, Delete, DeleteMessage, Fault, Goto, TaskOf, Labels,
          Claimed
<1>11. CASE Complete(w)
  <2>1. TaskOf(w) \in Tasks
    BY <1>11 DEF Complete, TaskOf
  <2>2. TableTypeOK'
    BY <1>11, <2>1, StatementsKeepType DEF Complete
  <2>3. UNCHANGED <<queueVars, s3, announced, handlerVars, dlqVars>>
    BY <1>11 DEF WorkerStep, Complete
  <2>4. FaultTypeOK'
    BY <1>11, FaultAssumption DEF Complete, Fault
  <2>5. Goto(w, "announce")
    BY <1>11 DEF Complete
  <2> QED
    BY <1>11, <2>2, <2>3, <2>4, <2>5 DEF Complete, Goto, Labels, Claimed
<1>12. CASE Announce(w)
  BY <1>12, RedriveAssumption
      DEF WorkerStep, Announce, Return, TaskOf, Labels, Claimed
<1> QED BY <1>1, <1>2, <1>3, <1>4, <1>5, <1>6, <1>7, <1>8, <1>9, <1>10, <1>11, <1>12
      DEF WorkerStep, ProcessStep

\* A worker that stops holds nothing.
LEMMA WorkerEndKeepsRef ==
  ASSUME RefInv, NEW w \in Workers, WorkerEnd(w)
  PROVE  RefInv'
<1> QED BY FaultAssumption, RedriveAssumption
      DEF WorkerEnd, WorkerCrash, CrashHappens, Return, Labels, Claimed

\* A request to create or to replay a task sends nothing yet.
LEMMA ApiRequestKeepsRef ==
  ASSUME RefInv, NEW t \in Tasks, ApiRequest(t)
  PROVE  RefInv'
<1>1. CASE CreateTask(t)
  BY <1>1 DEF ApiRequest, CreateTask, InsertTask, At, Next_hpc
<1>2. CASE \E o \in Tasks : ReplayCheck(t, o)
  BY <1>2 DEF ApiRequest, ReplayCheck, At, Next_hpc
<1>3. CASE InsertError(t)
  BY <1>3, FaultAssumption
      DEF ApiRequest, InsertError, InsertTask, Fault, At, Next_hpc
<1> QED BY <1>1, <1>2, <1>3 DEF ApiRequest, HandlerRequest

\* A handler sends messages that name its own task, and changes no body.
LEMMA ApiKeepsRef ==
  ASSUME RefInv, NEW t \in Tasks, ApiStep(t)
  PROVE  RefInv'
<1>1. CASE ReplayInsert(t)
  BY <1>1 DEF ApiStep, ReplayInsert, InsertTask, At, Next_hpc
<1>2. CASE ReplayFull(t)
  BY <1>2 DEF ApiStep, ReplayFull, At, Next_hpc
<1>3. CASE ReplayDepthUnknown(t)
  BY <1>3, FaultAssumption
      DEF ApiStep, ReplayDepthUnknown, InsertTask, Fault, At, Next_hpc
<1>4. CASE \E m \in Messages : Publish(t, m)
  BY <1>4 DEF ApiStep, Publish, SendMessage, At, Next_hpc
<1>5. CASE \E m \in Messages : PublishUnknown(t, m)
  BY <1>5, FaultAssumption
      DEF ApiStep, PublishUnknown, SendMessage, Fault, At, Next_hpc
<1>6. CASE PublishError(t)
  BY <1>6 DEF ApiStep, PublishError, At, Next_hpc
<1>7. CASE Reject(t)
  BY <1>7, FaultAssumption
      DEF ApiStep, Reject, RejectPending, Fault, At, Next_hpc
<1> QED BY <1>1, <1>2, <1>3, <1>4, <1>5, <1>6, <1>7 DEF ApiStep, HandlerStep

\* A handler that stops leaves everything else as it is.
LEMMA ApiEndKeepsRef ==
  ASSUME RefInv, NEW t \in Tasks, ApiEnd(t)
  PROVE  RefInv'
<1> QED BY FaultAssumption DEF ApiEnd, HandlerCrash, CrashHappens, At, Next_hpc

\* What is listed was in the dead-letter queue, hence sent.
LEMMA DlqRequestKeepsRef ==
  ASSUME RefInv, NEW o \in Operators, DlqRequest(o)
  PROVE  RefInv'
<1>1. CASE ListMessages
  BY <1>1 DEF DlqRequest, ListMessages
<1>2. CASE \E m \in Messages : Retry(o, m)
  BY <1>2 DEF DlqRequest, Retry
<1>3. CASE \E m \in Messages : DlqDelete(m)
  BY <1>3 DEF DlqRequest, DlqDelete, DeleteDlqMessage
<1>4. CASE Purge
  BY <1>4 DEF DlqRequest, Purge, PurgeDlq
<1> QED BY <1>1, <1>2, <1>3, <1>4 DEF DlqRequest, OperatorRequest

\* Retry sends the body of a message that was sent.
LEMMA DlqKeepsRef ==
  ASSUME RefInv, NEW o \in Operators, DlqStep(o)
  PROVE  RefInv'
<1>1. CASE \E n \in Messages : RetrySend(o, n)
  BY <1>1 DEF DlqStep, RetrySend, SendMessage, RetryNext, RetryReturn
<1>2. CASE RetrySendError(o)
  BY <1>2, FaultAssumption
      DEF DlqStep, RetrySendError, SendMessage, Fault, RetryNext, RetryReturn
<1>3. CASE RetryDelete(o)
  BY <1>3 DEF DlqStep, RetryDelete, DeleteDlqMessage, RetryNext, RetryReturn
<1>4. CASE RetryRevert(o)
  BY <1>4, FaultAssumption
      DEF DlqStep, RetryRevert, RevertToPendingForRetry, Fault, RetryNext,
          RetryReturn
<1> QED BY <1>1, <1>2, <1>3, <1>4 DEF DlqStep, RetryStep

\* A Retry that stops forgets its message.
LEMMA DlqEndKeepsRef ==
  ASSUME RefInv, NEW o \in Operators, DlqEnd(o)
  PROVE  RefInv'
<1> QED BY FaultAssumption
      DEF DlqEnd, RetryCrash, CrashHappens, RetryNext, RetryReturn

HIDE DEF RefInv, TypeOK, TableTypeOK, QueueTypeOK, FaultTypeOK,
         WorkerTypeOK, HandlerTypeOK, DlqTypeOK, Places, Statuses,
         SentNamesTask, WorkerHoldsSent, ScreenShowsSent,
         tableVars, queueVars, faultVars, workerVars, handlerVars, dlqVars

\* Initially there are no rows, no messages and no requests.
LEMMA RefInit == Init => RefInv
BY RedriveAssumption, FaultAssumption
   DEF Init, TableInit, QueueInit, FaultInit, WorkerInit, HandlerInit, DlqInit,
       RefInv, TypeOK, TableTypeOK, QueueTypeOK, FaultTypeOK, WorkerTypeOK,
       HandlerTypeOK, DlqTypeOK, Places, Statuses, Labels,
       SentNamesTask, WorkerHoldsSent, ScreenShowsSent

\* Every step keeps the types and the references: the lemmas above, one for
\* each disjunct of Next.
LEMMA RefStep == RefInv /\ [Next]_vars => RefInv'
<1> SUFFICES ASSUME RefInv, [Next]_vars PROVE RefInv'
  OBVIOUS
<1>1. ASSUME NEW m \in Messages, QueueStep(m) PROVE RefInv'
  BY <1>1, QueueKeepsRef
<1>2. ASSUME NEW w \in Workers, WorkerPoll(w) \/ WorkerStep(w) \/ WorkerEnd(w)
      PROVE  RefInv'
  BY <1>2, PollKeepsRef, WorkerKeepsRef, WorkerEndKeepsRef
<1>3. ASSUME NEW t \in Tasks, ApiRequest(t) \/ ApiStep(t) \/ ApiEnd(t)
      PROVE  RefInv'
  BY <1>3, ApiRequestKeepsRef, ApiKeepsRef, ApiEndKeepsRef
<1>4. ASSUME NEW o \in Operators, DlqRequest(o) \/ DlqStep(o) \/ DlqEnd(o)
      PROVE  RefInv'
  BY <1>4, DlqRequestKeepsRef, DlqKeepsRef, DlqEndKeepsRef
<1>5. CASE UNCHANGED vars
  BY <1>5 DEF vars, RefInv, TypeOK, TableTypeOK, QueueTypeOK, FaultTypeOK,
     WorkerTypeOK, HandlerTypeOK, DlqTypeOK, SentNamesTask, WorkerHoldsSent,
     ScreenShowsSent, tableVars, queueVars, faultVars, workerVars,
     handlerVars, dlqVars
<1> QED BY <1>1, <1>2, <1>3, <1>4, <1>5 DEF Next

\* Every variable keeps its type, and whatever a worker or an operator holds
\* is a message that was sent.
THEOREM TypeCorrect == Spec => []TypeOK
<1>1. Spec => []RefInv
  BY RefInit, RefStep, PTL DEF Spec
<1>2. RefInv => TypeOK
  BY DEF RefInv
<1> QED BY <1>1, <1>2, PTL

----------------------------------------------------------------------------
(* The claims.                                                             *)

\* Bodies of sent messages do not change.
BodiesKept == \A m \in Messages : place[m] # "unsent" => body'[m] = body[m]

\* The API never touches a row that is processing or completed.
ApiMovesOnly ==
  \A t \in Tasks :
    \/ status'[t] = status[t]
    \/ /\ status[t] \in {"absent", "pending", "failed"}
       /\ status'[t] \in {"pending", "failed"}

\* A step of the API or the queue that leaves the workers alone keeps the
\* claims, because it moves no row that a worker owns or has announced.
LEMMA OutsideKeepsClaims ==
  ASSUME IInv, BodiesKept, ApiMovesOnly,
         UNCHANGED <<artifact, pc, held, s3, announced>>
  PROVE  ClaimInv'
<1> USE DEF IInv, RefInv, TypeOK, ClaimInv
<1>1. \A w \in Workers : pc[w] # "idle" =>
        TaskOf(w)' = TaskOf(w) /\ TaskOf(w) \in Tasks
  BY DEF BodiesKept, WorkerHoldsSent, SentNamesTask, TaskOf
<1>2. \A w \in Workers, t \in Tasks : Owns(w, t)' <=> Owns(w, t)
  BY <1>1 DEF Owns, Claimed
<1>3. ExclusiveClaim'
  BY <1>2 DEF ExclusiveClaim, ApiMovesOnly
<1>4. WroteObject'
  BY <1>1 DEF WroteObject
<1>5. AboutToAnnounce'
  <2> SUFFICES ASSUME NEW w \in Workers, pc[w] = "announce"
               PROVE  /\ TaskOf(w) \in s3
                      /\ status'[TaskOf(w)] \in {"completed", "processing"}
                      /\ \A v \in Workers : ~Owns(v, TaskOf(w))
    BY <1>1, <1>2 DEF AboutToAnnounce
  <2> QED BY <1>1 DEF AboutToAnnounce, ApiMovesOnly
<1>6. CompletedHasArtifact'
  BY DEF CompletedHasArtifact, ApiMovesOnly
<1>7. AnnouncedIsFinal'
  BY <1>2 DEF AnnouncedIsFinal, ApiMovesOnly, WorkerTypeOK
<1> QED BY <1>3, <1>4, <1>5, <1>6, <1>7

\* A step of worker w that leaves the bodies alone says nothing about what
\* the other workers own.
LEMMA OthersKeepTasks ==
  ASSUME RefInv, NEW w \in Workers, UNCHANGED body,
         \A v \in Workers \ {w} : pc'[v] = pc[v] /\ held'[v] = held[v]
  PROVE  \A v \in Workers \ {w} :
           /\ TaskOf(v)' = TaskOf(v)
           /\ \A t \in Tasks : Owns(v, t)' <=> Owns(v, t)
BY DEF TaskOf, Owns

\* Every call of Process keeps the claims.  The task that w works on is t.
LEMMA WorkerKeepsClaims ==
  ASSUME IInv, NEW w \in Workers, WorkerStep(w)
  PROVE  ClaimInv'
<1> DEFINE t == TaskOf(w)
<1> USE DEF IInv, RefInv, TypeOK, TableTypeOK, WorkerTypeOK, ClaimInv
<1>1. pc[w] # "idle" /\ t \in Tasks
  <2>1. pc[w] # "idle"
    BY DEF WorkerStep, ProcessStep, Claim, ClaimConflict, ClaimError, Infer,
       InferError, Revert, Fail, PutObject, PutObjectError, Delete, Complete,
       Announce
  <2> QED BY <2>1 DEF WorkerHoldsSent, SentNamesTask, TaskOf
<1>2. /\ UNCHANGED body
      /\ \A v \in Workers \ {w} : pc'[v] = pc[v] /\ held'[v] = held[v]
  BY DEF WorkerStep, ProcessStep, Claim, ClaimConflict, ClaimError, Infer,
     InferError, Revert, Fail, PutObject, PutObjectError, Delete, Complete,
     Announce, Goto, Return, DeleteMessage, queueVars
<1>3. \A v \in Workers \ {w} :
        /\ TaskOf(v)' = TaskOf(v)
        /\ \A u \in Tasks : Owns(v, u)' <=> Owns(v, u)
  BY <1>2, OthersKeepTasks
<1>4. CASE Claim(w)
  <2> USE <1>4 DEF Claim, SetProcessing, Goto, Claimable, tableVars
  <2>1. TaskOf(w)' = t
    BY <1>2 DEF TaskOf
  <2>2. ExclusiveClaim'
    BY <1>1, <1>3, <2>1 DEF ExclusiveClaim, Owns, Claimed
  <2>3. WroteObject'
    BY <1>1, <1>3, <2>1 DEF WroteObject
  <2>4. AboutToAnnounce'
    BY <1>1, <1>3, <2>1 DEF AboutToAnnounce, ExclusiveClaim, Owns, Claimed
  <2>5. CompletedHasArtifact'
    BY <1>1, <2>1 DEF CompletedHasArtifact, WroteObject
  <2>6. AnnouncedIsFinal'
    BY <1>1, <1>3, <2>1 DEF AnnouncedIsFinal, AboutToAnnounce, ExclusiveClaim,
       Owns, Claimed
  <2> QED BY <2>2, <2>3, <2>4, <2>5, <2>6
<1>5. CASE ClaimConflict(w)
  <2> USE <1>5 DEF ClaimConflict, Return, tableVars
  <2>1. \A u \in Tasks : ~Owns(w, u)'
    BY DEF Owns, Claimed
  <2>2. ExclusiveClaim'
    BY <1>1, <1>3, <2>1 DEF ExclusiveClaim, Owns, Claimed
  <2>3. WroteObject'
    BY <1>1, <1>3, <2>1 DEF WroteObject
  <2>4. AboutToAnnounce'
    BY <1>1, <1>3, <2>1 DEF AboutToAnnounce, ExclusiveClaim, Owns, Claimed
  <2>5. CompletedHasArtifact'
    BY <1>1, <2>1 DEF CompletedHasArtifact, WroteObject
  <2>6. AnnouncedIsFinal'
    BY <1>1, <1>3, <2>1 DEF AnnouncedIsFinal, AboutToAnnounce, ExclusiveClaim,
       Owns, Claimed
  <2> QED BY <2>2, <2>3, <2>4, <2>5, <2>6
<1>6. CASE ClaimError(w)
  <2> USE <1>6 DEF ClaimError, SetProcessing, Return, Claimable, tableVars
  <2>1. \A u \in Tasks : ~Owns(w, u)'
    BY DEF Owns, Claimed
  <2>2. ExclusiveClaim'
    BY <1>1, <1>3, <2>1 DEF ExclusiveClaim, Owns, Claimed
  <2>3. WroteObject'
    BY <1>1, <1>3, <2>1 DEF WroteObject
  <2>4. AboutToAnnounce'
    BY <1>1, <1>3, <2>1 DEF AboutToAnnounce, ExclusiveClaim, Owns, Claimed
  <2>5. CompletedHasArtifact'
    BY <1>1, <2>1 DEF CompletedHasArtifact, WroteObject
  <2>6. AnnouncedIsFinal'
    BY <1>1, <1>3, <2>1 DEF AnnouncedIsFinal, AboutToAnnounce, ExclusiveClaim,
       Owns, Claimed
  <2> QED BY <2>2, <2>3, <2>4, <2>5, <2>6
<1>7. CASE Infer(w)
  <2> USE <1>7 DEF Infer, Goto, tableVars
  <2>1. TaskOf(w)' = t
    BY <1>2 DEF TaskOf
  <2>2. ExclusiveClaim'
    BY <1>1, <1>3, <2>1 DEF ExclusiveClaim, Owns, Claimed
  <2>3. WroteObject'
    BY <1>1, <1>3, <2>1 DEF WroteObject
  <2>4. AboutToAnnounce'
    BY <1>1, <1>3, <2>1 DEF AboutToAnnounce, ExclusiveClaim, Owns, Claimed
  <2>5. CompletedHasArtifact'
    BY <1>1, <2>1 DEF CompletedHasArtifact, WroteObject
  <2>6. AnnouncedIsFinal'
    BY <1>1, <1>3, <2>1 DEF AnnouncedIsFinal, AboutToAnnounce, ExclusiveClaim,
       Owns, Claimed
  <2> QED BY <2>2, <2>3, <2>4, <2>5, <2>6
<1>8. CASE InferError(w)
  <2> USE <1>8 DEF InferError, Goto, tableVars
  <2>1. TaskOf(w)' = t
    BY <1>2 DEF TaskOf
  <2>2. ExclusiveClaim'
    BY <1>1, <1>3, <2>1 DEF ExclusiveClaim, Owns, Claimed
  <2>3. WroteObject'
    BY <1>1, <1>3, <2>1 DEF WroteObject
  <2>4. AboutToAnnounce'
    BY <1>1, <1>3, <2>1 DEF AboutToAnnounce, ExclusiveClaim, Owns, Claimed
  <2>5. CompletedHasArtifact'
    BY <1>1, <2>1 DEF CompletedHasArtifact, WroteObject
  <2>6. AnnouncedIsFinal'
    BY <1>1, <1>3, <2>1 DEF AnnouncedIsFinal, AboutToAnnounce, ExclusiveClaim,
       Owns, Claimed
  <2> QED BY <2>2, <2>3, <2>4, <2>5, <2>6
<1>9. CASE Revert(w)
  <2> USE <1>9 DEF Revert, RevertToPending, Return, tableVars
  <2>1. \A u \in Tasks : ~Owns(w, u)'
    BY DEF Owns, Claimed
  <2>2. ExclusiveClaim'
    BY <1>1, <1>3, <2>1 DEF ExclusiveClaim, Owns, Claimed
  <2>3. WroteObject'
    BY <1>1, <1>3, <2>1 DEF WroteObject
  <2>4. AboutToAnnounce'
    BY <1>1, <1>3, <2>1 DEF AboutToAnnounce, ExclusiveClaim, Owns, Claimed
  <2>5. CompletedHasArtifact'
    BY <1>1, <2>1 DEF CompletedHasArtifact, WroteObject
  <2>6. AnnouncedIsFinal'
    BY <1>1, <1>3, <2>1 DEF AnnouncedIsFinal, AboutToAnnounce, ExclusiveClaim,
       Owns, Claimed
  <2> QED BY <2>2, <2>3, <2>4, <2>5, <2>6
<1>10. CASE Fail(w)
  <2> USE <1>10 DEF Fail, SetFailed, Return, tableVars
  <2>1. \A u \in Tasks : ~Owns(w, u)'
    BY DEF Owns, Claimed
  <2>2. ExclusiveClaim'
    BY <1>1, <1>3, <2>1 DEF ExclusiveClaim, Owns, Claimed
  <2>3. WroteObject'
    BY <1>1, <1>3, <2>1 DEF WroteObject
  <2>4. AboutToAnnounce'
    BY <1>1, <1>3, <2>1 DEF AboutToAnnounce, ExclusiveClaim, Owns, Claimed
  <2>5. CompletedHasArtifact'
    BY <1>1, <2>1 DEF CompletedHasArtifact, WroteObject
  <2>6. AnnouncedIsFinal'
    BY <1>1, <1>3, <2>1 DEF AnnouncedIsFinal, AboutToAnnounce, ExclusiveClaim,
       Owns, Claimed
  <2> QED BY <2>2, <2>3, <2>4, <2>5, <2>6
<1>11. CASE PutObject(w)
  <2> USE <1>11 DEF PutObject, Goto, tableVars
  <2>1. TaskOf(w)' = t
    BY <1>2 DEF TaskOf
  <2>2. ExclusiveClaim'
    BY <1>1, <1>3, <2>1 DEF ExclusiveClaim, Owns, Claimed
  <2>3. WroteObject'
    BY <1>1, <1>3, <2>1 DEF WroteObject
  <2>4. AboutToAnnounce'
    BY <1>1, <1>3, <2>1 DEF AboutToAnnounce, ExclusiveClaim, Owns, Claimed
  <2>5. CompletedHasArtifact'
    BY <1>1, <2>1 DEF CompletedHasArtifact, WroteObject
  <2>6. AnnouncedIsFinal'
    BY <1>1, <1>3, <2>1 DEF AnnouncedIsFinal, AboutToAnnounce, ExclusiveClaim,
       Owns, Claimed
  <2> QED BY <2>2, <2>3, <2>4, <2>5, <2>6
<1>12. CASE PutObjectError(w)
  <2> USE <1>12 DEF PutObjectError, Goto, tableVars
  <2>1. TaskOf(w)' = t
    BY <1>2 DEF TaskOf
  <2>2. ExclusiveClaim'
    BY <1>1, <1>3, <2>1 DEF ExclusiveClaim, Owns, Claimed
  <2>3. WroteObject'
    BY <1>1, <1>3, <2>1 DEF WroteObject
  <2>4. AboutToAnnounce'
    BY <1>1, <1>3, <2>1 DEF AboutToAnnounce, ExclusiveClaim, Owns, Claimed
  <2>5. CompletedHasArtifact'
    BY <1>1, <2>1 DEF CompletedHasArtifact, WroteObject
  <2>6. AnnouncedIsFinal'
    BY <1>1, <1>3, <2>1 DEF AnnouncedIsFinal, AboutToAnnounce, ExclusiveClaim,
       Owns, Claimed
  <2> QED BY <2>2, <2>3, <2>4, <2>5, <2>6
<1>13. CASE Delete(w)
  <2> USE <1>13 DEF Delete, Goto, tableVars
  <2>1. TaskOf(w)' = t
    BY <1>2 DEF TaskOf
  <2>2. ExclusiveClaim'
    BY <1>1, <1>3, <2>1 DEF ExclusiveClaim, Owns, Claimed
  <2>3. WroteObject'
    BY <1>1, <1>3, <2>1 DEF WroteObject
  <2>4. AboutToAnnounce'
    BY <1>1, <1>3, <2>1 DEF AboutToAnnounce, ExclusiveClaim, Owns, Claimed
  <2>5. CompletedHasArtifact'
    BY <1>1, <2>1 DEF CompletedHasArtifact, WroteObject
  <2>6. AnnouncedIsFinal'
    BY <1>1, <1>3, <2>1 DEF AnnouncedIsFinal, AboutToAnnounce, ExclusiveClaim,
       Owns, Claimed
  <2> QED BY <2>2, <2>3, <2>4, <2>5, <2>6
<1>14. CASE Complete(w)
  <2> USE <1>14 DEF Complete, SetCompleted, Goto, tableVars
  <2>1. TaskOf(w)' = t
    BY <1>2 DEF TaskOf
  <2>2. ExclusiveClaim'
    BY <1>1, <1>3, <2>1 DEF ExclusiveClaim, Owns, Claimed
  <2>3. WroteObject'
    BY <1>1, <1>3, <2>1 DEF WroteObject
  <2>4. AboutToAnnounce'
    <3>1. Owns(w, t) /\ t \in s3
      BY <1>1 DEF Owns, Claimed, WroteObject
    <3>2. status[t] = "processing" /\ \A v \in Workers \ {w} : ~Owns(v, t)
      BY <1>1, <3>1 DEF ExclusiveClaim
    <3>3. \A v \in Workers : ~Owns(v, t)'
      BY <1>1, <1>3, <2>1, <3>2 DEF Owns, Claimed
    <3>4. ASSUME NEW v \in Workers \ {w}, pc[v] = "announce"
          PROVE  /\ TaskOf(v) \in s3
                 /\ status'[TaskOf(v)] \in {"completed", "processing"}
                 /\ \A x \in Workers : ~Owns(x, TaskOf(v))'
      <4>1. PICK u \in Tasks : u = TaskOf(v) /\ u = TaskOf(v)'
        BY <1>3, <3>4 DEF WorkerHoldsSent, SentNamesTask, TaskOf
      <4>2. /\ u \in s3
            /\ status[u] \in {"completed", "processing"}
            /\ \A x \in Workers : ~Owns(x, u)
        BY <3>4, <4>1 DEF AboutToAnnounce
      <4>3. u # t
        BY <3>1, <4>2
      <4>4. \A x \in Workers : ~Owns(x, u)'
        BY <1>3, <2>1, <4>2, <4>3 DEF Owns
      <4> QED
        BY <1>1, <4>1, <4>2, <4>3, <4>4 DEF Owns
    <3> QED
      BY <1>1, <1>3, <2>1, <3>1, <3>2, <3>3, <3>4 DEF AboutToAnnounce
  <2>5. CompletedHasArtifact'
    BY <1>1, <2>1 DEF CompletedHasArtifact, WroteObject
  <2>6. AnnouncedIsFinal'
    BY <1>1, <1>3, <2>1 DEF AnnouncedIsFinal, AboutToAnnounce, ExclusiveClaim,
       Owns, Claimed
  <2> QED BY <2>2, <2>3, <2>4, <2>5, <2>6
<1>15. CASE Announce(w)
  <2> USE <1>15 DEF Announce, Return, tableVars
  <2>1. \A u \in Tasks : ~Owns(w, u)'
    BY DEF Owns, Claimed
  <2>2. ExclusiveClaim'
    BY <1>1, <1>3, <2>1 DEF ExclusiveClaim, Owns, Claimed
  <2>3. WroteObject'
    BY <1>1, <1>3, <2>1 DEF WroteObject
  <2>4. AboutToAnnounce'
    BY <1>1, <1>3, <2>1 DEF AboutToAnnounce, ExclusiveClaim, Owns, Claimed
  <2>5. CompletedHasArtifact'
    BY <1>1, <2>1 DEF CompletedHasArtifact, WroteObject
  <2>6. AnnouncedIsFinal'
    BY <1>1, <1>3, <2>1 DEF AnnouncedIsFinal, AboutToAnnounce, ExclusiveClaim,
       Owns, Claimed
  <2> QED BY <2>2, <2>3, <2>4, <2>5, <2>6
<1> QED
  BY <1>4, <1>5, <1>6, <1>7, <1>8, <1>9, <1>10, <1>11, <1>12, <1>13, <1>14, <1>15
  DEF WorkerStep, ProcessStep

\* A worker that has just received a message owns nothing yet.
LEMMA PollKeepsClaims ==
  ASSUME IInv, NEW w \in Workers, WorkerPoll(w)
  PROVE  ClaimInv'
<1> USE DEF IInv, RefInv, TypeOK, TableTypeOK, WorkerTypeOK, ClaimInv
<1>1. PICK m \in Messages : PollMessages(w, m)
  BY DEF WorkerPoll, Poll
<1> USE <1>1 DEF PollMessages, ReceiveMessage, tableVars
<1>2. \A v \in Workers \ {w} :
        /\ TaskOf(v)' = TaskOf(v)
        /\ \A u \in Tasks : Owns(v, u)' <=> Owns(v, u)
  BY OthersKeepTasks
<1>3. \A u \in Tasks : ~Owns(w, u)'
  BY DEF Owns, Claimed
<1>4. ExclusiveClaim'
  BY <1>2, <1>3 DEF ExclusiveClaim
<1>5. WroteObject'
  BY <1>2 DEF WroteObject
<1>6. AboutToAnnounce'
  BY <1>2, <1>3 DEF AboutToAnnounce, Owns, Claimed
<1>7. CompletedHasArtifact'
  BY DEF CompletedHasArtifact
<1>8. AnnouncedIsFinal'
  BY <1>2, <1>3 DEF AnnouncedIsFinal
<1> QED BY <1>4, <1>5, <1>6, <1>7, <1>8

\* A worker that stops owns nothing any more.
LEMMA WorkerEndKeepsClaims ==
  ASSUME IInv, NEW w \in Workers, WorkerEnd(w)
  PROVE  ClaimInv'
<1> USE DEF IInv, RefInv, TypeOK, TableTypeOK, WorkerTypeOK, ClaimInv,
            WorkerEnd, WorkerCrash, Return, tableVars, queueVars
<1>1. \A v \in Workers \ {w} :
        /\ TaskOf(v)' = TaskOf(v)
        /\ \A u \in Tasks : Owns(v, u)' <=> Owns(v, u)
  BY OthersKeepTasks
<1>2. \A u \in Tasks : ~Owns(w, u)'
  BY DEF Owns, Claimed
<1>3. ExclusiveClaim'
  BY <1>1, <1>2 DEF ExclusiveClaim
<1>4. WroteObject'
  BY <1>1 DEF WroteObject
<1>5. AboutToAnnounce'
  BY <1>1, <1>2 DEF AboutToAnnounce, Owns, Claimed
<1>6. CompletedHasArtifact'
  BY DEF CompletedHasArtifact
<1>7. AnnouncedIsFinal'
  BY <1>1, <1>2 DEF AnnouncedIsFinal
<1> QED BY <1>3, <1>4, <1>5, <1>6, <1>7

\* The steps of the queue, the handlers and the operators: none of them changes
\* a body that was sent or a row that a worker may own.
LEMMA OutsideSteps ==
  ASSUME RefInv,
         \/ \E m \in Messages : QueueStep(m)
         \/ \E t \in Tasks : ApiRequest(t) \/ ApiStep(t) \/ ApiEnd(t)
         \/ \E o \in Operators : DlqRequest(o) \/ DlqStep(o) \/ DlqEnd(o)
         \/ UNCHANGED vars
  PROVE  /\ BodiesKept /\ ApiMovesOnly
         /\ UNCHANGED <<artifact, pc, held, s3, announced>>
<1> USE DEF RefInv, TypeOK, TableTypeOK, QueueTypeOK, Statuses,
            BodiesKept, ApiMovesOnly, tableVars, queueVars, workerVars
<1>1. CASE \E m \in Messages : QueueStep(m)
  BY <1>1 DEF QueueStep, VisibilityTimeout, Redrive
<1>2. ASSUME NEW t \in Tasks, ApiRequest(t) \/ ApiEnd(t)
      PROVE  /\ BodiesKept /\ ApiMovesOnly
             /\ UNCHANGED <<artifact, pc, held, s3, announced>>
  BY <1>2 DEF ApiRequest, HandlerRequest, CreateTask, ReplayCheck, InsertError,
     InsertTask, ApiEnd, HandlerCrash
<1>3. ASSUME NEW t \in Tasks, ApiStep(t)
      PROVE  /\ BodiesKept /\ ApiMovesOnly
             /\ UNCHANGED <<artifact, pc, held, s3, announced>>
  BY <1>3 DEF ApiStep, HandlerStep, ReplayInsert, ReplayFull,
     ReplayDepthUnknown, Publish, PublishUnknown, PublishError, Reject,
     InsertTask, RejectPending, SendMessage
<1>4. ASSUME NEW o \in Operators, DlqRequest(o) \/ DlqEnd(o)
      PROVE  /\ BodiesKept /\ ApiMovesOnly
             /\ UNCHANGED <<artifact, pc, held, s3, announced>>
  BY <1>4 DEF DlqRequest, OperatorRequest, ListMessages, Retry, DlqDelete,
     Purge, PurgeDlq, DeleteDlqMessage, DlqEnd, RetryCrash
<1>5. ASSUME NEW o \in Operators, DlqStep(o)
      PROVE  /\ BodiesKept /\ ApiMovesOnly
             /\ UNCHANGED <<artifact, pc, held, s3, announced>>
  BY <1>5 DEF DlqStep, RetryStep, RetrySend, RetrySendError, RetryDelete,
     RetryRevert, SendMessage, DeleteDlqMessage, RevertToPendingForRetry
<1>6. CASE UNCHANGED vars
  BY <1>6 DEF vars
<1> QED BY <1>1, <1>2, <1>3, <1>4, <1>5, <1>6

----------------------------------------------------------------------------
\* Initially no worker owns or has announced anything.
LEMMA ClaimInit == Init => ClaimInv
BY DEF Init, TableInit, WorkerInit, ClaimInv, ExclusiveClaim, WroteObject,
       AboutToAnnounce, CompletedHasArtifact, AnnouncedIsFinal, Owns, Claimed

\* Every step keeps the claims, given that the references are sound.
LEMMA ClaimStep == IInv /\ [Next]_vars => ClaimInv'
<1> SUFFICES ASSUME IInv, [Next]_vars PROVE ClaimInv'
  OBVIOUS
<1>1. ASSUME NEW w \in Workers, WorkerPoll(w) \/ WorkerStep(w) \/ WorkerEnd(w)
      PROVE  ClaimInv'
  BY <1>1, PollKeepsClaims, WorkerKeepsClaims, WorkerEndKeepsClaims
<1>2. ASSUME \/ \E m \in Messages : QueueStep(m)
             \/ \E t \in Tasks : ApiRequest(t) \/ ApiStep(t) \/ ApiEnd(t)
             \/ \E o \in Operators : DlqRequest(o) \/ DlqStep(o) \/ DlqEnd(o)
             \/ UNCHANGED vars
      PROVE  ClaimInv'
  BY <1>2, OutsideSteps, OutsideKeepsClaims DEF IInv
<1> QED BY <1>1, <1>2 DEF Next

\* The inductive invariant holds in every behaviour.
LEMMA Inductive == Spec => []IInv
<1>1. Init => IInv
  BY RefInit, ClaimInit DEF IInv
<1>2. IInv /\ [Next]_vars => IInv'
  BY RefStep, ClaimStep DEF IInv
<1> QED BY <1>1, <1>2, PTL DEF Spec

\* At most one worker at a time works on a task, and while it does the row
\* says processing: SetProcessing (worker db/tasks.go) is a lock, however often
\* SQS delivers the message and however many messages name the task.
THEOREM ClaimsAreExclusive == Spec => []ExclusiveClaim
<1>1. IInv => ExclusiveClaim
  BY DEF IInv, ClaimInv
<1> QED BY <1>1, Inductive, PTL

\* A row is completed if and only if it names an artifact, and the object it
\* names has been written to S3 (Process puts the object before SetCompleted).
THEOREM CompletedImpliesArtifact == Spec => []CompletedHasArtifact
<1>1. IInv => CompletedHasArtifact
  BY DEF IInv, ClaimInv
<1> QED BY <1>1, Inductive, PTL

\* What task.completed told the dashboard is never taken back, although
\* Process publishes it even when SetCompleted failed.
THEOREM AnnouncementsAreFinal == Spec => []AnnouncedIsFinal
<1>1. IInv => AnnouncedIsFinal
  BY DEF IInv, ClaimInv
<1> QED BY <1>1, Inductive, PTL
----------------------------------------------------------------------------
(* The rows of unfinished tasks.                                           *)

\* What a step may do to the row of t: the statements of the API and of the
\* worker, as far as status and processing_started_at are concerned.
RowMove(t) ==
  \/ status'[t] = status[t] /\ started'[t] = started[t]
  \/ status[t] = "absent" /\ status'[t] = "pending" /\ started'[t] = started[t]
  \/ status[t] = "pending" /\ status'[t] = "processing" /\ started'[t]
  \/ status'[t] \in {"completed", "failed"}
  \/ status[t] = "processing" /\ status'[t] = "pending" /\ ~started'[t]
  \/ Operators # {} /\ status[t] = "failed" /\ status'[t] = "pending"

\* A row in processing has its start time: the watchdog's query for stuck
\* tasks sees every one of them.
ProcessingIsStarted == \A t \in Tasks : status[t] = "processing" => started[t]

\* A row that nobody works on has no start time, unless it was revived.
WaitingIsNotStarted ==
  \A t \in Tasks : status[t] \in {"absent", "pending"} => ~started[t]

\* The worker's statements make the moves of their WHERE clauses.
LEMMA WorkerMovesRows ==
  ASSUME RefInv, NEW w \in Workers, WorkerPoll(w) \/ WorkerStep(w) \/ WorkerEnd(w)
  PROVE  \A t \in Tasks : RowMove(t)
<1> USE DEF RefInv, TypeOK, TableTypeOK, tableVars, RowMove
<1>1. CASE UNCHANGED tableVars
  BY <1>1
<1>2. CASE SetProcessing(TaskOf(w))
  BY <1>2 DEF SetProcessing, Claimable
<1>3. CASE SetCompleted(TaskOf(w))
  BY <1>3 DEF SetCompleted
<1>4. CASE SetFailed(TaskOf(w))
  BY <1>4 DEF SetFailed
<1>5. CASE RevertToPending(TaskOf(w))
  BY <1>5, Zenon DEF RevertToPending
<1>6. \/ UNCHANGED tableVars \/ SetProcessing(TaskOf(w))
      \/ SetCompleted(TaskOf(w)) \/ SetFailed(TaskOf(w))
      \/ RevertToPending(TaskOf(w))
  BY DEF WorkerPoll, Poll, PollMessages, WorkerEnd, WorkerCrash, WorkerStep,
     ProcessStep, Claim, ClaimConflict, ClaimError, Infer, InferError, Revert,
     Fail, PutObject, PutObjectError, Delete, Complete, Announce
<1> QED BY <1>1, <1>2, <1>3, <1>4, <1>5, <1>6

\* So do the API's, of which one needs an operator.
LEMMA OutsideMovesRows ==
  ASSUME RefInv,
         \/ \E m \in Messages : QueueStep(m)
         \/ \E t \in Tasks : ApiRequest(t) \/ ApiStep(t) \/ ApiEnd(t)
         \/ \E o \in Operators : DlqRequest(o) \/ DlqStep(o) \/ DlqEnd(o)
         \/ UNCHANGED vars
  PROVE  \A t \in Tasks : RowMove(t)
<1> USE DEF RefInv, TypeOK, TableTypeOK, tableVars, RowMove
<1>1. CASE UNCHANGED tableVars
  BY <1>1
<1>2. ASSUME NEW t \in Tasks, InsertTask(t)
      PROVE  \A u \in Tasks : RowMove(u)
  BY <1>2 DEF InsertTask
<1>3. ASSUME NEW t \in Tasks, RejectPending(t)
      PROVE  \A u \in Tasks : RowMove(u)
  BY <1>3 DEF RejectPending
<1>4. ASSUME NEW o \in Operators, NEW t, RevertToPendingForRetry(t)
      PROVE  \A u \in Tasks : RowMove(u)
  BY <1>4 DEF RevertToPendingForRetry
<1>5. ASSUME NEW t \in Tasks, ApiRequest(t) \/ ApiStep(t) \/ ApiEnd(t)
      PROVE  UNCHANGED tableVars \/ InsertTask(t) \/ RejectPending(t)
  BY <1>5 DEF ApiRequest, HandlerRequest, CreateTask, ReplayCheck, InsertError,
     ApiEnd, HandlerCrash, ApiStep, HandlerStep, ReplayInsert, ReplayFull,
     ReplayDepthUnknown, Publish, PublishUnknown, PublishError, Reject
<1>6. ASSUME NEW o \in Operators, DlqRequest(o) \/ DlqStep(o) \/ DlqEnd(o)
      PROVE  UNCHANGED tableVars \/ \E t : RevertToPendingForRetry(t)
  BY <1>6 DEF DlqRequest, OperatorRequest, ListMessages, Retry, DlqDelete,
     Purge, DlqEnd, RetryCrash, DlqStep, RetryStep, RetrySend, RetrySendError,
     RetryDelete, RetryRevert
<1>7. CASE \/ \E m \in Messages : QueueStep(m)
           \/ UNCHANGED vars
  BY <1>1, <1>7 DEF QueueStep, vars
<1> QED BY <1>1, <1>2, <1>3, <1>4, <1>5, <1>6, <1>7

\* Every step moves rows in these ways only.
LEMMA RowMoves == RefInv /\ [Next]_vars => \A t \in Tasks : RowMove(t)
BY WorkerMovesRows, OutsideMovesRows DEF Next

\* Every row in processing has its start time, whatever fails and whoever
\* retries: SetProcessing sets it, and no statement clears it and leaves the
\* row in processing (worker db/tasks.go).
THEOREM StuckTasksAreSeen == Spec => []ProcessingIsStarted
<1>1. Init => ProcessingIsStarted
  BY DEF Init, TableInit, ProcessingIsStarted
<1>2. RefInv /\ ProcessingIsStarted /\ [Next]_vars => ProcessingIsStarted'
  BY RowMoves DEF ProcessingIsStarted, RowMove
<1>3. IInv => RefInv
  BY DEF IInv
<1> QED BY <1>1, <1>2, <1>3, Inductive, PTL DEF Spec

\* As long as nobody retries from the dead-letter queue, every unfinished task
\* is in reach of the watchdog's query for its status.  (A retry revives a row
\* with RevertToPendingForRetry, which keeps the old start time, and the query
\* for abandoned tasks skips that row.)
THEOREM UnfinishedAreWatched ==
  ASSUME Operators = {}
  PROVE  Spec => []UnfinishedIsWatched
<1>1. Init => WaitingIsNotStarted
  BY DEF Init, TableInit, WaitingIsNotStarted
<1>2. RefInv /\ WaitingIsNotStarted /\ [Next]_vars => WaitingIsNotStarted'
  BY RowMoves DEF WaitingIsNotStarted, RowMove
<1>3. IInv => RefInv
  BY DEF IInv
<1>4. ProcessingIsStarted /\ WaitingIsNotStarted => UnfinishedIsWatched
  BY DEF ProcessingIsStarted, WaitingIsNotStarted, UnfinishedIsWatched
<1> QED
  BY <1>1, <1>2, <1>3, <1>4, Inductive, StuckTasksAreSeen, PTL DEF Spec

----------------------------------------------------------------------------
(* The messages of unfinished tasks.                                       *)

\* A handler inserts its row before it does anything else.
InsertComesFirst ==
  \A t \in Tasks : hpc[t] \in {"none", "insert"} => status[t] = "absent"

UnsentIsNew == \A m \in Messages : place[m] = "unsent" => receives[m] = 0

\* What a worker knows of a message that nobody else holds: nobody received it
\* since, until the worker deletes it only the redrive policy takes it away,
\* and a worker about to revert the task has not had the last delivery.
ReceiptIsFresh ==
  \A w \in Workers : pc[w] # "idle" => receives[held[w]] = rcount[w]

HeldStaysQueued ==
  \A w \in Workers : pc[w] \in {"claim", "infer", "revert"} =>
    \/ place[held[w]] \in {"visible", "inflight"}
    \/ receives[held[w]] >= RedriveMax

RevertLeavesReceives ==
  \A w \in Workers : pc[w] = "revert" => rcount[w] < MaxReceiveCount

HeldInv == UnsentIsNew /\ ReceiptIsFresh /\ HeldStaysQueued /\ RevertLeavesReceives

DeliveryInv == InsertComesFirst /\ HeldInv /\ PendingIsDeliverable

\* There are two reasons why nobody else holds it: there is nobody else, or a
\* message never times out in a worker's hand, so that it is not visible.
SoleWorker == \A v, w \in Workers : v = w

OneHolder ==
  \A v, w \in Workers :
    pc[v] # "idle" /\ pc[w] # "idle" /\ held[v] = held[w] => v = w

HeldInFlight ==
  \A w \in Workers : pc[w] # "idle" => place[held[w]] \in {"inflight", "gone"}

AloneInv == OneHolder /\ HeldInFlight

\* Only a handler that has inserted its row leaves its first two calls.
LEMMA InsertFirstStep ==
  RefInv /\ InsertComesFirst /\ [Next]_vars => InsertComesFirst'
<1> SUFFICES ASSUME RefInv, InsertComesFirst, [Next]_vars
             PROVE  InsertComesFirst'
  OBVIOUS
<1> USE DEF InsertComesFirst, RefInv, TypeOK, TableTypeOK, HandlerTypeOK,
            handlerVars
<1>1. ASSUME UNCHANGED hpc,
             \A t \in Tasks : status[t] = "absent" => status'[t] = "absent"
      PROVE  InsertComesFirst'
  BY <1>1
<1>2. CASE \E m \in Messages : QueueStep(m)
  BY <1>1, <1>2 DEF QueueStep, tableVars
<1>3. ASSUME NEW w \in Workers, WorkerPoll(w) \/ WorkerStep(w) \/ WorkerEnd(w)
      PROVE  InsertComesFirst'
  <2>1. UNCHANGED hpc
    BY <1>3 DEF WorkerPoll, WorkerStep, WorkerEnd
  <2>2. \/ UNCHANGED tableVars \/ SetProcessing(TaskOf(w))
        \/ SetCompleted(TaskOf(w)) \/ SetFailed(TaskOf(w))
        \/ RevertToPending(TaskOf(w))
    BY <1>3 DEF WorkerPoll, Poll, PollMessages, WorkerEnd, WorkerCrash,
       WorkerStep, ProcessStep, Claim, ClaimConflict, ClaimError, Infer,
       InferError, Revert, Fail, PutObject, PutObjectError, Delete, Complete,
       Announce
  <2>3. \A t \in Tasks : status[t] = "absent" => status'[t] = "absent"
    BY <2>2 DEF tableVars, SetProcessing, Claimable, SetCompleted, SetFailed,
       RevertToPending
  <2> QED BY <1>1, <2>1, <2>3
<1>4. ASSUME NEW t \in Tasks, ApiRequest(t) \/ ApiStep(t) \/ ApiEnd(t)
      PROVE  InsertComesFirst'
  <2>1. CASE ApiRequest(t)
    BY <2>1 DEF ApiRequest, HandlerRequest, CreateTask, ReplayCheck,
       InsertError, InsertTask, At, Next_hpc, tableVars
  <2>2. CASE ApiStep(t)
    BY <2>2 DEF ApiStep, HandlerStep, ReplayInsert, ReplayFull,
       ReplayDepthUnknown, Publish, PublishUnknown, PublishError, Reject,
       InsertTask, RejectPending, At, Next_hpc, tableVars
  <2>3. CASE ApiEnd(t)
    BY <2>3 DEF ApiEnd, HandlerCrash, Next_hpc, tableVars
  <2> QED BY <1>4, <2>1, <2>2, <2>3
<1>5. ASSUME NEW o \in Operators, DlqRequest(o) \/ DlqStep(o) \/ DlqEnd(o)
      PROVE  InsertComesFirst'
  <2>1. UNCHANGED hpc
    BY <1>5 DEF DlqRequest, DlqStep, DlqEnd
  <2>2. UNCHANGED tableVars \/ \E t : RevertToPendingForRetry(t)
    BY <1>5 DEF DlqRequest, OperatorRequest, ListMessages, Retry, DlqDelete,
       Purge, DlqEnd, RetryCrash, DlqStep, RetryStep, RetrySend,
       RetrySendError, RetryDelete, RetryRevert
  <2>3. \A t \in Tasks : status[t] = "absent" => status'[t] = "absent"
    BY <2>2 DEF tableVars, RevertToPendingForRetry
  <2> QED BY <1>1, <2>1, <2>3
<1>6. CASE UNCHANGED vars
  BY <1>1, <1>6 DEF vars, tableVars
<1> QED BY <1>2, <1>3, <1>4, <1>5, <1>6 DEF Next

\* The queue's own steps keep what the workers know.
LEMMA QueueKeepsHeld ==
  ASSUME RefInv, HeldInv, NEW m \in Messages, QueueStep(m)
  PROVE  HeldInv'
<1> USE DEF RefInv, TypeOK, QueueTypeOK, WorkerTypeOK, WorkerHoldsSent, HeldInv
<1>1. UNCHANGED <<pc, held, rcount, receives>>
  BY DEF QueueStep, VisibilityTimeout, Redrive, workerVars
<1>2. \/ VisibilityTimeout(m) \/ Redrive(m)
  BY DEF QueueStep
<1>3. UnsentIsNew'
  BY <1>1, <1>2 DEF UnsentIsNew, VisibilityTimeout, Redrive
<1>4. ReceiptIsFresh'
  BY <1>1 DEF ReceiptIsFresh
<1>5. \A n \in Messages :
        \/ place'[n] = place[n]
        \/ place'[n] \in {"visible", "inflight"}
        \/ receives[n] >= RedriveMax
  BY <1>2 DEF VisibilityTimeout, Redrive
<1>6. \A w \in Workers : pc[w] # "idle" => held[w] \in Messages
  BY DEF WorkerHoldsSent
<1>7. HeldStaysQueued'
  BY <1>1, <1>5, <1>6 DEF HeldStaysQueued
<1>8. RevertLeavesReceives'
  BY <1>1 DEF RevertLeavesReceives
<1> QED BY <1>3, <1>4, <1>7, <1>8

\* A worker that polls receives a message that nobody holds.
LEMMA PollKeepsHeld ==
  ASSUME RefInv, HeldInv, SoleWorker \/ AloneInv,
         NEW w \in Workers, WorkerPoll(w)
  PROVE  HeldInv'
<1> USE DEF RefInv, TypeOK, QueueTypeOK, WorkerTypeOK, HeldInv
<1>1. PICK m \in Messages : PollMessages(w, m)
  BY DEF WorkerPoll, Poll
<1>2. /\ place[m] = "visible" /\ place' = [place EXCEPT ![m] = "inflight"]
      /\ receives' = [receives EXCEPT ![m] = @ + 1]
      /\ pc[w] = "idle"
      /\ pc' = [pc EXCEPT ![w] = "claim"]
      /\ held' = [held EXCEPT ![w] = m]
      /\ rcount' = [rcount EXCEPT ![w] = receives[m] + 1]
  BY <1>1 DEF PollMessages, ReceiveMessage
<1>3. /\ pc'[w] = "claim" /\ held'[w] = m /\ rcount'[w] = receives[m] + 1
      /\ receives'[m] = receives[m] + 1 /\ place'[m] = "inflight"
  BY <1>2
<1>4. \A v \in Workers \ {w} :
        /\ pc'[v] = pc[v] /\ held'[v] = held[v] /\ rcount'[v] = rcount[v]
        /\ pc[v] # "idle" => /\ held[v] # m
                             /\ receives'[held[v]] = receives[held[v]]
                             /\ place'[held[v]] = place[held[v]]
  <2>1. \A v \in Workers \ {w} : pc[v] # "idle" => held[v] # m
    BY <1>2 DEF SoleWorker, AloneInv, HeldInFlight
  <2> QED BY <1>2, <2>1 DEF WorkerHoldsSent
<1>5. UnsentIsNew'
  BY <1>2 DEF UnsentIsNew
<1>6. ReceiptIsFresh'
  BY <1>3, <1>4 DEF ReceiptIsFresh
<1>7. HeldStaysQueued'
  BY <1>3, <1>4 DEF HeldStaysQueued
<1>8. RevertLeavesReceives'
  BY <1>3, <1>4 DEF RevertLeavesReceives
<1> QED BY <1>5, <1>6, <1>7, <1>8

\* The calls of Process: only the last two use the queue, when the claim on
\* the task has been won.
LEMMA WorkerKeepsHeld ==
  ASSUME RefInv, HeldInv, SoleWorker \/ AloneInv, NEW w \in Workers,
         WorkerStep(w) \/ WorkerEnd(w)
  PROVE  HeldInv'
<1> USE DEF RefInv, TypeOK, QueueTypeOK, WorkerTypeOK, HeldInv
<1>1. UNCHANGED receives
  BY DEF WorkerStep, ProcessStep, Claim, ClaimConflict, ClaimError, Infer,
     InferError, Revert, Fail, PutObject, PutObjectError, Delete, Complete,
     Announce, WorkerEnd, WorkerCrash, DeleteMessage, queueVars
<1>2. \/ UNCHANGED place
      \/ pc'[w] = "complete" /\ \A n \in Messages : place'[n] = "unsent" => place[n] = "unsent"
  BY DEF WorkerStep, ProcessStep, Claim, ClaimConflict, ClaimError, Infer,
     InferError, Revert, Fail, PutObject, PutObjectError, Delete, Complete,
     Announce, WorkerEnd, WorkerCrash, DeleteMessage, Goto, queueVars
<1>3. \/ pc'[w] = "idle"
      \/ pc[w] # "idle" /\ UNCHANGED <<held, rcount>>
  BY DEF WorkerStep, ProcessStep, Claim, ClaimConflict, ClaimError, Infer,
     InferError, Revert, Fail, PutObject, PutObjectError, Delete, Complete,
     Announce, WorkerEnd, WorkerCrash, Goto, Return
<1>4. pc'[w] \in {"claim", "infer", "revert"} => pc[w] \in {"claim", "infer", "revert"}
  BY DEF WorkerStep, ProcessStep, Claim, ClaimConflict, ClaimError, Infer,
     InferError, Revert, Fail, PutObject, PutObjectError, Delete, Complete,
     Announce, WorkerEnd, WorkerCrash, Goto, Return
<1>5. pc'[w] = "revert" => rcount[w] < MaxReceiveCount
  BY ReceiveAssumption
  DEF WorkerStep, ProcessStep, Claim, ClaimConflict, ClaimError, Infer,
     InferError, Revert, Fail, PutObject, PutObjectError, Delete, Complete,
     Announce, WorkerEnd, WorkerCrash, Goto, Return
<1>6. pc[w] # "idle" /\ \A n \in Messages : n # held[w] => place'[n] = place[n]
  BY DEF WorkerStep, ProcessStep, Claim, ClaimConflict, ClaimError, Infer,
     InferError, Revert, Fail, PutObject, PutObjectError, Delete, Complete,
     Announce, WorkerEnd, WorkerCrash, DeleteMessage, queueVars
<1>7. \A v \in Workers \ {w} :
        /\ pc'[v] = pc[v] /\ held'[v] = held[v] /\ rcount'[v] = rcount[v]
        /\ pc[v] # "idle" => place'[held[v]] = place[held[v]]
  <2>1. \A v \in Workers \ {w} :
          pc'[v] = pc[v] /\ held'[v] = held[v] /\ rcount'[v] = rcount[v]
    BY DEF WorkerStep, ProcessStep, Claim, ClaimConflict, ClaimError, Infer,
       InferError, Revert, Fail, PutObject, PutObjectError, Delete, Complete,
       Announce, WorkerEnd, WorkerCrash, Goto, Return
  <2>2. \A v \in Workers \ {w} : pc[v] # "idle" => held[v] # held[w]
    BY <1>6 DEF SoleWorker, AloneInv, OneHolder
  <2> QED BY <1>6, <2>1, <2>2 DEF WorkerHoldsSent
<1>8. UnsentIsNew'
  BY <1>1, <1>2 DEF UnsentIsNew
<1>9. ReceiptIsFresh'
  BY <1>1, <1>3, <1>7 DEF ReceiptIsFresh
<1>10. HeldStaysQueued'
  BY <1>1, <1>2, <1>3, <1>4, <1>7 DEF HeldStaysQueued
<1>11. RevertLeavesReceives'
  BY <1>3, <1>5, <1>7 DEF RevertLeavesReceives
<1> QED BY <1>8, <1>9, <1>10, <1>11

\* A handler touches messages only to send new ones.
LEMMA ApiKeepsHeld ==
  ASSUME RefInv, HeldInv, NEW t \in Tasks,
         ApiRequest(t) \/ ApiStep(t) \/ ApiEnd(t)
  PROVE  HeldInv'
<1> USE DEF RefInv, TypeOK, QueueTypeOK, WorkerTypeOK, HeldInv
<1>1. UNCHANGED <<pc, held, rcount, receives>>
  BY DEF ApiRequest, HandlerRequest, CreateTask, ReplayCheck, InsertError,
     ApiEnd, HandlerCrash, ApiStep, HandlerStep, ReplayInsert, ReplayFull,
     ReplayDepthUnknown, Publish, PublishUnknown, PublishError, Reject,
     SendMessage, queueVars, workerVars
<1>2. \A m \in Messages : place'[m] = place[m] \/ place'[m] = "visible"
  BY DEF ApiRequest, HandlerRequest, CreateTask, ReplayCheck, InsertError,
     ApiEnd, HandlerCrash, ApiStep, HandlerStep, ReplayInsert, ReplayFull,
     ReplayDepthUnknown, Publish, PublishUnknown, PublishError, Reject,
     SendMessage, queueVars
<1>3. UnsentIsNew'
  BY <1>1, <1>2 DEF UnsentIsNew
<1>4. ReceiptIsFresh'
  BY <1>1 DEF ReceiptIsFresh
<1>5. \A w \in Workers : pc[w] # "idle" => held[w] \in Messages
  BY DEF WorkerHoldsSent
<1>6. HeldStaysQueued'
  BY <1>1, <1>2, <1>5 DEF HeldStaysQueued
<1>7. RevertLeavesReceives'
  BY <1>1 DEF RevertLeavesReceives
<1> QED BY <1>3, <1>4, <1>6, <1>7

\* Without retries, every step keeps what the workers know of their messages.
LEMMA HeldStep ==
  ASSUME Operators = {}
  PROVE  RefInv /\ HeldInv /\ (SoleWorker \/ AloneInv) /\ [Next]_vars => HeldInv'
<1> SUFFICES ASSUME RefInv, HeldInv, SoleWorker \/ AloneInv, [Next]_vars
             PROVE  HeldInv'
  OBVIOUS
<1>1. CASE UNCHANGED vars
  BY <1>1 DEF vars, queueVars, workerVars, HeldInv, UnsentIsNew,
     ReceiptIsFresh, HeldStaysQueued, RevertLeavesReceives
<1> QED
  BY <1>1, QueueKeepsHeld, PollKeepsHeld, WorkerKeepsHeld, ApiKeepsHeld DEF Next

\* A message that a worker holds does not become visible when nothing that the
\* worker does lasts longer than the visibility timeout.
LEMMA AloneStep ==
  ASSUME Operators = {}, SlowCalls = {}
  PROVE  RefInv /\ AloneInv /\ [Next]_vars => AloneInv'
<1> SUFFICES ASSUME RefInv, AloneInv, [Next]_vars PROVE AloneInv'
  OBVIOUS
<1> USE DEF RefInv, TypeOK, QueueTypeOK, WorkerTypeOK, WorkerHoldsSent,
            AloneInv, OneHolder, HeldInFlight
<1>1. ASSUME NEW m \in Messages, QueueStep(m) PROVE AloneInv'
  <2>1. UNCHANGED <<pc, held>>
    BY <1>1 DEF QueueStep, workerVars
  <2>2. \A w \in Workers : pc[w] # "idle" => held[w] # m
    BY <1>1 DEF QueueStep, MayExpire, Redrive
  <2>3. \A n \in Messages : n # m => place'[n] = place[n]
    BY <1>1 DEF QueueStep, VisibilityTimeout, Redrive
  <2> QED BY <2>1, <2>2, <2>3
<1>2. ASSUME NEW w \in Workers, WorkerPoll(w) PROVE AloneInv'
  <2>1. PICK m \in Messages : PollMessages(w, m)
    BY <1>2 DEF WorkerPoll, Poll
  <2>2. /\ place[m] = "visible" /\ place'[m] = "inflight" /\ held'[w] = m
        /\ \A n \in Messages \ {m} : place'[n] = place[n]
        /\ \A v \in Workers \ {w} : pc'[v] = pc[v] /\ held'[v] = held[v]
    BY <2>1 DEF PollMessages, ReceiveMessage
  <2>3. \A v \in Workers : pc[v] # "idle" => held[v] \in Messages \ {m}
    BY <2>2
  <2> QED BY <2>2, <2>3
<1>3. ASSUME NEW w \in Workers, WorkerStep(w) \/ WorkerEnd(w) PROVE AloneInv'
  <2>1. /\ pc[w] # "idle"
        /\ pc'[w] = "idle" \/ held'[w] = held[w]
        /\ \A v \in Workers \ {w} : pc'[v] = pc[v] /\ held'[v] = held[v]
    BY <1>3 DEF WorkerStep, ProcessStep, Claim, ClaimConflict, ClaimError,
       Infer, InferError, Revert, Fail, PutObject, PutObjectError, Delete,
       Complete, Announce, WorkerEnd, WorkerCrash, Goto, Return
  <2>2. \A n \in Messages : place'[n] = place[n] \/ place'[n] = "gone"
    BY <1>3 DEF WorkerStep, ProcessStep, Claim, ClaimConflict, ClaimError,
       Infer, InferError, Revert, Fail, PutObject, PutObjectError, Delete,
       Complete, Announce, WorkerEnd, WorkerCrash, DeleteMessage, queueVars
  <2>3. \A v \in Workers : pc'[v] # "idle" => pc[v] # "idle" /\ held'[v] = held[v]
    BY <2>1
  <2> QED BY <2>2, <2>3
<1>4. ASSUME NEW t \in Tasks, ApiRequest(t) \/ ApiStep(t) \/ ApiEnd(t)
      PROVE  AloneInv'
  <2>1. UNCHANGED <<pc, held>>
    BY <1>4 DEF ApiRequest, ApiStep, ApiEnd, workerVars
  <2>2. \A m \in Messages : place'[m] = place[m] \/ place[m] = "unsent"
    BY <1>4 DEF ApiRequest, HandlerRequest, CreateTask, ReplayCheck,
       InsertError, ApiEnd, HandlerCrash, ApiStep, HandlerStep, ReplayInsert,
       ReplayFull, ReplayDepthUnknown, Publish, PublishUnknown, PublishError,
       Reject, SendMessage, queueVars
  <2> QED BY <2>1, <2>2
<1>5. CASE UNCHANGED vars
  BY <1>5 DEF vars, queueVars, workerVars
<1> QED BY <1>1, <1>2, <1>3, <1>4, <1>5 DEF Next

\* t has a message that will be delivered, or is about to be used.
HasDelivery(t) == \E m \in Messages : body[m] = t /\ Deliverable(m)

\* A task that has a delivery to come keeps it while the worker does nothing,
\* the bodies stay and messages leave the queue only by the redrive policy.
LEMMA DeliveryLasts ==
  ASSUME RefInv, NEW t \in Tasks, HasDelivery(t),
         BodiesKept, UNCHANGED <<pc, held, receives>>,
         \A m \in Messages :
           \/ place'[m] = place[m]
           \/ place'[m] = "visible"
           \/ place[m] \notin {"visible", "inflight"}
           \/ receives[m] >= RedriveMax
  PROVE  HasDelivery(t)'
<1> USE DEF RefInv, TypeOK, QueueTypeOK, BodiesKept
<1>1. PICK m \in Messages : body[m] = t /\ Deliverable(m)
  BY DEF HasDelivery
<1>2. place[m] # "unsent"
  BY <1>1 DEF Deliverable, WorkerHoldsSent
<1>3. body'[m] = t
  BY <1>1, <1>2
<1>4. CASE place[m] \in {"visible", "inflight"} /\ receives[m] < RedriveMax
  <2>1. place'[m] \in {"visible", "inflight"}
    BY <1>4, RedriveAssumption
  <2> QED BY <1>3, <1>4, <2>1 DEF HasDelivery, Deliverable
<1>5. CASE \E w \in Workers : held[w] = m /\ pc[w] = "claim"
  BY <1>3, <1>5 DEF HasDelivery, Deliverable
<1> QED BY <1>1, <1>4, <1>5 DEF Deliverable

\* The queue's own steps do not take away a delivery that is still to come.
LEMMA QueueKeepsDelivery ==
  ASSUME RefInv, NEW m \in Messages, QueueStep(m), NEW t \in Tasks, HasDelivery(t)
  PROVE  HasDelivery(t)'
<1> USE DEF RefInv, TypeOK, QueueTypeOK
<1>1. VisibilityTimeout(m) \/ Redrive(m)
  BY DEF QueueStep
<1>2. BodiesKept /\ UNCHANGED <<pc, held, receives>>
  BY <1>1 DEF QueueStep, VisibilityTimeout, Redrive, workerVars, BodiesKept
<1>3. \A n \in Messages :
        \/ place'[n] = place[n]
        \/ place'[n] = "visible"
        \/ receives[n] >= RedriveMax
  BY <1>1 DEF VisibilityTimeout, Redrive
<1> QED BY <1>2, <1>3, DeliveryLasts

\* A message that is received is about to be used.
LEMMA PollKeepsDelivery ==
  ASSUME RefInv, NEW w \in Workers, WorkerPoll(w),
         NEW t \in Tasks, HasDelivery(t)
  PROVE  HasDelivery(t)'
<1> USE DEF RefInv, TypeOK, QueueTypeOK, WorkerTypeOK
<1>1. PICK n \in Messages : PollMessages(w, n)
  BY DEF WorkerPoll, Poll
<1>2. /\ pc[w] = "idle" /\ UNCHANGED body
      /\ pc'[w] = "claim" /\ held'[w] = n
      /\ \A m \in Messages \ {n} :
           place'[m] = place[m] /\ receives'[m] = receives[m]
      /\ \A v \in Workers \ {w} : pc'[v] = pc[v] /\ held'[v] = held[v]
  BY <1>1 DEF PollMessages, ReceiveMessage
<1>3. PICK m \in Messages : body[m] = t /\ Deliverable(m)
  BY DEF HasDelivery
<1>4. CASE m = n
  BY <1>2, <1>3, <1>4 DEF HasDelivery, Deliverable
<1>5. CASE m # n
  <2>1. CASE place[m] \in {"visible", "inflight"} /\ receives[m] < RedriveMax
    BY <1>2, <1>3, <1>5, <2>1 DEF HasDelivery, Deliverable
  <2>2. CASE \E v \in Workers : held[v] = m /\ pc[v] = "claim"
    BY <1>2, <1>3, <2>2 DEF HasDelivery, Deliverable
  <2> QED BY <1>3, <2>1, <2>2 DEF Deliverable
<1> QED BY <1>4, <1>5

\* A call of Process for one task leaves the messages of the others alone: it
\* deletes only its own.
LEMMA WorkerKeepsDelivery ==
  ASSUME RefInv, NEW w \in Workers, WorkerStep(w),
         NEW t \in Tasks, t # TaskOf(w), HasDelivery(t)
  PROVE  HasDelivery(t)'
<1> USE DEF RefInv, TypeOK, QueueTypeOK, WorkerTypeOK
<1>1. UNCHANGED <<body, receives>>
  BY DEF WorkerStep, ProcessStep, Claim, ClaimConflict, ClaimError, Infer,
     InferError, Revert, Fail, PutObject, PutObjectError, Delete, Complete,
     Announce, DeleteMessage, queueVars
<1>2. UNCHANGED place \/ DeleteMessage(held[w], rcount[w])
  BY DEF WorkerStep, ProcessStep, Claim, ClaimConflict, ClaimError, Infer,
     InferError, Revert, Fail, PutObject, PutObjectError, Delete, Complete,
     Announce, queueVars
<1>3. \A m \in Messages : m # held[w] => place'[m] = place[m]
  BY <1>2 DEF DeleteMessage
<1>4. PICK m \in Messages : body[m] = t /\ Deliverable(m)
  BY DEF HasDelivery
<1>5. m # held[w]
  BY <1>4 DEF TaskOf
<1>6. \A v \in Workers \ {w} : pc'[v] = pc[v] /\ held'[v] = held[v]
  BY DEF WorkerStep, ProcessStep, Claim, ClaimConflict, ClaimError, Infer,
     InferError, Revert, Fail, PutObject, PutObjectError, Delete, Complete,
     Announce, Goto, Return
<1>7. CASE place[m] \in {"visible", "inflight"} /\ receives[m] < RedriveMax
  BY <1>1, <1>3, <1>4, <1>5, <1>7 DEF HasDelivery, Deliverable
<1>8. CASE \E v \in Workers : held[v] = m /\ pc[v] = "claim"
  BY <1>1, <1>4, <1>5, <1>6, <1>8 DEF HasDelivery, Deliverable
<1> QED BY <1>4, <1>7, <1>8 DEF Deliverable

\* When a worker leaves its own task pending without a fault, the
\* message it holds has a delivery left.
LEMMA RevertedIsDelivered ==
  ASSUME IInv, HeldInv, NEW w \in Workers, WorkerStep(w),
         NEW t \in Tasks, t = TaskOf(w), faults' = 0, status'[t] = "pending"
  PROVE  HasDelivery(t)'
<1> DEFINE m == held[w]
<1> USE DEF IInv, ClaimInv, RefInv, TypeOK, TableTypeOK, QueueTypeOK, FaultTypeOK,
            WorkerTypeOK
<1>1. pc[w] # "idle" /\ m \in Messages /\ place[m] # "unsent"
  <2>1. pc[w] # "idle"
    BY DEF WorkerStep, ProcessStep, Claim, ClaimConflict, ClaimError, Infer,
       InferError, Revert, Fail, PutObject, PutObjectError, Delete, Complete,
       Announce
  <2> QED BY <2>1 DEF WorkerHoldsSent
<1>2. pc[w] \in Claimed => status[t] = "processing"
  BY <1>1 DEF ExclusiveClaim, Owns
<1>3. pc[w] = "announce" => status[t] \in {"completed", "processing"}
  BY DEF AboutToAnnounce
<1>4. ~Fault
  BY FaultAssumption DEF Fault
<1>5. pc[w] = "revert" /\ UNCHANGED queueVars
  <2>1. CASE Claim(w)
    BY <1>1, <2>1 DEF Claim, SetProcessing
  <2>2. CASE ClaimConflict(w)
    BY <2>2 DEF ClaimConflict, Claimable, tableVars
  <2>3. CASE ClaimError(w)
    BY <1>4, <2>3 DEF ClaimError
  <2>4. CASE Infer(w) \/ InferError(w) \/ PutObject(w) \/ PutObjectError(w) \/ Delete(w)
    BY <1>2, <2>4 DEF Infer, InferError, PutObject, PutObjectError, Delete,
       tableVars, Claimed
  <2>5. CASE Revert(w)
    BY <2>5 DEF Revert
  <2>6. CASE Fail(w)
    BY <1>1, <1>2, <1>4, <2>6 DEF Fail, SetFailed, Claimed
  <2>7. CASE Complete(w)
    BY <1>1, <1>2, <1>4, <2>7 DEF Complete, SetCompleted, Claimed
  <2>8. CASE Announce(w)
    BY <1>3, <2>8 DEF Announce, tableVars
  <2> QED BY <2>1, <2>2, <2>3, <2>4, <2>5, <2>6, <2>7, <2>8
        DEF WorkerStep, ProcessStep
<1>6. receives[m] = rcount[w] /\ rcount[w] < MaxReceiveCount
  BY <1>5 DEF HeldInv, ReceiptIsFresh, RevertLeavesReceives
<1>7. receives[m] < RedriveMax /\ receives[m] \in Nat
  BY <1>1, <1>6, ReceiveAssumption, RedriveAssumption
<1>8. place[m] \in {"visible", "inflight"}
  BY <1>5, <1>7, RedriveAssumption DEF HeldInv, HeldStaysQueued
<1>9. place'[m] = place[m] /\ receives'[m] = receives[m] /\ body'[m] = t
  BY <1>5 DEF queueVars, TaskOf
<1> QED BY <1>1, <1>7, <1>8, <1>9 DEF HasDelivery, Deliverable

\* A handler that ends without a fault or a crash either has sent a message,
\* which nobody has received yet, or leaves no pending row.
LEMMA ApiKeepsDelivery ==
  ASSUME RefInv, InsertComesFirst, UnsentIsNew, NEW u \in Tasks,
         ApiRequest(u) \/ ApiStep(u) \/ ApiEnd(u),
         faults' = 0, crashes' = 0,
         NEW t \in Tasks, status'[t] = "pending", hpc'[t] = "done",
         status[t] = "pending" /\ hpc[t] = "done" => HasDelivery(t)
  PROVE  HasDelivery(t)'
<1> USE DEF RefInv, TypeOK, TableTypeOK, QueueTypeOK, FaultTypeOK, HandlerTypeOK
<1>1. ~Fault /\ ~CrashHappens
  BY FaultAssumption DEF Fault, CrashHappens
<1>2. CASE \E m \in Messages : Publish(u, m) /\ t = u
  <2>1. PICK m \in Messages : Publish(u, m) /\ t = u
    BY <1>2
  <2>2. place[m] = "unsent" /\ place'[m] = "visible" /\ body'[m] = t
    BY <2>1 DEF Publish, SendMessage
  <2>3. receives'[m] = 0
    BY <2>1, <2>2 DEF UnsentIsNew, Publish, SendMessage
  <2> QED BY <2>2, <2>3, RedriveAssumption DEF HasDelivery, Deliverable
<1>3. CASE ~ \E m \in Messages : Publish(u, m) /\ t = u
  <2>1. t = u => hpc[u] # "done"
    BY DEF ApiRequest, HandlerRequest, CreateTask, ReplayCheck, InsertError,
       ApiEnd, HandlerCrash, ApiStep, HandlerStep, ReplayInsert, ReplayFull,
       ReplayDepthUnknown, Publish, PublishUnknown, PublishError, Reject, At
  <2>2. t # u
    <3> SUFFICES ASSUME t = u PROVE FALSE
      OBVIOUS
    <3>1. CASE ApiRequest(u)
      BY <1>1, <3>1 DEF ApiRequest, HandlerRequest, CreateTask, ReplayCheck,
         InsertError, InsertComesFirst, At, Next_hpc, tableVars
    <3>2. CASE ApiEnd(u)
      BY <1>1, <3>2 DEF ApiEnd, HandlerCrash
    <3>3. CASE ApiStep(u)
      <4>1. CASE Reject(u)
        BY <1>1, <4>1 DEF Reject, RejectPending
      <4>2. CASE ReplayFull(u)
        BY <4>2 DEF ReplayFull, InsertComesFirst, At, tableVars
      <4>3. CASE ReplayInsert(u) \/ ReplayDepthUnknown(u) \/ PublishError(u)
        BY <4>3 DEF ReplayInsert, ReplayDepthUnknown, PublishError, Next_hpc
      <4>4. CASE \E m \in Messages : Publish(u, m) \/ PublishUnknown(u, m)
        BY <1>1, <1>3, <4>4 DEF PublishUnknown
      <4> QED BY <3>3, <4>1, <4>2, <4>3, <4>4 DEF ApiStep, HandlerStep
    <3> QED BY <3>1, <3>2, <3>3
  <2>3. status[t] = "pending" /\ hpc[t] = "done"
    BY <2>2 DEF ApiRequest, HandlerRequest, CreateTask, ReplayCheck,
       InsertError, ApiEnd, HandlerCrash, ApiStep, HandlerStep, ReplayInsert,
       ReplayFull, ReplayDepthUnknown, Publish, PublishUnknown, PublishError,
       Reject, InsertTask, RejectPending, Next_hpc, tableVars
  <2>4. UNCHANGED <<pc, held, receives>>
    BY DEF ApiRequest, HandlerRequest, CreateTask, ReplayCheck, InsertError,
       ApiEnd, HandlerCrash, ApiStep, HandlerStep, ReplayInsert, ReplayFull,
       ReplayDepthUnknown, Publish, PublishUnknown, PublishError, Reject,
       SendMessage, queueVars, workerVars
  <2>5. \A m \in Messages : place'[m] = place[m] \/ place'[m] = "visible"
    BY DEF ApiRequest, HandlerRequest, CreateTask, ReplayCheck, InsertError,
       ApiEnd, HandlerCrash, ApiStep, HandlerStep, ReplayInsert, ReplayFull,
       ReplayDepthUnknown, Publish, PublishUnknown, PublishError, Reject,
       SendMessage, queueVars
  <2> QED BY <2>3, <2>4, <2>5, OutsideSteps, DeliveryLasts
<1> QED BY <1>2, <1>3

\* The faults and crashes of a behaviour are never taken back.
LEMMA QuietBefore ==
  ASSUME RefInv, [Next]_vars, faults' = 0, crashes' = 0
  PROVE  faults = 0 /\ crashes = 0
<1> USE FaultAssumption DEF RefInv, TypeOK, FaultTypeOK, faultVars
<1>1. UNCHANGED faultVars \/ Fault \/ CrashHappens
  <2>1. ASSUME NEW w \in Workers, WorkerPoll(w) \/ WorkerStep(w) \/ WorkerEnd(w)
        PROVE  UNCHANGED faultVars \/ Fault \/ CrashHappens
    BY <2>1 DEF WorkerPoll, Poll, PollMessages, WorkerEnd, WorkerCrash,
       WorkerStep, ProcessStep, Claim, ClaimConflict, ClaimError, Infer,
       InferError, Revert, Fail, PutObject, PutObjectError, Delete, Complete,
       Announce
  <2>2. ASSUME NEW t \in Tasks, ApiRequest(t) \/ ApiStep(t) \/ ApiEnd(t)
        PROVE  UNCHANGED faultVars \/ Fault \/ CrashHappens
    BY <2>2 DEF ApiRequest, HandlerRequest, CreateTask, ReplayCheck,
       InsertError, ApiEnd, HandlerCrash, ApiStep, HandlerStep, ReplayInsert,
       ReplayFull, ReplayDepthUnknown, Publish, PublishUnknown, PublishError,
       Reject
  <2>3. ASSUME NEW o \in Operators, DlqRequest(o) \/ DlqStep(o) \/ DlqEnd(o)
        PROVE  UNCHANGED faultVars \/ Fault \/ CrashHappens
    BY <2>3 DEF DlqRequest, OperatorRequest, ListMessages, Retry, DlqDelete,
       Purge, DlqEnd, RetryCrash, DlqStep, RetryStep, RetrySend,
       RetrySendError, RetryDelete, RetryRevert
  <2> QED BY <2>1, <2>2, <2>3 DEF Next, QueueStep, vars
<1> QED BY <1>1 DEF Fault, CrashHappens

\* Without retries, every step keeps the deliveries.
LEMMA DeliveryStep ==
  ASSUME Operators = {}
  PROVE  IInv /\ DeliveryInv /\ [Next]_vars => PendingIsDeliverable'
<1> SUFFICES ASSUME IInv, DeliveryInv, [Next]_vars, faults' = 0, crashes' = 0,
                    NEW t \in Tasks, status'[t] = "pending", hpc'[t] = "done"
             PROVE  HasDelivery(t)'
  BY DEF PendingIsDeliverable, HasDelivery
<1> USE DEF IInv, DeliveryInv
<1>1. status[t] = "pending" /\ hpc[t] = "done" => HasDelivery(t)
  BY QuietBefore DEF PendingIsDeliverable, HasDelivery
<1>2. ASSUME NEW m \in Messages, QueueStep(m) PROVE HasDelivery(t)'
  <2>1. status[t] = "pending" /\ hpc[t] = "done"
    BY <1>2 DEF QueueStep, tableVars, handlerVars
  <2> QED BY <1>1, <1>2, <2>1, QueueKeepsDelivery
<1>3. ASSUME NEW w \in Workers, WorkerPoll(w) PROVE HasDelivery(t)'
  <2>1. status[t] = "pending" /\ hpc[t] = "done"
    BY <1>3 DEF WorkerPoll, Poll, PollMessages, tableVars, handlerVars
  <2> QED BY <1>1, <1>3, <2>1, PollKeepsDelivery
<1>4. ASSUME NEW w \in Workers, WorkerStep(w) PROVE HasDelivery(t)'
  <2>1. CASE t = TaskOf(w)
    BY <1>4, <2>1, RevertedIsDelivered
  <2>2. CASE t # TaskOf(w)
    <3>1. hpc[t] = "done"
      BY <1>4 DEF WorkerStep, handlerVars
    <3>2. \/ UNCHANGED tableVars \/ SetProcessing(TaskOf(w))
          \/ SetCompleted(TaskOf(w)) \/ SetFailed(TaskOf(w))
          \/ RevertToPending(TaskOf(w))
      BY <1>4 DEF WorkerStep, ProcessStep, Claim, ClaimConflict, ClaimError,
         Infer, InferError, Revert, Fail, PutObject, PutObjectError, Delete,
         Complete, Announce
    <3>3. status[t] = "pending"
      BY <2>2, <3>2 DEF tableVars, SetProcessing, SetCompleted, SetFailed,
         RevertToPending, RefInv, TypeOK, TableTypeOK
    <3> QED BY <1>1, <1>4, <2>2, <3>1, <3>3, WorkerKeepsDelivery
  <2> QED BY <2>1, <2>2
<1>5. ASSUME NEW w \in Workers, WorkerEnd(w) PROVE HasDelivery(t)'
  BY <1>5, FaultAssumption DEF WorkerEnd, WorkerCrash, CrashHappens, RefInv,
     TypeOK, FaultTypeOK
<1>6. ASSUME NEW u \in Tasks, ApiRequest(u) \/ ApiStep(u) \/ ApiEnd(u)
      PROVE  HasDelivery(t)'
  BY <1>1, <1>6, ApiKeepsDelivery DEF HeldInv
<1>7. CASE UNCHANGED vars
  <2>1. HasDelivery(t)
    BY <1>1, <1>7 DEF vars, tableVars, handlerVars
  <2> QED BY <1>7, <2>1 DEF HasDelivery, Deliverable, vars, queueVars, workerVars
<1> QED BY <1>2, <1>3, <1>4, <1>5, <1>6, <1>7 DEF Next

\* Initially nothing was sent and nobody holds anything.
LEMMA DeliveryInit == Init => DeliveryInv /\ AloneInv
BY DEF Init, TableInit, QueueInit, WorkerInit, HandlerInit, DeliveryInv,
       HeldInv, InsertComesFirst, UnsentIsNew, ReceiptIsFresh, HeldStaysQueued,
       RevertLeavesReceives, PendingIsDeliverable, AloneInv, OneHolder,
       HeldInFlight

\* With one worker, as long as nothing failed, nothing crashed and nobody
\* retried, a pending task whose handler has finished has a message that is
\* still to be delivered ("task reverted to pending - will retry via SQS"):
\* the worker gives a task up no later than the queue gives up its message.
\* (A second worker can receive the last delivery while the first is still
\* about to revert the row, and the reverted task has no delivery left.)
THEOREM PendingTasksAreDelivered ==
  ASSUME Operators = {}, SoleWorker
  PROVE  Spec => []PendingIsDeliverable
<1>1. Init => DeliveryInv
  BY DeliveryInit
<1>2. IInv /\ DeliveryInv /\ [Next]_vars => DeliveryInv'
  BY InsertFirstStep, HeldStep, DeliveryStep DEF DeliveryInv, IInv
<1>3. DeliveryInv => PendingIsDeliverable
  BY DEF DeliveryInv
<1> QED BY <1>1, <1>2, <1>3, Inductive, PTL DEF Spec

\* The same holds for any number of workers if no message becomes visible
\* while a worker is busy with it: what takes the last delivery away is the
\* visibility timeout (360 s) that is shorter than an inference may take
\* (570 s), and not the number of workers.
THEOREM TimelyTasksAreDelivered ==
  ASSUME Operators = {}, SlowCalls = {}
  PROVE  Spec => []PendingIsDeliverable
<1>1. Init => DeliveryInv /\ AloneInv
  BY DeliveryInit
<1>2. IInv /\ DeliveryInv /\ AloneInv /\ [Next]_vars => DeliveryInv'
  BY InsertFirstStep, HeldStep, DeliveryStep DEF DeliveryInv, IInv
<1>3. IInv /\ AloneInv /\ [Next]_vars => AloneInv'
  BY AloneStep DEF IInv
<1>4. DeliveryInv => PendingIsDeliverable
  BY DEF DeliveryInv
<1> QED BY <1>1, <1>2, <1>3, <1>4, Inductive, PTL DEF Spec

----------------------------------------------------------------------------
(* The way of a message through the queues.                                *)

\* A bound on how often a message can still move: a receive uses up one of its
\* RedriveMax receives, and nothing comes back from the dead-letter queue.
MovesLeft(m) ==
  CASE place[m] = "unsent"   -> 2 * RedriveMax + 3
    [] place[m] = "inflight" -> 2 * (RedriveMax - receives[m]) + 3
    [] place[m] = "visible"  -> 2 * (RedriveMax - receives[m]) + 2
    [] place[m] = "dlq"      -> 1
    [] OTHER                 -> 0

\* What a step may do to the message m.
MessageMove(m) ==
  \/ place'[m] = place[m] /\ receives'[m] = receives[m]
  \/ /\ place[m] = "visible" /\ receives[m] < RedriveMax
     /\ place'[m] = "inflight" /\ receives'[m] = receives[m] + 1
  \/ /\ <<place[m], place'[m]>> \in
          {<<"unsent", "visible">>, <<"inflight", "visible">>,
           <<"visible", "dlq">>, <<"visible", "gone">>, <<"inflight", "gone">>,
           <<"dlq", "gone">>}
     /\ receives'[m] = receives[m]

\* Each statement of the queue makes such a move of one message, or of those
\* in the dead-letter queue.
LEMMA QueueMovesMessages ==
  ASSUME RefInv, NEW n \in Messages,
         \/ ReceiveMessage(n) \/ VisibilityTimeout(n) \/ Redrive(n)
         \/ \E t : SendMessage(n, t)
         \/ \E rc : DeleteMessage(n, rc)
         \/ DeleteDlqMessage(n) \/ PurgeDlq
         \/ UNCHANGED queueVars
  PROVE  \A m \in Messages : MessageMove(m)
<1> USE DEF RefInv, TypeOK, QueueTypeOK, MessageMove
<1>1. CASE ReceiveMessage(n)
  BY <1>1 DEF ReceiveMessage
<1>2. CASE VisibilityTimeout(n) \/ Redrive(n)
  BY <1>2 DEF VisibilityTimeout, Redrive
<1>3. CASE \E t : SendMessage(n, t)
  BY <1>3 DEF SendMessage
<1>4. CASE \E rc : DeleteMessage(n, rc)
  BY <1>4 DEF DeleteMessage
<1>5. CASE DeleteDlqMessage(n) \/ PurgeDlq
  BY <1>5 DEF DeleteDlqMessage, PurgeDlq
<1>6. CASE UNCHANGED queueVars
  BY <1>6 DEF queueVars
<1> QED BY <1>1, <1>2, <1>3, <1>4, <1>5, <1>6

\* So does every step of the pipeline.
LEMMA MessageMoves == RefInv /\ [Next]_vars => \A m \in Messages : MessageMove(m)
<1> SUFFICES ASSUME RefInv, [Next]_vars, Messages # {}
             PROVE  \A m \in Messages : MessageMove(m)
  OBVIOUS
<1> DEFINE Moves == \A m \in Messages : MessageMove(m)
<1>1. CASE UNCHANGED queueVars
  BY <1>1, QueueMovesMessages
<1>2. ASSUME NEW m \in Messages, QueueStep(m) PROVE Moves
  BY <1>2, QueueMovesMessages DEF QueueStep
<1>3. ASSUME NEW w \in Workers, WorkerPoll(w) PROVE Moves
  BY <1>3, QueueMovesMessages DEF WorkerPoll, Poll, PollMessages
<1>4. ASSUME NEW w \in Workers, WorkerStep(w) PROVE Moves
  <2>1. \/ UNCHANGED queueVars
        \/ pc[w] = "delete" /\ DeleteMessage(held[w], rcount[w])
    BY <1>4 DEF WorkerStep, ProcessStep, Claim, ClaimConflict, ClaimError,
       Infer, InferError, Revert, Fail, PutObject, PutObjectError, Delete,
       Complete, Announce
  <2>2. pc[w] = "delete" => held[w] \in Messages
    BY DEF RefInv, WorkerHoldsSent
  <2> QED BY <1>1, <2>1, <2>2, QueueMovesMessages
<1>5. ASSUME NEW w \in Workers, WorkerEnd(w) PROVE Moves
  BY <1>1, <1>5 DEF WorkerEnd, WorkerCrash
<1>6. ASSUME NEW t \in Tasks, ApiRequest(t) \/ ApiStep(t) \/ ApiEnd(t)
      PROVE  Moves
  <2>1. UNCHANGED queueVars \/ \E m \in Messages : SendMessage(m, t)
    BY <1>6 DEF ApiRequest, HandlerRequest, CreateTask, ReplayCheck,
       InsertError, ApiEnd, HandlerCrash, ApiStep, HandlerStep, ReplayInsert,
       ReplayFull, ReplayDepthUnknown, Publish, PublishUnknown, PublishError,
       Reject
  <2> QED BY <1>1, <2>1, QueueMovesMessages
<1>7. ASSUME NEW o \in Operators, DlqRequest(o) PROVE Moves
  <2>1. \/ UNCHANGED queueVars \/ PurgeDlq
        \/ \E m \in Messages : DeleteDlqMessage(m)
    BY <1>7 DEF DlqRequest, OperatorRequest, ListMessages, Retry, DlqDelete,
       Purge
  <2> QED BY <1>1, <2>1, QueueMovesMessages
<1>8. ASSUME NEW o \in Operators, DlqStep(o) PROVE Moves
  <2>1. \/ UNCHANGED queueVars
        \/ \E m \in Messages : SendMessage(m, body[target[o]])
        \/ opc[o] = "delete" /\ DeleteDlqMessage(target[o])
    BY <1>8 DEF DlqStep, RetryStep, RetrySend, RetrySendError, RetryDelete,
       RetryRevert, queueVars
  <2>2. opc[o] = "delete" => target[o] \in Messages
    BY DEF RefInv, TypeOK, DlqTypeOK, ScreenShowsSent
  <2> QED BY <1>1, <2>1, <2>2, QueueMovesMessages
<1>9. ASSUME NEW o \in Operators, DlqEnd(o) PROVE Moves
  BY <1>1, <1>9 DEF DlqEnd, RetryCrash
<1> QED
  BY <1>1, <1>2, <1>3, <1>4, <1>5, <1>6, <1>7, <1>8, <1>9 DEF Next, vars

\* A message moves 2 * RedriveMax + 3 times at most, whatever workers and
\* operators do: every step leaves it where it is or uses up one of its moves.
\* Retry (handlers/dlq.go) sends a copy and does not move the old message.
THEOREM MessagesRunDown ==
  Spec => [][\A m \in Messages :
               \/ place'[m] = place[m] /\ receives'[m] = receives[m]
               \/ MovesLeft(m)' \in Nat /\ MovesLeft(m)' < MovesLeft(m)]_vars
<1> DEFINE RunsDown(m) ==
      \/ place'[m] = place[m] /\ receives'[m] = receives[m]
      \/ MovesLeft(m)' \in Nat /\ MovesLeft(m)' < MovesLeft(m)
<1>1. ASSUME RefInv, RefInv', NEW m \in Messages, MessageMove(m)
      PROVE  RunsDown(m)
  <2> USE RedriveAssumption DEF MovesLeft
  <2>1. /\ receives[m] \in 0..RedriveMax /\ receives'[m] \in 0..RedriveMax
        /\ RedriveMax \in Nat
    BY <1>1 DEF RefInv, TypeOK, QueueTypeOK
  <2>2. CASE place[m] = "visible" /\ place'[m] = "inflight" /\ receives'[m] = receives[m] + 1
    BY <2>1, <2>2
  <2>3. CASE place[m] = "unsent" /\ place'[m] = "visible" /\ receives'[m] = receives[m]
    BY <2>1, <2>3
  <2>4. CASE place[m] = "inflight" /\ place'[m] = "visible" /\ receives'[m] = receives[m]
    BY <2>1, <2>4
  <2>5. CASE place[m] = "visible" /\ place'[m] \in {"dlq", "gone"} /\ receives'[m] = receives[m]
    BY <2>1, <2>5
  <2>6. CASE place[m] \in {"inflight", "dlq"} /\ place'[m] = "gone" /\ receives'[m] = receives[m]
    BY <2>1, <2>6
  <2> QED BY <1>1, <2>2, <2>3, <2>4, <2>5, <2>6 DEF MessageMove
<1>2. RefInv /\ RefInv' /\ [Next]_vars => [\A m \in Messages : RunsDown(m)]_vars
  BY <1>1, MessageMoves
<1>3. IInv => RefInv
  BY DEF IInv
<1> QED BY <1>2, <1>3, Inductive, PTL DEF Spec
============================================================================
