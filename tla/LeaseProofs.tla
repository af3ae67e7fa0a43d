---------------------------- MODULE LeaseProofs ----------------------------
(***************************************************************************)
(* The proof that Pipeline implements TaskLease.                           *)
(***************************************************************************)
EXTENDS PipelineProofs

\* Owner is what its name says, because claims are exclusive.
LEMMA OwnerMeaning ==
  ASSUME ExclusiveClaim
  PROVE  /\ Owner \in [Tasks -> Workers \cup {NoWorker}]
         /\ \A t \in Tasks, w \in Workers : Owner[t] = w <=> Owns(w, t)
<1>1. ASSUME NEW t \in Tasks
      PROVE  /\ Owner[t] \in Workers \cup {NoWorker}
             /\ \A w \in Workers : Owner[t] = w <=> Owns(w, t)
  <2>1. CASE \E w \in Workers : Owns(w, t)
    <3>1. PICK w \in Workers : Owns(w, t)
      BY <2>1
    <3>2. Owner[t] = CHOOSE v \in Workers : Owns(v, t)
      BY <2>1 DEF Owner
    <3>3. Owner[t] \in Workers /\ Owns(Owner[t], t)
      BY <3>1, <3>2
    <3> QED BY <3>3 DEF ExclusiveClaim
  <2>2. CASE ~\E w \in Workers : Owns(w, t)
    BY <2>2, NoWorkerAssumption DEF Owner
  <2> QED BY <2>1, <2>2
<1> QED BY <1>1 DEF Owner

\* The same of the next state.
LEMMA OwnerMeaningNext ==
  ASSUME ExclusiveClaim'
  PROVE  /\ Owner' \in [Tasks -> Workers \cup {NoWorker}]
         /\ \A t \in Tasks, w \in Workers : Owner'[t] = w <=> Owns(w, t)'
<1>1. ASSUME NEW t \in Tasks
      PROVE  /\ Owner'[t] \in Workers \cup {NoWorker}
             /\ \A w \in Workers : Owner'[t] = w <=> Owns(w, t)'
  <2>1. CASE \E w \in Workers : Owns(w, t)'
    <3>1. PICK w \in Workers : Owns(w, t)'
      BY <2>1
    <3>2. Owner'[t] = CHOOSE v \in Workers : Owns(v, t)'
      BY <2>1 DEF Owner
    <3>3. Owner'[t] \in Workers /\ \E v \in Workers : v = Owner'[t] /\ Owns(v, t)'
      BY <3>1, <3>2
    <3> QED BY <3>3 DEF ExclusiveClaim
  <2>2. CASE ~\E w \in Workers : Owns(w, t)'
    BY <2>2, NoWorkerAssumption DEF Owner
  <2> QED BY <2>1, <2>2
<1> QED BY <1>1 DEF Owner

----------------------------------------------------------------------------
\* Initially there are no rows and no owners.
LEMMA LeaseInit == Init => Lease!Init
BY DEF Init, TableInit, WorkerInit, Lease!Init, Owner, Owns, Claimed

\* What the queue, the handlers and the operators do to a row is an ApiMove.
LEMMA OutsideMoves ==
  ASSUME RefInv,
         \/ \E m \in Messages : QueueStep(m)
         \/ \E t \in Tasks : ApiRequest(t) \/ ApiStep(t) \/ ApiEnd(t)
         \/ \E o \in Operators : DlqRequest(o) \/ DlqStep(o) \/ DlqEnd(o)
         \/ UNCHANGED vars
  PROVE  \/ UNCHANGED status
         \/ \E t \in Tasks : \E move \in Lease!ApiMoves :
              status[t] = move[1] /\ status' = [status EXCEPT ![t] = move[2]]
<1> DEFINE Moves ==
      \/ UNCHANGED status
      \/ \E t \in Tasks : \E move \in Lease!ApiMoves :
           status[t] = move[1] /\ status' = [status EXCEPT ![t] = move[2]]
<1> USE DEF RefInv, TypeOK, TableTypeOK, tableVars
<1>1. ASSUME NEW t \in Tasks,
             InsertTask(t) \/ RejectPending(t) \/ RevertToPendingForRetry(t)
      PROVE  Moves
  <2>1. CASE InsertTask(t)
    BY <2>1 DEF InsertTask, Lease!ApiMoves
  <2>2. CASE RejectPending(t)
    BY <2>2 DEF RejectPending, Lease!ApiMoves
  <2>3. CASE RevertToPendingForRetry(t)
    BY <2>3 DEF RevertToPendingForRetry, Lease!ApiMoves
  <2> QED BY <1>1, <2>1, <2>2, <2>3
<1>2. CASE \E m \in Messages : QueueStep(m)
  BY <1>2 DEF QueueStep
<1>3. ASSUME NEW t \in Tasks, ApiRequest(t) \/ ApiStep(t) \/ ApiEnd(t)
      PROVE  Moves
  <2>1. InsertTask(t) \/ RejectPending(t) \/ UNCHANGED status
    BY <1>3 DEF ApiRequest, HandlerRequest, CreateTask, ReplayCheck,
       InsertError, ApiStep, HandlerStep, ReplayInsert, ReplayFull,
       ReplayDepthUnknown, Publish, PublishUnknown, PublishError, Reject,
       ApiEnd, HandlerCrash
  <2> QED BY <2>1, <1>1
<1>4. ASSUME NEW o \in Operators, DlqRequest(o) \/ DlqStep(o) \/ DlqEnd(o)
      PROVE  Moves
  <2>1. \/ UNCHANGED status
        \/ opc[o] = "revert" /\ RevertToPendingForRetry(body[target[o]])
    BY <1>4 DEF DlqRequest, OperatorRequest, ListMessages, Retry, DlqDelete,
       Purge, DlqStep, RetryStep, RetrySend, RetrySendError, RetryDelete,
       RetryRevert, DlqEnd, RetryCrash
  <2>2. opc[o] = "revert" => body[target[o]] \in Tasks
    BY DEF ScreenShowsSent, SentNamesTask, DlqTypeOK
  <2> QED BY <2>1, <2>2, <1>1
<1>5. CASE UNCHANGED vars
  BY <1>5 DEF vars
<1> QED BY <1>2, <1>3, <1>4, <1>5

\* The owners do not change when no claim changes.
LEMMA OwnersKept ==
  ASSUME ExclusiveClaim, ExclusiveClaim',
         \A w \in Workers, t \in Tasks : Owns(w, t)' <=> Owns(w, t)
  PROVE  Owner' = Owner
<1>1. ASSUME NEW t \in Tasks PROVE Owner'[t] = Owner[t]
  BY OwnerMeaning, OwnerMeaningNext
<1> QED BY <1>1, OwnerMeaning, OwnerMeaningNext

\* When w takes up a claim on t, or gives it up, only the owner of t changes.
LEMMA OwnerOfOne ==
  ASSUME ExclusiveClaim, ExclusiveClaim', NEW w \in Workers, NEW t \in Tasks,
         \A v \in Workers, u \in Tasks :
           <<v, u>> # <<w, t>> => (Owns(v, u)' <=> Owns(v, u)),
         Owns(w, t) \/ Owns(w, t)'
  PROVE  Owner' = [Owner EXCEPT ![t] = IF Owns(w, t)' THEN w ELSE NoWorker]
<1>1. ASSUME NEW u \in Tasks, u # t PROVE Owner'[u] = Owner[u]
  BY <1>1, OwnerMeaning, OwnerMeaningNext
<1>2. Owner'[t] = IF Owns(w, t)' THEN w ELSE NoWorker
  <2>1. CASE Owns(w, t)'
    BY <2>1, OwnerMeaningNext
  <2>2. CASE ~Owns(w, t)'
    <3>1. \A v \in Workers : ~Owns(v, t)'
      BY <2>2 DEF ExclusiveClaim
    <3> QED BY <2>2, <3>1, OwnerMeaningNext
  <2> QED BY <2>1, <2>2
<1> QED BY <1>1, <1>2, OwnerMeaning, OwnerMeaningNext

----------------------------------------------------------------------------
\* Every step of the queue, the handlers and the operators is an ApiMove or
\* leaves rows and owners alone.
LEMMA OutsideRefines ==
  ASSUME IInv, ExclusiveClaim',
         \/ \E m \in Messages : QueueStep(m)
         \/ \E t \in Tasks : ApiRequest(t) \/ ApiStep(t) \/ ApiEnd(t)
         \/ \E o \in Operators : DlqRequest(o) \/ DlqStep(o) \/ DlqEnd(o)
         \/ UNCHANGED vars
  PROVE  [Lease!Next]_(Lease!leaseVars)
<1>1. RefInv /\ ExclusiveClaim
  BY DEF IInv, ClaimInv
<1>2. BodiesKept /\ UNCHANGED <<pc, held>>
  BY <1>1, OutsideSteps
<1>3. \A w \in Workers, t \in Tasks : Owns(w, t)' <=> Owns(w, t)
  BY <1>1, <1>2 DEF RefInv, WorkerHoldsSent, BodiesKept, Owns, Claimed, TaskOf
<1>4. Owner' = Owner
  BY <1>1, <1>3, OwnersKept
<1>5. \/ UNCHANGED status
      \/ \E t \in Tasks : \E move \in Lease!ApiMoves :
           status[t] = move[1] /\ status' = [status EXCEPT ![t] = move[2]]
  BY <1>1, OutsideMoves
<1> QED BY <1>4, <1>5 DEF Lease!Next, Lease!ApiMove, Lease!leaseVars

\* A worker that polls, or has a claim neither before nor after, changes
\* neither rows nor owners.
LEMMA PollRefines ==
  ASSUME IInv, ExclusiveClaim', NEW w \in Workers, WorkerPoll(w)
  PROVE  UNCHANGED Lease!leaseVars
<1>1. RefInv /\ ExclusiveClaim
  BY DEF IInv, ClaimInv
<1>2. PICK m \in Messages : PollMessages(w, m)
  BY DEF WorkerPoll, Poll
<1>3. \A v \in Workers \ {w}, t \in Tasks : Owns(v, t)' <=> Owns(v, t)
  BY <1>1, <1>2, OthersKeepTasks
     DEF RefInv, TypeOK, WorkerTypeOK, PollMessages, ReceiveMessage
<1>4. \A t \in Tasks : ~Owns(w, t) /\ ~Owns(w, t)'
  BY <1>1, <1>2 DEF RefInv, TypeOK, WorkerTypeOK, PollMessages, Owns, Claimed
<1>5. Owner' = Owner
  BY <1>1, <1>3, <1>4, OwnersKept
<1> QED BY <1>2, <1>5 DEF PollMessages, tableVars, Lease!leaseVars

\* Every call of Process, and the end of a worker, is a step of the lease
\* protocol on the task t that the worker holds a message for.
LEMMA WorkerRefines ==
  ASSUME IInv, IInv', NEW w \in Workers, WorkerStep(w) \/ WorkerEnd(w)
  PROVE  [Lease!Next]_(Lease!leaseVars)
<1> USE DEF RefInv, TypeOK, TableTypeOK, WorkerTypeOK
<1>1. RefInv /\ ExclusiveClaim /\ ExclusiveClaim'
  BY DEF IInv, ClaimInv
<1>2. pc[w] # "idle"
  BY DEF WorkerStep, ProcessStep, Claim, ClaimConflict, ClaimError, Infer,
     InferError, Revert, Fail, PutObject, PutObjectError, Delete, Complete,
     Announce, WorkerEnd, WorkerCrash
<1>3. PICK t \in Tasks : t = TaskOf(w)
  BY <1>1, <1>2 DEF WorkerHoldsSent, SentNamesTask, TaskOf
<1>4. /\ UNCHANGED body
      /\ \A v \in Workers \ {w} : pc'[v] = pc[v] /\ held'[v] = held[v]
  BY <1>1 DEF WorkerStep, ProcessStep, Claim, ClaimConflict, ClaimError, Infer,
     InferError, Revert, Fail, PutObject, PutObjectError, Delete, Complete,
     Announce, WorkerEnd, WorkerCrash, Goto, Return, DeleteMessage, queueVars
<1>5. \A v \in Workers \ {w}, u \in Tasks : Owns(v, u)' <=> Owns(v, u)
  BY <1>1, <1>4, OthersKeepTasks
<1>6. \A u \in Tasks : u # t => ~Owns(w, u) /\ ~Owns(w, u)'
  BY <1>1, <1>3, <1>4 DEF WorkerStep, ProcessStep, Claim, ClaimConflict, ClaimError,
     Infer, InferError, Revert, Fail, PutObject, PutObjectError, Delete,
     Complete, Announce, WorkerEnd, WorkerCrash, Goto, Return, Owns, Claimed,
     TaskOf
<1> DEFINE Keep    == UNCHANGED status /\ (Owns(w, t)' <=> Owns(w, t))
           Take    == /\ status[t] = "pending"
                      /\ status' = [status EXCEPT ![t] = "processing"]
                      /\ ~Owns(w, t)
           Give    == /\ Owns(w, t) /\ ~Owns(w, t)'
                      /\ \E s \in {"completed", "failed", "pending"} :
                           status' = [status EXCEPT ![t] = s]
           Forget  == /\ Owns(w, t) /\ ~Owns(w, t)'
                      /\ UNCHANGED status
<1>7. Keep \/ Take \/ Give \/ Forget
  <2> USE <1>1, <1>3, <1>4 DEF Owns, Claimed, TaskOf, Goto, Return, tableVars
  <2>1. CASE Claim(w) \/ ClaimConflict(w) \/ ClaimError(w)
    BY <2>1 DEF Claim, ClaimConflict, ClaimError, SetProcessing, Claimable
  <2>2. CASE Infer(w) \/ InferError(w) \/ PutObject(w) \/ PutObjectError(w)
               \/ Delete(w) \/ Announce(w)
    BY <2>2 DEF Infer, InferError, PutObject, PutObjectError, Delete, Announce
  <2>3. Owns(w, t) => status[t] = "processing"
    BY DEF ExclusiveClaim
  <2>4. CASE Revert(w)
    BY <2>3, <2>4 DEF Revert, RevertToPending
  <2>5. CASE Fail(w)
    BY <2>3, <2>5 DEF Fail, SetFailed
  <2>6. CASE Complete(w)
    BY <2>3, <2>6 DEF Complete, SetCompleted
  <2>7. CASE WorkerEnd(w)
    BY <2>7 DEF WorkerEnd, WorkerCrash
  <2> QED BY <2>1, <2>2, <2>4, <2>5, <2>6, <2>7 DEF WorkerStep, ProcessStep
<1>8. \A v \in Workers, u \in Tasks :
        <<v, u>> # <<w, t>> => (Owns(v, u)' <=> Owns(v, u))
  BY <1>5, <1>6
<1>9. CASE Keep
  <2>1. Owner' = Owner
    BY <1>1, <1>8, <1>9, OwnersKept
  <2> QED BY <1>9, <2>1 DEF Lease!leaseVars
<1>10. CASE Take
  <2>1. Owner[t] = NoWorker
    BY <1>1, <1>10, OwnerMeaning DEF ExclusiveClaim
  <2>2. \E v \in Workers \cup {NoWorker} : Owner' = [Owner EXCEPT ![t] = v]
    <3>1. CASE Owns(w, t)'
      BY <1>1, <1>8, <3>1, OwnerOfOne
    <3>2. CASE ~Owns(w, t)'
      <4>1. Owner' = Owner
        BY <1>1, <1>8, <1>10, <3>2, OwnersKept
      <4> QED BY <1>1, <2>1, <4>1, OwnerMeaning
    <3> QED BY <3>1, <3>2
  <2> QED BY <1>10, <2>2 DEF Lease!Next, Lease!Acquire
<1>11. CASE Give \/ Forget
  <2>1. Owner[t] = w /\ status[t] = "processing"
    BY <1>1, <1>11, OwnerMeaning DEF ExclusiveClaim
  <2>2. Owner[t] # NoWorker
    BY <2>1, NoWorkerAssumption
  <2>3. Owner' = [Owner EXCEPT ![t] = NoWorker]
    BY <1>1, <1>8, <1>11, OwnerOfOne
  <2> QED BY <1>11, <2>1, <2>2, <2>3 DEF Lease!Next, Lease!GiveUp, Lease!Lose
<1> QED BY <1>7, <1>9, <1>10, <1>11

----------------------------------------------------------------------------
\* Every step of the pipeline is a step of the lease protocol, or a stutter.
LEMMA LeaseStep == IInv /\ IInv' /\ [Next]_vars => [Lease!Next]_(Lease!leaseVars)
<1> SUFFICES ASSUME IInv, IInv', [Next]_vars
             PROVE  [Lease!Next]_(Lease!leaseVars)
  OBVIOUS
<1>1. ExclusiveClaim'
  BY DEF IInv, ClaimInv
<1>2. ASSUME NEW w \in Workers, WorkerPoll(w) \/ WorkerStep(w) \/ WorkerEnd(w)
      PROVE  [Lease!Next]_(Lease!leaseVars)
  BY <1>1, <1>2, PollRefines, WorkerRefines
<1>3. ASSUME \/ \E m \in Messages : QueueStep(m)
             \/ \E t \in Tasks : ApiRequest(t) \/ ApiStep(t) \/ ApiEnd(t)
             \/ \E o \in Operators : DlqRequest(o) \/ DlqStep(o) \/ DlqEnd(o)
             \/ UNCHANGED vars
      PROVE  [Lease!Next]_(Lease!leaseVars)
  BY <1>1, <1>3, OutsideRefines
<1> QED BY <1>2, <1>3 DEF Next

\* The pipeline implements the lease protocol: of all the statements the API,
\* the operators and the workers run, only the owner's move a processing row,
\* nothing moves a completed one, and an orphaned row stays processing.
THEOREM ImplementsLease == Spec => LeaseSpec
<1>1. Spec => Init /\ []IInv /\ [][Next]_vars
  BY Inductive, PTL DEF Spec
<1> QED BY <1>1, LeaseInit, LeaseStep, PTL DEF LeaseSpec, Lease!Spec
==========================================================================
