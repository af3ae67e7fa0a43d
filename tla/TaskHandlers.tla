--------------------------- MODULE TaskHandlers ---------------------------
(***************************************************************************)
(* The two API handlers that create tasks on the SQS backend:              *)
(* TaskHandler.ServeHTTP (POST /api/tasks) and ReplayHandler.Replay (POST  *)
(* /api/tasks/{id}/replay).  Both insert a pending row and then publish a  *)
(* message; when publishing fails they mark the row failed.  The id is a   *)
(* fresh uuid, so a handler is identified with the task it creates.        *)
(*                                                                         *)
(* A request that is answered with an error before the INSERT changes      *)
(* nothing and is left out, as is the task.created event.                  *)
(***************************************************************************)
EXTENDS SqsQueue, Faults, FiniteSets

CONSTANT ReplayDepthLimit     \* 100 in checkQueueDepth

ASSUME DepthAssumption == ReplayDepthLimit \in Nat

VARIABLES
  hpc,               \* hpc[t]: the next call of the handler creating t
  origin             \* origin[t]: replay_of, NoTask for a new task

handlerVars == <<hpc, origin>>

HandlerTypeOK ==
  /\ hpc \in [Tasks -> {"none", "insert", "publish", "reject", "done"}]
  /\ origin \in [Tasks -> Tasks \cup {NoTask}]

HandlerInit ==
  /\ hpc = [t \in Tasks |-> "none"]
  /\ origin = [t \in Tasks |-> NoTask]

At(t, l) == hpc[t] = l /\ UNCHANGED origin
Next_hpc(t, l) == hpc' = [hpc EXCEPT ![t] = l]

\* ApproximateNumberOfMessages of the main queue.
Depth == Cardinality({m \in Messages : place[m] = "visible"})

----------------------------------------------------------------------------
\* ServeHTTP with a valid body: InsertTask succeeds.
CreateTask(t) ==
  /\ At(t, "none")
  /\ InsertTask(t)
  /\ Next_hpc(t, "publish")
  /\ UNCHANGED <<queueVars, faultVars>>

\* Replay of o: GetTaskForReplay finds a finished task.
ReplayCheck(t, o) ==
  /\ hpc[t] = "none"
  /\ t # o
  /\ status[o] \in {"completed", "failed"}
  /\ origin' = [origin EXCEPT ![t] = o]
  /\ Next_hpc(t, "insert")
  /\ UNCHANGED <<tableVars, queueVars, faultVars>>

\* checkQueueDepth lets the replay through, and InsertTask succeeds.
ReplayInsert(t) ==
  /\ At(t, "insert")
  /\ Depth < ReplayDepthLimit
  /\ InsertTask(t)
  /\ Next_hpc(t, "publish")
  /\ UNCHANGED <<queueVars, faultVars>>

\* checkQueueDepth answers "queue full": 503, nothing was stored.
ReplayFull(t) ==
  /\ At(t, "insert")
  /\ Depth >= ReplayDepthLimit
  /\ Next_hpc(t, "done")
  /\ UNCHANGED <<tableVars, queueVars, faultVars>>

\* checkQueueDepth cannot read the depth, and lets the replay through.
ReplayDepthUnknown(t) ==
  /\ At(t, "insert")
  /\ InsertTask(t)
  /\ Fault
  /\ Next_hpc(t, "publish")
  /\ UNCHANGED queueVars

\* InsertTask reports an error: 500.  The row may be committed all the same.
InsertError(t) ==
  /\ \/ At(t, "none")
     \/ At(t, "insert") /\ Depth < ReplayDepthLimit
  /\ \/ InsertTask(t) /\ Fault
     \/ hpc[t] = "insert" /\ UNCHANGED <<tableVars, faultVars>>
  /\ Next_hpc(t, "done")
  /\ UNCHANGED queueVars

\* Publish: SendMessage succeeds; task.created, 201.
Publish(t, m) ==
  /\ At(t, "publish")
  /\ SendMessage(m, t)
  /\ Next_hpc(t, "done")
  /\ UNCHANGED <<tableVars, faultVars>>

\* Publish fails, nothing was sent.
PublishError(t) ==
  /\ At(t, "publish")
  /\ Next_hpc(t, "reject")
  /\ UNCHANGED <<tableVars, queueVars, faultVars>>

\* Publish reports an error although SQS accepted the message.
PublishUnknown(t, m) ==
  /\ At(t, "publish")
  /\ SendMessage(m, t)
  /\ Fault
  /\ Next_hpc(t, "reject")
  /\ UNCHANGED tableVars

\* SetFailed("sqs: queue unavailable"); its error is only logged.  500.
Reject(t) ==
  /\ At(t, "reject")
  /\ \/ RejectPending(t) /\ UNCHANGED faultVars
     \/ UNCHANGED tableVars /\ Fault
  /\ Next_hpc(t, "done")
  /\ UNCHANGED queueVars

\* The API stops, or the client goes away and r.Context() cancels every
\* further call of the handler.
HandlerCrash(t) ==
  /\ hpc[t] \in {"insert", "publish", "reject"}
  /\ CrashHappens
  /\ Next_hpc(t, "done")
  /\ UNCHANGED <<tableVars, queueVars, origin>>

----------------------------------------------------------------------------
\* What a handler does after it accepted the request.
HandlerStep(t) ==
  \/ ReplayInsert(t) \/ ReplayFull(t) \/ ReplayDepthUnknown(t)
  \/ \E m \in Messages : Publish(t, m) \/ PublishUnknown(t, m)
  \/ PublishError(t) \/ Reject(t)

\* A request arrives.
HandlerRequest(t) ==
  \/ CreateTask(t)
  \/ \E o \in Tasks : ReplayCheck(t, o)
  \/ InsertError(t)
==========================================================================
