---------------------------- MODULE LocalWorker ----------------------------
(***************************************************************************)
(* QUEUE_BACKEND=inmemory: a bounded channel (internal/queue) and the one  *)
(* goroutine that reads it (internal/worker).  The goroutine publishes     *)
(* what becomes of a task and never touches the tasks table.               *)
(***************************************************************************)
EXTENDS Naturals, Sequences

CONSTANTS
  Tasks,
  NoTask,
  Capacity    \* QUEUE_CAPACITY (128)

ASSUME WorkerAssumption == NoTask \notin Tasks /\ Capacity \in Nat \ {0}

VARIABLES
  queue,      \* the channel
  current,    \* the task in process, NoTask between two
  running,    \* Run has not returned
  stopping,   \* SIGTERM: the context of Run and of its calls is over
  announced   \* announced[t]: the sequence of messages published about t

workerVars == <<queue, current, running, stopping, announced>>

MessageTypes == {"created", "processing", "completed", "failed"}

WorkerTypeOK ==
  /\ queue \in Seq(Tasks) /\ Len(queue) <= Capacity
  /\ current \in Tasks \cup {NoTask}
  /\ running \in BOOLEAN /\ stopping \in BOOLEAN
  /\ announced \in [Tasks -> Seq(MessageTypes)]

WorkerInit ==
  /\ queue = <<>>
  /\ current = NoTask
  /\ running = TRUE /\ stopping = FALSE
  /\ announced = [t \in Tasks |-> <<>>]

Announce(t, type) == announced' = [announced EXCEPT ![t] = Append(@, type)]

HasRoom == Len(queue) < Capacity

\* Mutant of Enqueue: a full queue gives up its oldest task.
EnqueueOverwrites(t) ==
  queue' = IF HasRoom THEN Append(queue, t) ELSE Append(Tail(queue), t)

\* Enqueue never waits; with no room it returns FALSE and does nothing.
Enqueue(t) == queue' = IF HasRoom THEN Append(queue, t) ELSE queue

\* Mutant of Take: the task stays in the channel until it is done.
TakeLeaving ==
  /\ running /\ current = NoTask /\ queue # <<>>
  /\ current' = Head(queue)
  /\ Announce(Head(queue), "processing")
  /\ UNCHANGED <<queue, running, stopping>>

\* Run receives the next task; process announces it.
Take ==
  /\ running /\ current = NoTask /\ queue # <<>>
  /\ current' = Head(queue)
  /\ queue' = Tail(queue)
  /\ Announce(Head(queue), "processing")
  /\ UNCHANGED <<running, stopping>>

\* Mutant of Finish: after SIGTERM process returns without a message.
FinishUnsaid ==
  /\ current # NoTask
  /\ \/ ~stopping /\ \E type \in {"completed", "failed"} : Announce(current, type)
     \/ stopping /\ UNCHANGED announced
  /\ current' = NoTask
  /\ UNCHANGED <<queue, running, stopping>>

\* Infer answers, or ends with an error after 120 seconds at the latest; after
\* SIGTERM it fails at once.
Finish ==
  /\ current # NoTask
  /\ \/ ~stopping /\ Announce(current, "completed")
     \/ Announce(current, "failed")
  /\ current' = NoTask
  /\ UNCHANGED <<queue, running, stopping>>

\* SIGTERM.
Sigterm ==
  /\ ~stopping
  /\ stopping' = TRUE
  /\ UNCHANGED <<queue, current, running, announced>>

\* Run sees that its context is over.  When there are tasks as well, select
\* picks at random: some may still be taken, and fail.
Return ==
  /\ running /\ stopping /\ current = NoTask
  /\ running' = FALSE
  /\ UNCHANGED <<queue, current, stopping, announced>>

WorkerStep == Take \/ Finish \/ Return
==========================================================================
