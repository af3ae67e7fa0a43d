---------------------------- MODULE TaskLease ----------------------------
(***************************************************************************)
(* What the conditional UPDATEs on the status column promise, without      *)
(* queues, handlers and program counters: the status of a task is a lease. *)
(* A worker that moves a row from pending to processing is its owner until *)
(* it gives the row up, and nobody but the owner can move a processing row *)
(* on.  There is no lease expiry: when the owner is gone the row stays     *)
(* processing.                                                             *)
(***************************************************************************)
CONSTANTS Tasks, Workers, NoWorker

VARIABLES status, owner

leaseVars == <<status, owner>>

Init ==
  /\ status = [t \in Tasks |-> "absent"]
  /\ owner = [t \in Tasks |-> NoWorker]

\* Rows no worker owns: inserted by the API, rejected when the message could
\* not be published, revived from the dead-letter queue.
ApiMoves == {<<"absent", "pending">>, <<"pending", "failed">>, <<"failed", "pending">>}

ApiMove(t) ==
  /\ \E move \in ApiMoves :
       /\ status[t] = move[1]
       /\ status' = [status EXCEPT ![t] = move[2]]
  /\ UNCHANGED owner

\* A worker's SetProcessing, whose answer may get lost.
Acquire(t) ==
  /\ status[t] = "pending"
  /\ status' = [status EXCEPT ![t] = "processing"]
  /\ \E w \in Workers \cup {NoWorker} : owner' = [owner EXCEPT ![t] = w]

\* The owner's last statement: SetCompleted, SetFailed or RevertToPending.
GiveUp(t) ==
  /\ owner[t] # NoWorker
  /\ status[t] = "processing"
  /\ \E s \in {"completed", "failed", "pending"} :
       status' = [status EXCEPT ![t] = s]
  /\ owner' = [owner EXCEPT ![t] = NoWorker]

\* The owner stops, or its last statement fails: nobody owns the row now.
Lose(t) ==
  /\ owner[t] # NoWorker
  /\ owner' = [owner EXCEPT ![t] = NoWorker]
  /\ UNCHANGED status

Next == \E t \in Tasks : ApiMove(t) \/ Acquire(t) \/ GiveUp(t) \/ Lose(t)

Spec == Init /\ [][Next]_leaseVars
==========================================================================
