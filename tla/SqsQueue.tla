----------------------------- MODULE SqsQueue -----------------------------
(***************************************************************************)
(* The SQS main queue and its dead-letter queue (external: SQS under       *)
(* LocalStack, provisioned by infra/terraform/sqs.tf), as the API and the  *)
(* worker use them.  A standard queue: messages are handed out in any      *)
(* order, a message that is not deleted within its visibility timeout is   *)
(* handed out again, and one that has been received RedriveMax times moves *)
(* to the dead-letter queue.                                               *)
(*                                                                         *)
(* Time is left out: a message in flight may become visible at any moment. *)
(* The queue's timeout is 360 s and the worker's inference deadline 570 s, *)
(* so this does happen while a worker is still busy with the message.      *)
(*                                                                         *)
(* The pool Messages bounds how many SendMessage calls a behaviour makes.  *)
(***************************************************************************)
EXTENDS TaskTable, Naturals

CONSTANTS
  Messages,          \* identities for the messages sent
  NoTask,            \* the body of a message not sent yet
  RedriveMax         \* maxReceiveCount of the queue's redrive policy

ASSUME RedriveAssumption == RedriveMax \in Nat \ {0}
ASSUME NoTaskAssumption == NoTask \notin Tasks

VARIABLES
  place,             \* place[m]: where the message is
  receives,          \* receives[m]: its ApproximateReceiveCount
  body               \* body[m]: the task_id in its body

queueVars == <<place, receives, body>>

Places == {"unsent", "visible", "inflight", "dlq", "gone"}

QueueTypeOK ==
  /\ place \in [Messages -> Places]
  /\ receives \in [Messages -> 0..RedriveMax]
  /\ body \in [Messages -> Tasks \cup {NoTask}]

QueueInit ==
  /\ place = [m \in Messages |-> "unsent"]
  /\ receives = [m \in Messages |-> 0]
  /\ body = [m \in Messages |-> NoTask]

----------------------------------------------------------------------------
\* SendMessage to the main queue.
SendMessage(m, t) ==
  /\ place[m] = "unsent"
  /\ place' = [place EXCEPT ![m] = "visible"]
  /\ body' = [body EXCEPT ![m] = t]
  /\ UNCHANGED receives

\* Mutant of ReceiveMessage: a message beyond the redrive limit is handed out.
ReceiveBeyondRedrive(m) ==
  /\ place[m] = "visible"
  /\ place' = [place EXCEPT ![m] = "inflight"]
  /\ receives' = [receives EXCEPT ![m] = @ + 1]
  /\ UNCHANGED body

\* ReceiveMessage on the main queue hands out m.
ReceiveMessage(m) ==
  /\ place[m] = "visible"
  /\ receives[m] < RedriveMax
  /\ place' = [place EXCEPT ![m] = "inflight"]
  /\ receives' = [receives EXCEPT ![m] = @ + 1]
  /\ UNCHANGED body

\* The visibility timeout of m runs out: the queue's own, or the shorter one
\* that ChangeMessageVisibility asked for.
VisibilityTimeout(m) ==
  /\ place[m] = "inflight"
  /\ place' = [place EXCEPT ![m] = "visible"]
  /\ UNCHANGED <<receives, body>>

\* The redrive policy: a visible message with no receives left is moved.
Redrive(m) ==
  /\ place[m] = "visible"
  /\ receives[m] >= RedriveMax
  /\ place' = [place EXCEPT ![m] = "dlq"]
  /\ UNCHANGED <<receives, body>>

\* DeleteMessage on the main queue with the receipt handle of receive number
\* rc.  A handle of an earlier receive, or of a message that became visible
\* again, may or may not work.
DeleteMessage(m, rc) ==
  /\ \/ place' = [place EXCEPT ![m] = IF @ \in {"visible", "inflight"}
                                         THEN "gone" ELSE @]
     \/ /\ ~(place[m] = "inflight" /\ receives[m] = rc)
        /\ UNCHANGED place
  /\ UNCHANGED <<receives, body>>

\* DeleteMessage on the dead-letter queue with a handle from a listing: the
\* listing made the message visible again, so the handle may have expired.
DeleteDlqMessage(m) ==
  /\ \/ place' = [place EXCEPT ![m] = IF @ = "dlq" THEN "gone" ELSE @]
     \/ UNCHANGED place
  /\ UNCHANGED <<receives, body>>

\* PurgeQueue on the dead-letter queue.
PurgeDlq ==
  /\ place' = [m \in Messages |-> IF place[m] = "dlq" THEN "gone" ELSE place[m]]
  /\ UNCHANGED <<receives, body>>
==========================================================================
